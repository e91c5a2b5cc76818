------------------------------ MODULE ErrorStore ------------------------------
(***************************************************************************)
(* The errors that an export returns as a number and whose text the C      *)
(* client takes afterwards: the id sequence, the records, their expiry and *)
(* the pinned texts.  Goroutines store errors, C threads take and release  *)
(* texts, and a timer per record deletes it.                               *)
(*                                                                         *)
(* Errors are numbered in the order in which they were given their ids.    *)
(***************************************************************************)
EXTENDS Naturals

CONSTANTS
  Threads,     \* goroutines and C threads
  MaxId,       \* the largest ErrorID, 2^31-1 in the code
  MaxErrors,   \* bound on the errors stored
  TTL          \* errorTTL, in ticks of the clock

ASSUME ErrorsAssumption == MaxId \in Nat \ {0} /\ MaxErrors \in Nat /\ TTL \in Nat \ {0}

Errors == 1 .. MaxErrors
Ids == 1 .. MaxId
None == 0
Free == "free"
ASSUME FreeAssumption == Free \notin Threads

VARIABLES
  errorSeq,                  \* the last id handed out
  records,                   \* errorStore.records: id to error
  mutex,                     \* errorStore.mu: the thread that holds it
  left,                      \* of every error: ticks until its record expires
  timers,                    \* errors whose timer is pending
  due,                       \* of every error: ticks until its timer fires
  pinned,                    \* errors whose text is pinned
  stored, idOf,              \* errors so far, and their ids
  issued,                    \* errors whose id was returned to the client
  takes,                     \* of every error: successful takes of its text
  pc, seen, current          \* of every thread: its call, the sequence it read,
                             \* the error its call is about

storeVars == <<records, left, timers, due>>
errorVars == <<stored, idOf, issued>>
threadVars == <<pc, seen, current>>
vars == <<errorSeq, storeVars, mutex, pinned, errorVars, takes, threadVars>>

TypeOK ==
  /\ errorSeq \in 0 .. MaxId
  /\ DOMAIN records \subseteq Ids /\ \A id \in DOMAIN records : records[id] \in 1 .. stored
  /\ mutex \in Threads \cup {Free}
  /\ left \in [Errors -> 0 .. TTL] /\ due \in [Errors -> 0 .. TTL]
  /\ timers \subseteq 1 .. stored /\ pinned \subseteq 1 .. stored
  /\ stored \in 0 .. MaxErrors
  /\ idOf \in [1 .. stored -> Ids]
  /\ issued \subseteq 1 .. stored
  /\ takes \in [Errors -> Nat]
  /\ pc \in [Threads -> {"idle", "next", "cas", "stamp", "store", "schedule", "pin", "length"}]
  /\ seen \in [Threads -> 0 .. MaxId]
  /\ current \in [Threads -> 0 .. stored]

Init ==
  /\ errorSeq = 0
  /\ records = [id \in {} |-> None]
  /\ mutex = Free
  /\ left = [e \in Errors |-> 0] /\ due = [e \in Errors |-> 0]
  /\ timers = {} /\ pinned = {}
  /\ stored = 0 /\ idOf = [e \in {} |-> None] /\ issued = {}
  /\ takes = [e \in Errors |-> 0]
  /\ pc = [t \in Threads |-> "idle"]
  /\ seen = [t \in Threads |-> 0]
  /\ current = [t \in Threads |-> None]

Without(id) == [i \in DOMAIN records \ {id} |-> records[i]]

-----------------------------------------------------------------------------
(***************************************************************************)
(* StoreError: an id by compare-and-swap, the record, its timer.           *)
(***************************************************************************)
Goto(t, step) == pc' = [pc EXCEPT ![t] = step]

(* From the moment it has an id until its timer has fired. *)
Live(e) ==
  \/ e \in timers
  \/ \E t \in Threads : current[t] = e /\ pc[t] \in {"stamp", "store", "schedule"}

(* The 2^31-1 ids are not used up while one of them is live, for about     *)
(* three seconds.                                                          *)
NoCatchUp == \A e \in 1 .. stored : Live(e) => stored + 1 - e < MaxId

StoreError(t) ==
  /\ pc[t] = "idle"
  /\ stored < MaxErrors
  /\ Goto(t, "next")
  /\ UNCHANGED <<errorSeq, storeVars, mutex, pinned, errorVars, takes, seen, current>>

LoadSeq(t) ==
  /\ pc[t] = "next"
  /\ seen' = [seen EXCEPT ![t] = errorSeq]
  /\ Goto(t, "cas")
  /\ UNCHANGED <<errorSeq, storeVars, mutex, pinned, errorVars, takes, current>>

Next1(id) == IF id >= MaxId THEN 1 ELSE id + 1

Given(t, id) ==
  /\ errorSeq' = id
  /\ stored' = stored + 1
  /\ idOf' = [e \in 1 .. stored + 1 |-> IF e = stored + 1 THEN id ELSE idOf[e]]
  /\ current' = [current EXCEPT ![t] = stored + 1]
  /\ Goto(t, "stamp")
  /\ UNCHANGED <<storeVars, mutex, pinned, issued, takes, seen>>

SwapBlindly(t) ==
  /\ pc[t] = "cas"
  /\ NoCatchUp /\ stored < MaxErrors
  /\ Given(t, Next1(seen[t]))
Swap(t) ==
  /\ pc[t] = "cas"
  /\ errorSeq = seen[t]
  /\ NoCatchUp /\ stored < MaxErrors
  /\ Given(t, Next1(seen[t]))

SwapFails(t) ==
  /\ pc[t] = "cas"
  /\ errorSeq # seen[t]
  /\ Goto(t, "next")
  /\ UNCHANGED <<errorSeq, storeVars, mutex, pinned, errorVars, takes, seen, current>>

(* expiresAt is computed before the record is stored. *)
Stamp(t) ==
  /\ pc[t] = "stamp"
  /\ left' = [left EXCEPT ![current[t]] = TTL]
  /\ Goto(t, "store")
  /\ UNCHANGED <<errorSeq, records, timers, due, mutex, pinned, errorVars, takes, seen, current>>

Store(t) ==
  /\ pc[t] = "store" /\ mutex = Free
  /\ records' = [id \in DOMAIN records \cup {idOf[current[t]]} |->
                   IF id = idOf[current[t]] THEN current[t] ELSE records[id]]
  /\ Goto(t, "schedule")
  /\ UNCHANGED <<errorSeq, left, timers, due, mutex, pinned, errorVars, takes, seen, current>>

(* time.AfterFunc; the id goes to the client. *)
ScheduleNothing(t) ==
  /\ pc[t] = "schedule"
  /\ issued' = issued \cup {current[t]}
  /\ Goto(t, "idle")
  /\ UNCHANGED <<errorSeq, storeVars, mutex, pinned, stored, idOf, takes, seen, current>>
Schedule(t) ==
  /\ pc[t] = "schedule"
  /\ timers' = timers \cup {current[t]}
  /\ due' = [due EXCEPT ![current[t]] = TTL]
  /\ issued' = issued \cup {current[t]}
  /\ Goto(t, "idle")
  /\ UNCHANGED <<errorSeq, records, left, mutex, pinned, stored, idOf, takes, seen, current>>

Fire(e) ==
  /\ e \in timers /\ due[e] = 0 /\ mutex = Free
  /\ timers' = timers \ {e}
  /\ records' = Without(idOf[e])
  /\ UNCHANGED <<errorSeq, left, due, mutex, pinned, errorVars, takes, threadVars>>

(* The clock, as far as records and timers look at it. *)
Tick ==
  /\ \E e \in Errors : left[e] > 0 \/ due[e] > 0
  /\ left' = [e \in Errors |-> IF left[e] > 0 THEN left[e] - 1 ELSE 0]
  /\ due' = [e \in Errors |-> IF due[e] > 0 THEN due[e] - 1 ELSE 0]
  /\ UNCHANGED <<errorSeq, records, timers, mutex, pinned, errorVars, takes, threadVars>>

-----------------------------------------------------------------------------
(***************************************************************************)
(* takeErrorTextForExport: look the record up and, with the mutex held,    *)
(* pin its text, convert its length, and only then delete the record.      *)
(***************************************************************************)
TakeMissing(t, id) ==
  /\ pc[t] = "idle" /\ mutex = Free
  /\ id \in DOMAIN records /\ left[records[id]] = 0
  /\ records' = Without(id)
  /\ UNCHANGED <<errorSeq, left, timers, due, mutex, pinned, errorVars, takes, threadVars>>

TakePrepared(t, id) ==
  /\ pc[t] = "idle" /\ mutex = Free
  /\ id \in DOMAIN records /\ left[records[id]] > 0
  /\ mutex' = t
  /\ current' = [current EXCEPT ![t] = records[id]]
  /\ Goto(t, "pin")
  /\ UNCHANGED <<errorSeq, storeVars, pinned, errorVars, takes, seen>>

PinText(t) ==
  /\ pc[t] = "pin"
  /\ pinned' = pinned \cup {current[t]}
  /\ Goto(t, "length")
  /\ UNCHANGED <<errorSeq, storeVars, mutex, errorVars, takes, seen, current>>

(* The text cannot be pinned, or its length is no int32: the record stays. *)
PrepareFailsKeepingPin(t) ==
  /\ pc[t] \in {"pin", "length"}
  /\ mutex' = Free
  /\ Goto(t, "idle")
  /\ UNCHANGED <<errorSeq, storeVars, pinned, errorVars, takes, seen, current>>
PrepareFails(t) ==
  /\ pc[t] \in {"pin", "length"}
  /\ pinned' = IF pc[t] = "length" THEN pinned \ {current[t]} ELSE pinned
  /\ mutex' = Free
  /\ Goto(t, "idle")
  /\ UNCHANGED <<errorSeq, storeVars, errorVars, takes, seen, current>>

TakeRecord(t) ==
  /\ pc[t] = "length"
  /\ records' = Without(idOf[current[t]])
  /\ takes' = [takes EXCEPT ![current[t]] = @ + 1]
  /\ mutex' = Free
  /\ Goto(t, "idle")
  /\ UNCHANGED <<errorSeq, left, timers, due, pinned, errorVars, seen, current>>

(* The C client gives a text back. *)
Release(e) ==
  /\ e \in pinned /\ takes[e] > 0
  /\ pinned' = pinned \ {e}
  /\ UNCHANGED <<errorSeq, storeVars, mutex, errorVars, takes, threadVars>>

-----------------------------------------------------------------------------
ThreadStep(t) ==
  \/ LoadSeq(t) \/ Swap(t) \/ SwapFails(t)
  \/ Stamp(t) \/ Store(t) \/ Schedule(t)
  \/ PinText(t) \/ PrepareFails(t) \/ TakeRecord(t)

Next ==
  \/ \E t \in Threads : StoreError(t) \/ ThreadStep(t)
  \/ \E t \in Threads, id \in Ids : TakeMissing(t, id) \/ TakePrepared(t, id)
  \/ \E e \in 1 .. stored : Fire(e) \/ Release(e)
  \/ Tick

Spec == Init /\ [][Next]_vars

(* Threads that are in a call go on, timers fire and time passes; nobody   *)
(* has to begin a call.                                                    *)
FairSpec ==
  /\ Spec
  /\ \A t \in Threads : WF_vars(ThreadStep(t))
  /\ \A e \in Errors : WF_vars(Fire(e))
  /\ WF_vars(Tick)

-----------------------------------------------------------------------------
(* No two errors that are live at the same time have the same id, whatever *)
(* goroutines race for the sequence and also after it has wrapped: a       *)
(* client never takes the text of somebody else's error.                   *)
LiveIdsDiffer ==
  \A e, f \in 1 .. stored : Live(e) /\ Live(f) /\ idOf[e] = idOf[f] => e = f

(* From StoreError's return until it expires, the record of an error whose *)
(* text nobody took is there: no older error's timer deletes it, and no    *)
(* failed attempt to take its text consumes it.                            *)
KeptUntilExpiry ==
  \A e \in issued :
    left[e] > 0 /\ takes[e] = 0 =>
      idOf[e] \in DOMAIN records /\ records[idOf[e]] = e

(* What the ids promise, ErrorTexts, is implemented: an id leads to the    *)
(* text of its own error, which is taken once, whoever races for it, and   *)
(* which nothing but its expiry removes before.  The client holds the      *)
(* texts whose take succeeded: of a take that failed no pin stays behind,  *)
(* which is why every pin counts here but that of a take under way.        *)
Opened ==
  {e \in 1 .. stored : e \in issued \/ \E t \in Threads : pc[t] = "schedule" /\ current[t] = e}
Expired == {e \in Opened : left[e] = 0}
BeingTaken == {current[t] : t \in {u \in Threads : pc[u] = "length"}}
Held == pinned \ BeingTaken
Texts == INSTANCE ErrorTexts WITH
  texts <- records, opened <- Opened, expired <- Expired, held <- Held
TextsSpec == Texts!Spec

(* A record does not stay for ever, even if nobody asks for its text.      *)
Reclaimed ==
  \A e \in Errors :
    (\E id \in DOMAIN records : records[id] = e) ~> (\A id \in DOMAIN records : records[id] # e)

=============================================================================
