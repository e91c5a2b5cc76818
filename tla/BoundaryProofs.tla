----------------------------- MODULE BoundaryProofs -----------------------------
(***************************************************************************)
(* What one side of the language boundary lends the other stays alive      *)
(* while it is used.                                                       *)
(*                                                                         *)
(* Go memory that C reads (PinnedOutputs): for any number of calls,        *)
(* addresses and fields.  Releases go by address, so the invariant says    *)
(* that the entry a call finds at the address of a field it owns is always *)
(* its own.                                                                *)
(*                                                                         *)
(* Kotlin listeners that Go calls (JNICallback): for any number of         *)
(* streams, one after the other in one slot.  The invariant says that one  *)
(* receive loop runs at a time and that slot and registry lead to it.      *)
(***************************************************************************)
EXTENDS PinnedOutputs, JNICallback, TLAPS

Staging == {"stage", "store", "conflict", "staged", "held"}

(* An owned field's address leads to its own entry, which is pinned. *)
OwnsItsEntry ==
  \A c \in Calls : \A i \in Fields :
    i \in owned[c] =>
      /\ message[c][i] # Zero
      /\ pinnedMap[message[c][i]] = <<c, i>>
      /\ <<c, i>> \in pinners

(* Every entry in the table is owned by the call that made it. *)
EntryIsOwned ==
  \A a \in Addresses : \A c \in Calls : \A i \in Fields :
    pinnedMap[a] = <<c, i>> => i \in owned[c] /\ message[c][i] = a

(* Where a Pinner that belongs to no owned field may come from. *)
PinnerIsOwned ==
  \A c \in Calls : \A i \in Fields :
    <<c, i>> \in pinners =>
      \/ i \in owned[c]
      \/ pc[c] \in {"store", "conflict"} /\ at[c] = i
      \/ pc[c] = "unpin" /\ removed[c] = <<c, i>>

(* The fields before the current one are owned, and no other. *)
OwnsStaged ==
  \A c \in Calls :
    /\ pc[c] = "idle" => owned[c] = {}
    /\ pc[c] \in Staging => \A i \in Fields :
         i \in owned[c] <=> i < at[c] /\ message[c][i] # Zero

(* The field being pinned, and the entry being unpinned. *)
StepsInPlace ==
  \A c \in Calls :
    /\ pc[c] \in {"store", "conflict"} => at[c] \in Fields /\ message[c][at[c]] # Zero
    /\ pc[c] \in {"staged", "held"} => at[c] = NFields + 1
    /\ pc[c] = "unpin" => \E i \in Fields \ owned[c] : removed[c] = <<c, i>>

(* Between registerPinned's two steps the new Pinner holds the buffer. *)
PinComesFirst ==
  \A c \in Calls : pc[c] \in {"store", "conflict"} => <<c, at[c]>> \in pinners

IInv ==
  /\ TypeOK
  /\ OwnsItsEntry
  /\ EntryIsOwned
  /\ PinnerIsOwned
  /\ OwnsStaged
  /\ StepsInPlace
  /\ PinComesFirst

-----------------------------------------------------------------------------
(* Every variable keeps its type. *)
LEMMA TypeStep ==
  ASSUME IInv, [Next]_vars
  PROVE  TypeOK'
<1> USE PinAssumption DEF IInv, Kinds, Messages, EmptyMessage, Zero, Entries, NoEntry, Fields
<1>1. CASE UNCHANGED vars
  BY <1>1 DEF vars, callVars, TypeOK
<1>2. ASSUME NEW c \in Calls,
             Begin(c) \/ StageValue(c) \/ Pin(c) \/ LoadOrStore(c) \/ AlreadyPinned(c)
             \/ UndoConflict(c) \/ LengthFails(c) \/ Staged(c) \/ Hand(c) \/ Refused(c)
             \/ HandBack(c) \/ LoadAndDelete(c) \/ Unpin(c) \/ Done(c)
      PROVE  TypeOK'
  <2>1. CASE Begin(c)
    BY <2>1 DEF Begin, Goto, TypeOK
  <2>2. CASE StageValue(c)
    BY <2>2 DEF StageValue, Goto, TypeOK
  <2>3. CASE Pin(c)
    BY <2>3 DEF Pin, Goto, TypeOK
  <2>4. CASE LoadOrStore(c)
    <3> DEFINE a == message[c][at[c]]
    <3>1. at[c] \in Fields /\ a \in Addresses /\ a # Zero
      BY <2>4 DEF LoadOrStore, TypeOK, StepsInPlace, Messages
    <3>2. /\ pc[c] = "store" /\ pinnedMap[a] = NoEntry
          /\ pc' = [pc EXCEPT ![c] = "stage"]
          /\ pinnedMap' = [pinnedMap EXCEPT ![a] = <<c, at[c]>>]
          /\ owned' = [owned EXCEPT ![c] = owned[c] \cup {at[c]}]
          /\ at' = [at EXCEPT ![c] = at[c] + 1]
          /\ UNCHANGED <<kind, message, removed, pinners>>
      BY <2>4 DEF LoadOrStore, Goto, TypeOK
    <3> QED BY <3>1, <3>2 DEF TypeOK
  <2>5. CASE AlreadyPinned(c)
    BY <2>5 DEF AlreadyPinned, Goto, TypeOK
  <2>6. CASE UndoConflict(c)
    BY <2>6 DEF UndoConflict, Goto, TypeOK
  <2>7. CASE LengthFails(c)
    BY <2>7 DEF LengthFails, Goto, TypeOK
  <2>8. CASE Staged(c)
    BY <2>8 DEF Staged, Goto, TypeOK
  <2>9. CASE Hand(c)
    BY <2>9 DEF Hand, Goto, TypeOK
  <2>10. CASE Refused(c)
    BY <2>10 DEF Refused, Goto, TypeOK
  <2>11. CASE HandBack(c)
    BY <2>11 DEF HandBack, Goto, TypeOK
  <2>12. CASE LoadAndDelete(c)
    <3>1. PICK i \in owned[c] :
            /\ pc[c] = "release" /\ pc' = [pc EXCEPT ![c] = "unpin"]
            /\ owned' = [owned EXCEPT ![c] = owned[c] \ {i}]
            /\ removed' = [removed EXCEPT ![c] = pinnedMap[message[c][i]]]
            /\ pinnedMap' = [pinnedMap EXCEPT ![message[c][i]] = NoEntry]
            /\ UNCHANGED <<kind, message, at, pinners>>
      BY <2>12 DEF LoadAndDelete, Goto, TypeOK
    <3>2. i \in Fields
      BY <3>1 DEF TypeOK
    <3>3. message[c][i] # Zero /\ pinnedMap[message[c][i]] = <<c, i>> /\ <<c, i>> \in pinners
      BY <3>1, <3>2 DEF OwnsItsEntry
    <3>4. message[c][i] \in Addresses
      BY <3>2, <3>3 DEF TypeOK, Messages
    <3> QED BY <3>1, <3>2, <3>3, <3>4 DEF TypeOK
  <2>13. CASE Unpin(c)
    BY <2>13 DEF Unpin, Goto, TypeOK
  <2>14. CASE Done(c)
    BY <2>14 DEF Done, Goto, TypeOK
  <2> QED BY <1>2, <2>1, <2>2, <2>3, <2>4, <2>5, <2>6, <2>7, <2>8, <2>9, <2>10, <2>11, <2>12,
      <2>13, <2>14
<1> QED BY <1>1, <1>2 DEF Next

(* No step takes an owned field's entry away. *)
LEMMA OwnsItsEntryStep ==
  ASSUME IInv, [Next]_vars
  PROVE  OwnsItsEntry'
<1> USE PinAssumption DEF IInv, Kinds, Messages, EmptyMessage, Zero, Entries, NoEntry, Fields
<1>1. CASE UNCHANGED vars
  BY <1>1 DEF vars, callVars, OwnsItsEntry, TypeOK, EntryIsOwned, OwnsStaged, StepsInPlace,
     Staging
<1>2. ASSUME NEW c \in Calls,
             Begin(c) \/ StageValue(c) \/ Pin(c) \/ LoadOrStore(c) \/ AlreadyPinned(c)
             \/ UndoConflict(c) \/ LengthFails(c) \/ Staged(c) \/ Hand(c) \/ Refused(c)
             \/ HandBack(c) \/ LoadAndDelete(c) \/ Unpin(c) \/ Done(c)
      PROVE  OwnsItsEntry'
  <2>1. CASE Begin(c)
    BY <2>1 DEF Begin, Goto, OwnsItsEntry, TypeOK, EntryIsOwned, OwnsStaged, StepsInPlace,
       Staging
  <2>2. CASE StageValue(c)
    BY <2>2 DEF StageValue, Goto, OwnsItsEntry, TypeOK, EntryIsOwned, OwnsStaged, StepsInPlace,
       Staging
  <2>3. CASE Pin(c)
    BY <2>3 DEF Pin, Goto, OwnsItsEntry, TypeOK, EntryIsOwned, OwnsStaged, StepsInPlace, Staging
  <2>4. CASE LoadOrStore(c)
    <3> DEFINE a == message[c][at[c]]
    <3>1. at[c] \in Fields /\ a \in Addresses /\ a # Zero
      BY <2>4 DEF LoadOrStore, TypeOK, StepsInPlace, Messages
    <3>2. /\ pc[c] = "store" /\ pinnedMap[a] = NoEntry
          /\ pc' = [pc EXCEPT ![c] = "stage"]
          /\ pinnedMap' = [pinnedMap EXCEPT ![a] = <<c, at[c]>>]
          /\ owned' = [owned EXCEPT ![c] = owned[c] \cup {at[c]}]
          /\ at' = [at EXCEPT ![c] = at[c] + 1]
          /\ UNCHANGED <<kind, message, removed, pinners>>
      BY <2>4 DEF LoadOrStore, Goto, TypeOK
    <3> USE DEF NoEntry
    <3>3. SUFFICES ASSUME NEW d \in Calls, NEW j \in Fields, j \in owned'[d]
                   PROVE  /\ message'[d][j] # Zero
                          /\ pinnedMap'[message'[d][j]] = <<d, j>>
                          /\ <<d, j>> \in pinners'
      BY DEF OwnsItsEntry
    <3>4. <<c, at[c]>> \in pinners
      BY <3>2 DEF PinComesFirst
    <3>5. CASE j \in owned[d]
      <4>1. /\ message[d][j] # Zero
            /\ pinnedMap[message[d][j]] = <<d, j>>
            /\ <<d, j>> \in pinners
        BY <3>5 DEF OwnsItsEntry
      <4>2. message[d][j] \in Addresses
        BY <4>1 DEF TypeOK, Messages
      <4>3. message[d][j] # a
        BY <4>1, <3>2 DEF Fields
      <4> QED BY <4>1, <4>2, <4>3, <3>1, <3>2 DEF TypeOK
    <3>6. CASE j \notin owned[d]
      <4>1. d = c /\ j = at[c]
        BY <3>2, <3>3, <3>6 DEF TypeOK
      <4> QED BY <4>1, <3>1, <3>2, <3>4 DEF TypeOK
    <3> QED BY <3>5, <3>6
  <2>5. CASE AlreadyPinned(c)
    BY <2>5 DEF AlreadyPinned, Goto, OwnsItsEntry, TypeOK, EntryIsOwned, OwnsStaged,
       StepsInPlace, Staging
  <2>6. CASE UndoConflict(c)
    BY <2>6 DEF UndoConflict, Goto, OwnsItsEntry, TypeOK, EntryIsOwned, OwnsStaged,
       StepsInPlace, Staging
  <2>7. CASE LengthFails(c)
    BY <2>7 DEF LengthFails, Goto, OwnsItsEntry, TypeOK, EntryIsOwned, OwnsStaged,
       StepsInPlace, Staging
  <2>8. CASE Staged(c)
    BY <2>8 DEF Staged, Goto, OwnsItsEntry, TypeOK, EntryIsOwned, OwnsStaged, StepsInPlace,
       Staging
  <2>9. CASE Hand(c)
    BY <2>9 DEF Hand, Goto, OwnsItsEntry, TypeOK, EntryIsOwned, OwnsStaged, StepsInPlace,
       Staging
  <2>10. CASE Refused(c)
    BY <2>10 DEF Refused, Goto, OwnsItsEntry, TypeOK, EntryIsOwned, OwnsStaged, StepsInPlace,
       Staging
  <2>11. CASE HandBack(c)
    BY <2>11 DEF HandBack, Goto, OwnsItsEntry, TypeOK, EntryIsOwned, OwnsStaged, StepsInPlace,
       Staging
  <2>12. CASE LoadAndDelete(c)
    <3>1. PICK i \in owned[c] :
            /\ pc[c] = "release" /\ pc' = [pc EXCEPT ![c] = "unpin"]
            /\ owned' = [owned EXCEPT ![c] = owned[c] \ {i}]
            /\ removed' = [removed EXCEPT ![c] = pinnedMap[message[c][i]]]
            /\ pinnedMap' = [pinnedMap EXCEPT ![message[c][i]] = NoEntry]
            /\ UNCHANGED <<kind, message, at, pinners>>
      BY <2>12 DEF LoadAndDelete, Goto, TypeOK
    <3>2. i \in Fields
      BY <3>1 DEF TypeOK
    <3>3. message[c][i] # Zero /\ pinnedMap[message[c][i]] = <<c, i>> /\ <<c, i>> \in pinners
      BY <3>1, <3>2 DEF OwnsItsEntry
    <3>4. message[c][i] \in Addresses
      BY <3>2, <3>3 DEF TypeOK, Messages
    <3> QED BY <3>1, <3>2, <3>3, <3>4 DEF OwnsItsEntry, TypeOK, EntryIsOwned, OwnsStaged,
        StepsInPlace, Staging
  <2>13. CASE Unpin(c)
    BY <2>13 DEF Unpin, Goto, OwnsItsEntry, TypeOK, EntryIsOwned, OwnsStaged, StepsInPlace,
       Staging
  <2>14. CASE Done(c)
    BY <2>14 DEF Done, Goto, OwnsItsEntry, TypeOK, EntryIsOwned, OwnsStaged, StepsInPlace,
       Staging
  <2> QED BY <1>2, <2>1, <2>2, <2>3, <2>4, <2>5, <2>6, <2>7, <2>8, <2>9, <2>10, <2>11, <2>12,
      <2>13, <2>14
<1> QED BY <1>1, <1>2 DEF Next

(* No step leaves an entry without an owner. *)
LEMMA EntryIsOwnedStep ==
  ASSUME IInv, [Next]_vars
  PROVE  EntryIsOwned'
<1> USE PinAssumption DEF IInv, Kinds, Messages, EmptyMessage, Zero, Entries, NoEntry, Fields
<1>1. CASE UNCHANGED vars
  BY <1>1 DEF vars, callVars, EntryIsOwned, OwnsItsEntry, TypeOK, OwnsStaged, StepsInPlace,
     Staging
<1>2. ASSUME NEW c \in Calls,
             Begin(c) \/ StageValue(c) \/ Pin(c) \/ LoadOrStore(c) \/ AlreadyPinned(c)
             \/ UndoConflict(c) \/ LengthFails(c) \/ Staged(c) \/ Hand(c) \/ Refused(c)
             \/ HandBack(c) \/ LoadAndDelete(c) \/ Unpin(c) \/ Done(c)
      PROVE  EntryIsOwned'
  <2>1. CASE Begin(c)
    BY <2>1 DEF Begin, Goto, EntryIsOwned, OwnsItsEntry, TypeOK, OwnsStaged, StepsInPlace,
       Staging
  <2>2. CASE StageValue(c)
    BY <2>2 DEF StageValue, Goto, EntryIsOwned, OwnsItsEntry, TypeOK, OwnsStaged, StepsInPlace,
       Staging
  <2>3. CASE Pin(c)
    BY <2>3 DEF Pin, Goto, EntryIsOwned, OwnsItsEntry, TypeOK, OwnsStaged, StepsInPlace, Staging
  <2>4. CASE LoadOrStore(c)
    <3> DEFINE a == message[c][at[c]]
    <3>1. at[c] \in Fields /\ a \in Addresses /\ a # Zero
      BY <2>4 DEF LoadOrStore, TypeOK, StepsInPlace, Messages
    <3>2. /\ pc[c] = "store" /\ pinnedMap[a] = NoEntry
          /\ pc' = [pc EXCEPT ![c] = "stage"]
          /\ pinnedMap' = [pinnedMap EXCEPT ![a] = <<c, at[c]>>]
          /\ owned' = [owned EXCEPT ![c] = owned[c] \cup {at[c]}]
          /\ at' = [at EXCEPT ![c] = at[c] + 1]
          /\ UNCHANGED <<kind, message, removed, pinners>>
      BY <2>4 DEF LoadOrStore, Goto, TypeOK
    <3>3. SUFFICES ASSUME NEW b \in Addresses, NEW d \in Calls, NEW j \in Fields,
                          pinnedMap'[b] = <<d, j>>
                   PROVE  j \in owned'[d] /\ message'[d][j] = b
      BY DEF EntryIsOwned
    <3>4. CASE b = a
      <4>1. d = c /\ j = at[c]
        BY <3>1, <3>2, <3>3, <3>4 DEF TypeOK
      <4> QED BY <4>1, <3>1, <3>2, <3>4 DEF TypeOK
    <3>5. CASE b # a
      <4>1. pinnedMap[b] = <<d, j>>
        BY <3>1, <3>2, <3>3, <3>5 DEF TypeOK
      <4>2. j \in owned[d] /\ message[d][j] = b
        BY <4>1 DEF EntryIsOwned
      <4> QED BY <4>2, <3>1, <3>2 DEF TypeOK
    <3> QED BY <3>4, <3>5
  <2>5. CASE AlreadyPinned(c)
    BY <2>5 DEF AlreadyPinned, Goto, EntryIsOwned, OwnsItsEntry, TypeOK, OwnsStaged,
       StepsInPlace, Staging
  <2>6. CASE UndoConflict(c)
    BY <2>6 DEF UndoConflict, Goto, EntryIsOwned, OwnsItsEntry, TypeOK, OwnsStaged,
       StepsInPlace, Staging
  <2>7. CASE LengthFails(c)
    BY <2>7 DEF LengthFails, Goto, EntryIsOwned, OwnsItsEntry, TypeOK, OwnsStaged,
       StepsInPlace, Staging
  <2>8. CASE Staged(c)
    BY <2>8 DEF Staged, Goto, EntryIsOwned, OwnsItsEntry, TypeOK, OwnsStaged, StepsInPlace,
       Staging
  <2>9. CASE Hand(c)
    BY <2>9 DEF Hand, Goto, EntryIsOwned, OwnsItsEntry, TypeOK, OwnsStaged, StepsInPlace,
       Staging
  <2>10. CASE Refused(c)
    BY <2>10 DEF Refused, Goto, EntryIsOwned, OwnsItsEntry, TypeOK, OwnsStaged, StepsInPlace,
       Staging
  <2>11. CASE HandBack(c)
    BY <2>11 DEF HandBack, Goto, EntryIsOwned, OwnsItsEntry, TypeOK, OwnsStaged, StepsInPlace,
       Staging
  <2>12. CASE LoadAndDelete(c)
    <3>1. PICK i \in owned[c] :
            /\ pc[c] = "release" /\ pc' = [pc EXCEPT ![c] = "unpin"]
            /\ owned' = [owned EXCEPT ![c] = owned[c] \ {i}]
            /\ removed' = [removed EXCEPT ![c] = pinnedMap[message[c][i]]]
            /\ pinnedMap' = [pinnedMap EXCEPT ![message[c][i]] = NoEntry]
            /\ UNCHANGED <<kind, message, at, pinners>>
      BY <2>12 DEF LoadAndDelete, Goto, TypeOK
    <3>2. i \in Fields
      BY <3>1 DEF TypeOK
    <3>3. message[c][i] # Zero /\ pinnedMap[message[c][i]] = <<c, i>> /\ <<c, i>> \in pinners
      BY <3>1, <3>2 DEF OwnsItsEntry
    <3>4. message[c][i] \in Addresses
      BY <3>2, <3>3 DEF TypeOK, Messages
    <3>5. SUFFICES ASSUME NEW b \in Addresses, NEW d \in Calls, NEW j \in Fields,
                          pinnedMap'[b] = <<d, j>>
                   PROVE  j \in owned'[d] /\ message'[d][j] = b
      BY DEF EntryIsOwned
    <3>6. pinnedMap' \in [Addresses -> Entries \cup {NoEntry}]
      BY <3>1, <3>4 DEF TypeOK
    <3>7. j # 0
      BY DEF Fields
    <3>8. b # message[c][i]
      BY <3>1, <3>4, <3>5, <3>7 DEF TypeOK, NoEntry
    <3>9. pinnedMap[b] = <<d, j>>
      BY <3>1, <3>4, <3>5, <3>8 DEF TypeOK
    <3>10. j \in owned[d] /\ message[d][j] = b
      BY <3>9 DEF EntryIsOwned
    <3>11. <<d, j>> # <<c, i>>
      BY <3>8, <3>10
    <3> QED BY <3>1, <3>2, <3>10, <3>11 DEF TypeOK
  <2>13. CASE Unpin(c)
    BY <2>13 DEF Unpin, Goto, EntryIsOwned, OwnsItsEntry, TypeOK, OwnsStaged, StepsInPlace,
       Staging
  <2>14. CASE Done(c)
    BY <2>14 DEF Done, Goto, EntryIsOwned, OwnsItsEntry, TypeOK, OwnsStaged, StepsInPlace,
       Staging
  <2> QED BY <1>2, <2>1, <2>2, <2>3, <2>4, <2>5, <2>6, <2>7, <2>8, <2>9, <2>10, <2>11, <2>12,
      <2>13, <2>14
<1> QED BY <1>1, <1>2 DEF Next

(* No step forgets a Pinner. *)
LEMMA PinnerIsOwnedStep ==
  ASSUME IInv, [Next]_vars
  PROVE  PinnerIsOwned'
<1> USE PinAssumption DEF IInv, Kinds, Messages, EmptyMessage, Zero, Entries, NoEntry, Fields
<1>1. CASE UNCHANGED vars
  BY <1>1 DEF vars, callVars, PinnerIsOwned, OwnsItsEntry, TypeOK, OwnsStaged, StepsInPlace,
     Staging
<1>2. ASSUME NEW c \in Calls,
             Begin(c) \/ StageValue(c) \/ Pin(c) \/ LoadOrStore(c) \/ AlreadyPinned(c)
             \/ UndoConflict(c) \/ LengthFails(c) \/ Staged(c) \/ Hand(c) \/ Refused(c)
             \/ HandBack(c) \/ LoadAndDelete(c) \/ Unpin(c) \/ Done(c)
      PROVE  PinnerIsOwned'
  <2>1. CASE Begin(c)
    BY <2>1 DEF Begin, Goto, PinnerIsOwned, OwnsItsEntry, TypeOK, OwnsStaged, StepsInPlace,
       Staging
  <2>2. CASE StageValue(c)
    BY <2>2 DEF StageValue, Goto, PinnerIsOwned, OwnsItsEntry, TypeOK, OwnsStaged,
       StepsInPlace, Staging
  <2>3. CASE Pin(c)
    BY <2>3 DEF Pin, Goto, PinnerIsOwned, OwnsItsEntry, TypeOK, OwnsStaged, StepsInPlace,
       Staging
  <2>4. CASE LoadOrStore(c)
    BY <2>4 DEF LoadOrStore, Goto, PinnerIsOwned, OwnsItsEntry, TypeOK, OwnsStaged,
       StepsInPlace, Staging
  <2>5. CASE AlreadyPinned(c)
    BY <2>5 DEF AlreadyPinned, Goto, PinnerIsOwned, OwnsItsEntry, TypeOK, OwnsStaged,
       StepsInPlace, Staging
  <2>6. CASE UndoConflict(c)
    BY <2>6 DEF UndoConflict, Goto, PinnerIsOwned, OwnsItsEntry, TypeOK, OwnsStaged,
       StepsInPlace, Staging
  <2>7. CASE LengthFails(c)
    BY <2>7 DEF LengthFails, Goto, PinnerIsOwned, OwnsItsEntry, TypeOK, OwnsStaged,
       StepsInPlace, Staging
  <2>8. CASE Staged(c)
    BY <2>8 DEF Staged, Goto, PinnerIsOwned, OwnsItsEntry, TypeOK, OwnsStaged, StepsInPlace,
       Staging
  <2>9. CASE Hand(c)
    BY <2>9 DEF Hand, Goto, PinnerIsOwned, OwnsItsEntry, TypeOK, OwnsStaged, StepsInPlace,
       Staging
  <2>10. CASE Refused(c)
    BY <2>10 DEF Refused, Goto, PinnerIsOwned, OwnsItsEntry, TypeOK, OwnsStaged, StepsInPlace,
       Staging
  <2>11. CASE HandBack(c)
    BY <2>11 DEF HandBack, Goto, PinnerIsOwned, OwnsItsEntry, TypeOK, OwnsStaged, StepsInPlace,
       Staging
  <2>12. CASE LoadAndDelete(c)
    <3>1. PICK i \in owned[c] :
            /\ pc[c] = "release" /\ pc' = [pc EXCEPT ![c] = "unpin"]
            /\ owned' = [owned EXCEPT ![c] = owned[c] \ {i}]
            /\ removed' = [removed EXCEPT ![c] = pinnedMap[message[c][i]]]
            /\ pinnedMap' = [pinnedMap EXCEPT ![message[c][i]] = NoEntry]
            /\ UNCHANGED <<kind, message, at, pinners>>
      BY <2>12 DEF LoadAndDelete, Goto, TypeOK
    <3>2. i \in Fields
      BY <3>1 DEF TypeOK
    <3>3. message[c][i] # Zero /\ pinnedMap[message[c][i]] = <<c, i>> /\ <<c, i>> \in pinners
      BY <3>1, <3>2 DEF OwnsItsEntry
    <3>4. message[c][i] \in Addresses
      BY <3>2, <3>3 DEF TypeOK, Messages
    <3> QED BY <3>1, <3>2, <3>3, <3>4 DEF PinnerIsOwned, OwnsItsEntry, TypeOK, OwnsStaged,
        StepsInPlace, Staging
  <2>13. CASE Unpin(c)
    BY <2>13 DEF Unpin, Goto, PinnerIsOwned, OwnsItsEntry, TypeOK, OwnsStaged, StepsInPlace,
       Staging
  <2>14. CASE Done(c)
    BY <2>14 DEF Done, Goto, PinnerIsOwned, OwnsItsEntry, TypeOK, OwnsStaged, StepsInPlace,
       Staging
  <2> QED BY <1>2, <2>1, <2>2, <2>3, <2>4, <2>5, <2>6, <2>7, <2>8, <2>9, <2>10, <2>11, <2>12,
      <2>13, <2>14
<1> QED BY <1>1, <1>2 DEF Next

(* A call owns what it staged. *)
LEMMA OwnsStagedStep ==
  ASSUME IInv, [Next]_vars
  PROVE  OwnsStaged'
<1> USE PinAssumption DEF IInv, Kinds, Messages, EmptyMessage, Zero, Entries, NoEntry, Fields
<1>1. CASE UNCHANGED vars
  BY <1>1 DEF vars, callVars, OwnsStaged, TypeOK, StepsInPlace, Staging
<1>2. ASSUME NEW c \in Calls,
             Begin(c) \/ StageValue(c) \/ Pin(c) \/ LoadOrStore(c) \/ AlreadyPinned(c)
             \/ UndoConflict(c) \/ LengthFails(c) \/ Staged(c) \/ Hand(c) \/ Refused(c)
             \/ HandBack(c) \/ LoadAndDelete(c) \/ Unpin(c) \/ Done(c)
      PROVE  OwnsStaged'
  <2>1. CASE Begin(c)
    BY <2>1 DEF Begin, Goto, OwnsStaged, TypeOK, StepsInPlace, Staging
  <2>2. CASE StageValue(c)
    BY <2>2 DEF StageValue, Goto, OwnsStaged, TypeOK, StepsInPlace, Staging
  <2>3. CASE Pin(c)
    BY <2>3 DEF Pin, Goto, OwnsStaged, TypeOK, StepsInPlace, Staging
  <2>4. CASE LoadOrStore(c)
    BY <2>4 DEF LoadOrStore, Goto, OwnsStaged, TypeOK, StepsInPlace, Staging
  <2>5. CASE AlreadyPinned(c)
    BY <2>5 DEF AlreadyPinned, Goto, OwnsStaged, TypeOK, StepsInPlace, Staging
  <2>6. CASE UndoConflict(c)
    BY <2>6 DEF UndoConflict, Goto, OwnsStaged, TypeOK, StepsInPlace, Staging
  <2>7. CASE LengthFails(c)
    BY <2>7 DEF LengthFails, Goto, OwnsStaged, TypeOK, StepsInPlace, Staging
  <2>8. CASE Staged(c)
    BY <2>8 DEF Staged, Goto, OwnsStaged, TypeOK, StepsInPlace, Staging
  <2>9. CASE Hand(c)
    BY <2>9 DEF Hand, Goto, OwnsStaged, TypeOK, StepsInPlace, Staging
  <2>10. CASE Refused(c)
    BY <2>10 DEF Refused, Goto, OwnsStaged, TypeOK, StepsInPlace, Staging
  <2>11. CASE HandBack(c)
    BY <2>11 DEF HandBack, Goto, OwnsStaged, TypeOK, StepsInPlace, Staging
  <2>12. CASE LoadAndDelete(c)
    BY <2>12 DEF LoadAndDelete, Goto, OwnsStaged, TypeOK, StepsInPlace, Staging
  <2>13. CASE Unpin(c)
    BY <2>13 DEF Unpin, Goto, OwnsStaged, TypeOK, StepsInPlace, Staging
  <2>14. CASE Done(c)
    BY <2>14 DEF Done, Goto, OwnsStaged, TypeOK, StepsInPlace, Staging
  <2> QED BY <1>2, <2>1, <2>2, <2>3, <2>4, <2>5, <2>6, <2>7, <2>8, <2>9, <2>10, <2>11, <2>12,
      <2>13, <2>14
<1> QED BY <1>1, <1>2 DEF Next

(* A call pins and unpins the field it means to. *)
LEMMA StepsInPlaceStep ==
  ASSUME IInv, [Next]_vars
  PROVE  StepsInPlace'
<1> USE PinAssumption DEF IInv, Kinds, Messages, EmptyMessage, Zero, Entries, NoEntry, Fields
<1>1. CASE UNCHANGED vars
  BY <1>1 DEF vars, callVars, StepsInPlace, OwnsItsEntry, TypeOK, OwnsStaged, Staging
<1>2. ASSUME NEW c \in Calls,
             Begin(c) \/ StageValue(c) \/ Pin(c) \/ LoadOrStore(c) \/ AlreadyPinned(c)
             \/ UndoConflict(c) \/ LengthFails(c) \/ Staged(c) \/ Hand(c) \/ Refused(c)
             \/ HandBack(c) \/ LoadAndDelete(c) \/ Unpin(c) \/ Done(c)
      PROVE  StepsInPlace'
  <2>1. CASE Begin(c)
    BY <2>1 DEF Begin, Goto, StepsInPlace, OwnsItsEntry, TypeOK, OwnsStaged, Staging
  <2>2. CASE StageValue(c)
    BY <2>2 DEF StageValue, Goto, StepsInPlace, OwnsItsEntry, TypeOK, OwnsStaged, Staging
  <2>3. CASE Pin(c)
    BY <2>3 DEF Pin, Goto, StepsInPlace, OwnsItsEntry, TypeOK, OwnsStaged, Staging
  <2>4. CASE LoadOrStore(c)
    BY <2>4 DEF LoadOrStore, Goto, StepsInPlace, OwnsItsEntry, TypeOK, OwnsStaged, Staging
  <2>5. CASE AlreadyPinned(c)
    BY <2>5 DEF AlreadyPinned, Goto, StepsInPlace, OwnsItsEntry, TypeOK, OwnsStaged, Staging
  <2>6. CASE UndoConflict(c)
    BY <2>6 DEF UndoConflict, Goto, StepsInPlace, OwnsItsEntry, TypeOK, OwnsStaged, Staging
  <2>7. CASE LengthFails(c)
    BY <2>7 DEF LengthFails, Goto, StepsInPlace, OwnsItsEntry, TypeOK, OwnsStaged, Staging
  <2>8. CASE Staged(c)
    BY <2>8 DEF Staged, Goto, StepsInPlace, OwnsItsEntry, TypeOK, OwnsStaged, Staging
  <2>9. CASE Hand(c)
    BY <2>9 DEF Hand, Goto, StepsInPlace, OwnsItsEntry, TypeOK, OwnsStaged, Staging
  <2>10. CASE Refused(c)
    BY <2>10 DEF Refused, Goto, StepsInPlace, OwnsItsEntry, TypeOK, OwnsStaged, Staging
  <2>11. CASE HandBack(c)
    BY <2>11 DEF HandBack, Goto, StepsInPlace, OwnsItsEntry, TypeOK, OwnsStaged, Staging
  <2>12. CASE LoadAndDelete(c)
    <3>1. PICK i \in owned[c] :
            /\ pc[c] = "release" /\ pc' = [pc EXCEPT ![c] = "unpin"]
            /\ owned' = [owned EXCEPT ![c] = owned[c] \ {i}]
            /\ removed' = [removed EXCEPT ![c] = pinnedMap[message[c][i]]]
            /\ pinnedMap' = [pinnedMap EXCEPT ![message[c][i]] = NoEntry]
            /\ UNCHANGED <<kind, message, at, pinners>>
      BY <2>12 DEF LoadAndDelete, Goto, TypeOK
    <3>2. i \in Fields
      BY <3>1 DEF TypeOK
    <3>3. message[c][i] # Zero /\ pinnedMap[message[c][i]] = <<c, i>> /\ <<c, i>> \in pinners
      BY <3>1, <3>2 DEF OwnsItsEntry
    <3>4. message[c][i] \in Addresses
      BY <3>2, <3>3 DEF TypeOK, Messages
    <3> QED BY <3>1, <3>2, <3>3, <3>4 DEF StepsInPlace, OwnsItsEntry, TypeOK, OwnsStaged,
        Staging
  <2>13. CASE Unpin(c)
    BY <2>13 DEF Unpin, Goto, StepsInPlace, OwnsItsEntry, TypeOK, OwnsStaged, Staging
  <2>14. CASE Done(c)
    BY <2>14 DEF Done, Goto, StepsInPlace, OwnsItsEntry, TypeOK, OwnsStaged, Staging
  <2> QED BY <1>2, <2>1, <2>2, <2>3, <2>4, <2>5, <2>6, <2>7, <2>8, <2>9, <2>10, <2>11, <2>12,
      <2>13, <2>14
<1> QED BY <1>1, <1>2 DEF Next

(* Nobody else unpins the buffer a call is about to enter in the table. *)
LEMMA PinComesFirstStep ==
  ASSUME IInv, [Next]_vars
  PROVE  PinComesFirst'
<1> USE PinAssumption DEF IInv
<1>1. CASE UNCHANGED vars
  BY <1>1 DEF vars, callVars, PinComesFirst
<1>2. ASSUME NEW c \in Calls,
             Begin(c) \/ StageValue(c) \/ Pin(c) \/ LoadOrStore(c) \/ AlreadyPinned(c)
             \/ UndoConflict(c) \/ LengthFails(c) \/ Staged(c) \/ Hand(c) \/ Refused(c)
             \/ HandBack(c) \/ LoadAndDelete(c) \/ Unpin(c) \/ Done(c)
      PROVE  PinComesFirst'
  <2>1. CASE Begin(c)
    BY <2>1 DEF Begin, Goto, PinComesFirst, TypeOK
  <2>2. CASE StageValue(c)
    BY <2>2 DEF StageValue, Goto, PinComesFirst, TypeOK
  <2>3. CASE Pin(c)
    BY <2>3 DEF Pin, Goto, PinComesFirst, TypeOK
  <2>4. CASE LoadOrStore(c)
    BY <2>4 DEF LoadOrStore, Goto, PinComesFirst, TypeOK
  <2>5. CASE AlreadyPinned(c)
    BY <2>5 DEF AlreadyPinned, Goto, PinComesFirst, TypeOK
  <2>6. CASE UndoConflict(c)
    <3>1. pc[c] = "conflict" /\ pc' = [pc EXCEPT ![c] = "release"] /\ at' = at
      BY <2>6 DEF UndoConflict, Goto
    <3>2. pinners' = pinners \ {<<c, at[c]>>}
      BY <2>6 DEF UndoConflict
    <3> QED BY <3>1, <3>2 DEF PinComesFirst, TypeOK
  <2>7. CASE LengthFails(c)
    BY <2>7 DEF LengthFails, Goto, PinComesFirst, TypeOK
  <2>8. CASE Staged(c)
    BY <2>8 DEF Staged, Goto, PinComesFirst, TypeOK
  <2>9. CASE Hand(c)
    BY <2>9 DEF Hand, Goto, PinComesFirst, TypeOK
  <2>10. CASE Refused(c)
    BY <2>10 DEF Refused, Goto, PinComesFirst, TypeOK
  <2>11. CASE HandBack(c)
    BY <2>11 DEF HandBack, Goto, PinComesFirst, TypeOK
  <2>12. CASE LoadAndDelete(c)
    BY <2>12 DEF LoadAndDelete, Goto, PinComesFirst, TypeOK
  <2>13. CASE Unpin(c)
    <3>1. PICK i \in Fields : removed[c] = <<c, i>> /\ pinners' = pinners \ {<<c, i>>}
      BY <2>13 DEF Unpin, Goto, StepsInPlace
    <3>2. /\ pc[c] = "unpin" /\ pc' = [pc EXCEPT ![c] = "release"]
          /\ UNCHANGED at
      BY <2>13 DEF Unpin, Goto
    <3> QED BY <3>1, <3>2 DEF PinComesFirst, TypeOK
  <2>14. CASE Done(c)
    BY <2>14 DEF Done, Goto, PinComesFirst, TypeOK
  <2> QED BY <1>2, <2>1, <2>2, <2>3, <2>4, <2>5, <2>6, <2>7, <2>8, <2>9, <2>10, <2>11, <2>12,
      <2>13, <2>14
<1> QED BY <1>1, <1>2 DEF Next

-----------------------------------------------------------------------------
(* The three facts the theorems combine. *)
LEMMA InitIInv == Init => IInv
<1> SUFFICES ASSUME Init PROVE IInv
  OBVIOUS
<1> USE PinAssumption DEF Init
<1>1. TypeOK
  BY DEF TypeOK, Kinds, Messages, EmptyMessage, Zero, Entries, NoEntry, Fields
<1>2. OwnsItsEntry /\ PinnerIsOwned /\ OwnsStaged /\ StepsInPlace /\ PinComesFirst
  BY DEF OwnsItsEntry, PinnerIsOwned, OwnsStaged, StepsInPlace, PinComesFirst, Staging
<1>3. EntryIsOwned
  BY DEF EntryIsOwned, NoEntry, Fields
<1> QED BY <1>1, <1>2, <1>3 DEF IInv

LEMMA NextIInv == IInv /\ [Next]_vars => IInv'
<1> SUFFICES ASSUME IInv, [Next]_vars PROVE IInv'
  OBVIOUS
<1> QED BY TypeStep, OwnsItsEntryStep, EntryIsOwnedStep, PinnerIsOwnedStep, OwnsStagedStep,
    StepsInPlaceStep, PinComesFirstStep DEF IInv

LEMMA AlwaysIInv == Spec => []IInv
BY InitIInv, NextIInv, PTL DEF Spec

-----------------------------------------------------------------------------
(* Memory that C holds is pinned under its own entry: a response, a        *)
(* callback's argument or a request stays where it is while C looks at it, *)
(* for any number of calls that hand out the same addresses.               *)
THEOREM HeldIsPinnedHolds == Spec => []HeldIsPinned
<1>1. IInv => HeldIsPinned
  <2> SUFFICES ASSUME IInv, NEW c \in Calls, pc[c] = "held",
                      NEW i \in Fields, message[c][i] # Zero
               PROVE  pinnedMap[message[c][i]] = <<c, i>> /\ <<c, i>> \in pinners
    BY DEF HeldIsPinned
  <2>1. at[c] = NFields + 1
    BY DEF IInv, StepsInPlace
  <2>2. i < at[c]
    BY <2>1, PinAssumption DEF Fields
  <2>3. i \in owned[c]
    BY <2>2 DEF IInv, OwnsStaged, Staging
  <2> QED BY <2>3 DEF IInv, OwnsItsEntry
<1> QED BY <1>1, AlwaysIInv, PTL

(* However a call ended, by a conflict, a length, a refusal or a release,  *)
(* none of its Pinners is left and no entry of the table is its own.       *)
THEOREM NothingLeftPinnedHolds == Spec => []NothingLeftPinned
<1>1. IInv => NothingLeftPinned
  <2> SUFFICES ASSUME IInv, NEW c \in Calls, pc[c] = "idle"
               PROVE  /\ \A e \in pinners : e[1] # c
                      /\ \A a \in Addresses : pinnedMap[a] # NoEntry => pinnedMap[a][1] # c
    BY DEF NothingLeftPinned
  <2>1. owned[c] = {}
    BY DEF IInv, OwnsStaged
  <2>2. ASSUME NEW e \in pinners, e[1] = c PROVE FALSE
    <3>1. PICK j \in Fields : e = <<c, j>>
      BY <2>2 DEF IInv, TypeOK, Entries
    <3> QED BY <2>1, <2>2, <3>1 DEF IInv, PinnerIsOwned
  <2>3. ASSUME NEW a \in Addresses, pinnedMap[a] # NoEntry, pinnedMap[a][1] = c PROVE FALSE
    <3>1. PICK j \in Fields : pinnedMap[a] = <<c, j>>
      BY <2>3 DEF IInv, TypeOK, Entries
    <3> QED BY <2>1, <3>1 DEF IInv, EntryIsOwned
  <2> QED BY <2>2, <2>3
<1> QED BY <1>1, AlwaysIInv, PTL

-----------------------------------------------------------------------------
(* The Kotlin client of a callback stream: what the proofs assume of the   *)
(* app.  Its starts and cancels, and the destruction of its owners, come   *)
(* one after the other; with a second thread CanceledIsOver is violated.   *)
OneApp == \A c, d \in Callers : c = d

Running(s) == receiver[s] \notin {"none", "exited", "lost"}
NoneRuns == \A s \in Streams : ~Running(s)

(* At most one receive loop is under way. *)
OneRuns == \A r, s \in Streams : Running(r) /\ Running(s) => r = s

(* The slot and the registry lead to the stream that runs. *)
RunningIsKnown ==
  \A s \in Streams : Running(s) =>
    /\ listener = s /\ s \in registered
    /\ handle = s \/ \E c \in Callers : caller[c] = "storeHandle" /\ subject[c] = s

(* A trampoline calls the listener of its own stream, and nothing outside  *)
(* its call.                                                               *)
CallingOwn ==
  \A s \in Streams :
    IF receiver[s] \in {"onRecv", "userRecv", "onDone", "userDone"}
      THEN calling[s] = s
      ELSE calling[s] = Null

(* A reference belongs to the slot, to a stream that runs or got lost, or  *)
(* to one whose start is not over.                                         *)
ReferencesBelong ==
  /\ listener # Null => listener \in refs
  /\ \A s \in refs :
       \/ receiver[s] \notin {"none", "exited"}
       \/ \E c \in Callers : caller[c] \in {"cStart", "startFailed"} /\ subject[c] = s

Canceling == {"cancel", "clear", "cCancel", "cWait"}
Installing == {"install", "cStart", "startFailed", "storeHandle", "failed"}

(* Before a stream is started, and after its cancel looked, none runs; a   *)
(* cancel with a handle has the one that runs.                             *)
CallerPlaced ==
  \A c \in Callers :
    /\ starting[c] => subject[c] \in 1 .. started /\ subject[c] \notin stopped
    /\ caller[c] \in {"clear", "install", "cStart", "startFailed", "failed"} => NoneRuns
    /\ caller[c] \in {"cCancel", "cWait"} =>
         found[c] # Null /\ \A s \in Streams : Running(s) => s = found[c]
    /\ caller[c] = "storeHandle" => \A s \in Streams : Running(s) => s = subject[c]
    /\ caller[c] \in {"cStart", "startFailed"} => listener = subject[c]

(* A caller that installs a stream is in a StartCallback, which has one. *)
StartShape ==
  \A c \in Callers :
    /\ starting[c] => subject[c] # Null /\ caller[c] \in Canceling \cup Installing
    /\ caller[c] \in Installing => starting[c]

(* Nothing is known of a stream before its StartCallback. *)
KnownStarted ==
  /\ stopped \subseteq 1 .. started /\ active \subseteq 1 .. started
  /\ \A c \in Callers : subject[c] \in 0 .. started

JInv ==
  /\ JNITypeOK
  /\ StartShape
  /\ OneRuns
  /\ RunningIsKnown
  /\ CallingOwn
  /\ ReferencesBelong
  /\ CallerPlaced
  /\ CanceledIsOver
  /\ KnownStarted

CallerAction(c) ==
  \/ ReadHandle(c) \/ CancelStep(c) \/ StartStep(c)
  \/ StreamCancel(c) \/ CloseCallbacks(c) \/ CancelCallback(c)
ReceiverAction(s) == Deliver(s) \/ EndStream(s) \/ ReceiverStep(s)

-----------------------------------------------------------------------------
(* Types, for any number of app threads: a caller's step, a receiver's. *)
LEMMA CallerTypes ==
  ASSUME JNITypeOK, StartShape, NEW c \in Callers, CallerAction(c)
  PROVE  JNITypeOK'
<1>1. caller[c] \in {"install", "cStart", "storeHandle"} => subject[c] \in Streams
  BY DEF JNITypeOK, StartShape, Installing
<1> USE JNIAssumption DEF JNITypeOK, CallerAction, CancelStep, StartStep, Move,
      slotVars, goVars, kotlinVars, receiverVars, ClearSlot, AfterCancel
<1>2. open' \subseteq Streams /\ active' \subseteq Streams
  <2>1. ASSUME StartCallback(c) PROVE open' \subseteq Streams /\ active' \subseteq Streams
    <3>1. started + 1 \in Streams
      BY <2>1 DEF StartCallback, Streams
    <3> QED BY <2>1, <3>1 DEF StartCallback
  <2>2. ASSUME ~StartCallback(c) PROVE open' \subseteq Streams /\ active' \subseteq Streams
    BY <2>2 DEF ReadHandle, ClearUnstarted, CCancel, CCancelUnknown, CCancelReturns,
       PrepareFails, StoreListener, CStart, CStartFails, ClearFailed, StoreHandle, StartFails, StreamCancel,
      CloseCallbacks, CancelCallback
  <2> QED BY <2>1, <2>2
<1> USE DEF ReadHandle, ClearUnstarted, CCancel, CCancelUnknown, CCancelReturns, StartCallback,
      PrepareFails, StoreListener, CStart, CStartFails, ClearFailed, StoreHandle, StartFails,
      StreamCancel, CloseCallbacks, CancelCallback
<1>3. stopped' \subseteq Streams
  <2>1. Canceled(c) => stopped' \subseteq Streams
    <3>1. subject[c] # Null => subject[c] \in Streams
      OBVIOUS
    <3> QED BY <3>1 DEF Canceled
  <2> QED BY <2>1
<1> USE DEF Canceled, Streams
<1>4. listener' \in Streams \cup {Null} /\ handle' \in Streams \cup {Null}
  OBVIOUS
<1>5. mu' \in Streams \cup {Null}
  OBVIOUS
<1>6. refs' \subseteq Streams
  BY <1>1
<1>7. registered' \subseteq Streams /\ canceled' \subseteq Streams
  BY <1>1
<1>8. receiver' \in [Streams -> {"none", "recv", "lock", "onRecv", "userRecv", "ending",
                            "onDone", "userDone", "clear", "exited", "lost"}]
  OBVIOUS
<1>9. calling' \in [Streams -> Streams \cup {Null}]
  OBVIOUS
<1>10. started' \in 0 .. MaxStreams
  OBVIOUS
<1>11. caller' \in [Callers -> {"idle", "cancel", "clear", "cCancel", "cWait", "install",
                          "cStart", "startFailed", "storeHandle", "failed", "close"}]
  OBVIOUS
<1>12. subject' \in [Callers -> Streams \cup {Null}] /\ found' \in [Callers -> Streams \cup {Null}]
  OBVIOUS
<1>13. starting' \in [Callers -> BOOLEAN]
  OBVIOUS
<1> HIDE DEF Streams, CallerAction
<1> QED BY <1>2, <1>3, <1>4, <1>5, <1>6, <1>7, <1>8, <1>9, <1>10, <1>11, <1>12, <1>13

LEMMA ReceiverTypes ==
  ASSUME JNITypeOK, NEW s \in Streams, ReceiverAction(s)
  PROVE  JNITypeOK'
<1> USE DEF JNITypeOK, ReceiverAction, ReceiverStep, Step, slotVars, goVars, kotlinVars,
      callerVars, ClearSlot,
      Deliver, EndStream, DropResponse, EnterRecv, CallUserRecv, LeaveRecv, CopyListener,
      DoneDetached, CallUserDone, LeaveDone, ClearDone
<1>1. listener' \in Streams \cup {Null} /\ handle' \in Streams \cup {Null}
  OBVIOUS
<1>2. mu' \in Streams \cup {Null} /\ refs' \subseteq Streams
  OBVIOUS
<1>3. registered' \subseteq Streams /\ canceled' \subseteq Streams
  OBVIOUS
<1>4. receiver' \in [Streams -> {"none", "recv", "lock", "onRecv", "userRecv", "ending",
                            "onDone", "userDone", "clear", "exited", "lost"}]
  OBVIOUS
<1>5. calling' \in [Streams -> Streams \cup {Null}]
  OBVIOUS
<1>6. open' \subseteq Streams /\ active' \subseteq Streams
  OBVIOUS
<1>7. UNCHANGED callerVars
  OBVIOUS
<1> HIDE DEF ReceiverAction
<1> QED BY <1>1, <1>2, <1>3, <1>4, <1>5, <1>6, <1>7

(* The mutex of the slot is held exactly during an onRecv. *)
MuHolder == \A s \in Streams : mu = s <=> receiver[s] \in {"onRecv", "userRecv"}

(* A StartCallback starts a stream of its own, which nobody has started.   *)
FreshStarts ==
  /\ \A s \in Streams : s > started => receiver[s] = "none"
  /\ \A c \in Callers : starting[c] =>
       /\ subject[c] \in 1 .. started
       /\ caller[c] # "storeHandle" => receiver[subject[c]] = "none"
  /\ \A c, d \in Callers : starting[c] /\ starting[d] /\ subject[c] = subject[d] => c = d

SlotInv == JNITypeOK /\ StartShape /\ FreshStarts /\ MuHolder

LEMMA CallerKeepsSlot ==
  ASSUME SlotInv, NEW c \in Callers, CallerAction(c)
  PROVE  SlotInv'
<1>1. JNITypeOK'
  BY CallerTypes DEF SlotInv
<1> USE DEF SlotInv, JNITypeOK, Move, CallerAction, CancelStep, StartStep, AfterCancel
<1> USE DEF ReadHandle, ClearUnstarted, CCancel, CCancelUnknown, CCancelReturns, StartCallback,
      PrepareFails, StoreListener, CStart, CStartFails, ClearFailed, StoreHandle, StartFails,
      StreamCancel, CloseCallbacks, CancelCallback, Canceled, ClearSlot, slotVars, goVars,
      kotlinVars, receiverVars
<1>2. StartShape'
  BY DEF StartShape, Canceling, Installing, Null, Streams
<1>3. FreshStarts'
  <2>1. ASSUME StartCallback(c) PROVE FreshStarts'
    BY <2>1, JNIAssumption DEF FreshStarts, StartShape, Canceling, Installing, Null, Streams
  <2>2. ASSUME CStart(c) PROVE FreshStarts'
    BY <2>2, JNIAssumption DEF FreshStarts, StartShape, Canceling, Installing, Null, Streams
  <2>3. ASSUME StreamCancel(c) \/ CancelCallback(c) PROVE FreshStarts'
    BY <2>3, JNIAssumption DEF FreshStarts, StartShape, Canceling, Installing, Null, Streams
  <2>4. ASSUME StoreHandle(c) PROVE FreshStarts'
    BY <2>4, JNIAssumption DEF FreshStarts, StartShape, Canceling, Installing, Null, Streams
  <2>5. ASSUME ReadHandle(c) \/ CancelStep(c) \/ PrepareFails(c) \/ StoreListener(c)
               \/ CStartFails(c) \/ ClearFailed(c) \/ StartFails(c) \/ CloseCallbacks(c)
        PROVE  FreshStarts'
    <3>1. /\ UNCHANGED <<receiver, subject, started>>
          /\ \A d \in Callers : starting'[d] => starting[d]
      BY <2>5
    <3>2. \A d \in Callers : starting[d] /\ caller'[d] # "storeHandle" => caller[d] # "storeHandle"
      BY <2>5
    <3> HIDE DEF CallerAction, StartStep, CancelStep
    <3> QED BY <3>1, <3>2 DEF FreshStarts
  <2> HIDE DEF StartCallback, CStart, StreamCancel, CancelCallback, StoreHandle, CancelStep
  <2> QED BY <2>1, <2>2, <2>3, <2>4, <2>5
<1>4. MuHolder'
  BY JNIAssumption DEF MuHolder, StartShape, FreshStarts, Installing, receiverVars, Null,
     Streams
<1> QED BY <1>1, <1>2, <1>3, <1>4

LEMMA ReceiverKeepsSlot ==
  ASSUME SlotInv, NEW s \in Streams, ReceiverAction(s)
  PROVE  SlotInv'
<1>1. JNITypeOK'
  BY ReceiverTypes DEF SlotInv
<1> USE DEF SlotInv, JNITypeOK, Step, ReceiverAction, ReceiverStep, callerVars,
      Deliver, EndStream, DropResponse, EnterRecv, CallUserRecv, LeaveRecv, CopyListener,
      DoneDetached, CallUserDone, LeaveDone, ClearDone, ClearSlot, slotVars, goVars, kotlinVars
<1>2. StartShape'
  BY DEF StartShape
<1>3. FreshStarts'
  <2>1. \A r \in Streams : receiver[r] = "none" => receiver'[r] = "none"
    OBVIOUS
  <2>2. UNCHANGED <<caller, subject, starting, started>>
    OBVIOUS
  <2> HIDE DEF ReceiverAction
  <2> QED BY <2>1, <2>2, JNIAssumption DEF FreshStarts, Streams
<1>4. MuHolder'
  BY JNIAssumption DEF MuHolder, Null, Streams
<1> QED BY <1>1, <1>2, <1>3, <1>4

LEMMA InitSlotInv == JNIInit => SlotInv
BY JNIAssumption DEF JNIInit, SlotInv, JNITypeOK, StartShape, FreshStarts, MuHolder,
   Installing, Streams, Null

LEMMA AlwaysSlotInv == JNISpec => []SlotInv
<1>1. ASSUME SlotInv, [JNINext]_jniVars PROVE SlotInv'
  <2>1. CASE UNCHANGED jniVars
    BY <1>1, <2>1 DEF jniVars, slotVars, goVars, receiverVars, kotlinVars, callerVars, SlotInv,
       JNITypeOK, StartShape, FreshStarts, MuHolder
  <2>2. CASE JNINext
    BY <1>1, <2>2, CallerKeepsSlot, ReceiverKeepsSlot DEF JNINext, CallerAction, ReceiverAction
  <2> QED BY <1>1, <2>1, <2>2
<1> QED BY <1>1, InitSlotInv, PTL DEF JNISpec

(* Every variable of the slot, its receive loops and its clients keeps its *)
(* type, however many threads of the app start and cancel.                 *)
THEOREM JNITypesHold == JNISpec => []JNITypeOK
<1>1. SlotInv => JNITypeOK
  BY DEF SlotInv
<1> QED BY <1>1, AlwaysSlotInv, PTL

(* No two listeners are inside onRecv at a time, whatever stream they are  *)
(* of and however many threads start and cancel: the mutex that on...Recv  *)
(* keeps during the Java call is taken and given back by its own stream.   *)
THEOREM RecvsExclude ==
  JNISpec => [](\A r, s \in Streams :
                  /\ receiver[r] \in {"onRecv", "userRecv"} => mu = r
                  /\ receiver[r] \in {"onRecv", "userRecv"}
                     /\ receiver[s] \in {"onRecv", "userRecv"} => r = s)
<1>1. SlotInv => \A r, s \in Streams :
                  /\ receiver[r] \in {"onRecv", "userRecv"} => mu = r
                  /\ receiver[r] \in {"onRecv", "userRecv"}
                     /\ receiver[s] \in {"onRecv", "userRecv"} => r = s
  BY DEF SlotInv, MuHolder
<1> QED BY <1>1, AlwaysSlotInv, PTL

(* The Go side knows a handle from the moment its loop runs.               *)
WaitsForLoop ==
  /\ \A s \in registered : receiver[s] # "none"
  /\ \A c \in Callers : caller[c] = "cWait" =>
       found[c] \in canceled /\ found[c] \in Streams /\ receiver[found[c]] # "none"

LEMMA WaitsForLoopStep ==
  ASSUME SlotInv, WaitsForLoop, [JNINext]_jniVars
  PROVE  WaitsForLoop'
<1> USE DEF SlotInv, JNITypeOK, WaitsForLoop
<1>1. ASSUME NEW c \in Callers, CallerAction(c) PROVE WaitsForLoop'
  <2> USE <1>1 DEF Move, CallerAction, CancelStep, StartStep, AfterCancel, ReadHandle,
        ClearUnstarted, CCancel, CCancelUnknown, CCancelReturns, StartCallback, PrepareFails,
        StoreListener, CStart, CStartFails, ClearFailed, StoreHandle, StartFails, StreamCancel,
        CloseCallbacks, CancelCallback, slotVars, goVars, kotlinVars, receiverVars
  <2>1. CStart(c) => subject[c] \in Streams
    BY DEF StartShape, Installing
  <2>2. /\ \A s \in Streams : receiver[s] # "none" => receiver'[s] # "none"
        /\ \A s \in registered' : receiver'[s] # "none"
        /\ canceled \subseteq canceled'
    BY <2>1
  <2>3. \A d \in Callers : caller'[d] = "cWait" =>
          \/ caller[d] = "cWait" /\ found'[d] = found[d]
          \/ found'[d] \in registered /\ found'[d] \in canceled'
    OBVIOUS
  <2> HIDE <1>1 DEF CallerAction
  <2> QED BY <2>2, <2>3
<1>2. ASSUME NEW s \in Streams, ReceiverAction(s) PROVE WaitsForLoop'
  <2>1. /\ UNCHANGED <<registered, canceled, caller, found>>
        /\ \A r \in Streams : receiver[r] # "none" => receiver'[r] # "none"
    BY <1>2 DEF ReceiverAction, ReceiverStep, Step, Deliver, EndStream, DropResponse, EnterRecv,
       CallUserRecv, LeaveRecv, CopyListener, DoneDetached, CallUserDone, LeaveDone, ClearDone,
       ClearSlot, slotVars, goVars, callerVars
  <2> QED BY <2>1
<1>3. CASE UNCHANGED jniVars
  BY <1>3 DEF jniVars, goVars, receiverVars, callerVars
<1>4. CASE JNINext
  BY <1>4, <1>1, <1>2 DEF JNINext, CallerAction, ReceiverAction
<1> QED BY <1>3, <1>4

(* Nobody waits for nobody, however many threads start and cancel: who     *)
(* waits for the mutex waits for a listener's onRecv to return, and a      *)
(* Cancel that waits, for a receive loop that runs or is over and whose    *)
(* session was marked canceled.                                            *)
THEOREM WaitersAreAnswered ==
  JNISpec => [](/\ mu # Null => receiver[mu] \in {"onRecv", "userRecv"}
                /\ \A c \in Callers : caller[c] = "cWait" =>
                     found[c] \in canceled /\ receiver[found[c]] # "none")
<1>1. JNIInit => WaitsForLoop
  BY DEF JNIInit, WaitsForLoop
<1>2. SlotInv /\ WaitsForLoop /\ [JNINext]_jniVars => WaitsForLoop'
  BY WaitsForLoopStep
<1>3. SlotInv /\ WaitsForLoop =>
        /\ mu # Null => receiver[mu] \in {"onRecv", "userRecv"}
        /\ \A c \in Callers : caller[c] = "cWait" =>
             found[c] \in canceled /\ receiver[found[c]] # "none"
  BY DEF SlotInv, JNITypeOK, MuHolder, WaitsForLoop
<1> QED BY <1>1, <1>2, <1>3, AlwaysSlotInv, PTL DEF JNISpec

-----------------------------------------------------------------------------
(* A cancel that returns leaves its stream over. *)
LEMMA CancelReturned ==
  ASSUME JInv, NEW c \in Callers, NoneRuns, Canceled(c),
         UNCHANGED <<receiver, kotlinVars, subject, started>>
  PROVE  CanceledIsOver' /\ KnownStarted'
<1>1. subject[c] # Null => subject[c] \in 1 .. started
  BY JNIAssumption DEF JInv, KnownStarted, JNITypeOK, Null
<1>2. stopped' \subseteq 1 .. started
  BY <1>1 DEF Canceled, JInv, KnownStarted
<1>3. \A s \in Streams : receiver'[s] \in {"none", "exited", "lost"}
  BY DEF NoneRuns, Running
<1>4. 1 .. started \subseteq Streams
  BY JNIAssumption DEF JInv, JNITypeOK, Streams
<1>5. CanceledIsOver'
  BY <1>2, <1>3, <1>4 DEF CanceledIsOver
<1>6. KnownStarted'
  BY <1>2 DEF JInv, KnownStarted, kotlinVars
<1> QED BY <1>5, <1>6

LEMMA CallerKeeps ==
  ASSUME OneApp, JInv, NEW c \in Callers, CallerAction(c)
  PROVE  JInv'
<1>a. JNITypeOK'
  BY CallerTypes DEF JInv
<1>b. /\ JNITypeOK /\ StartShape /\ OneRuns /\ RunningIsKnown /\ CallingOwn
      /\ ReferencesBelong /\ CallerPlaced /\ CanceledIsOver /\ KnownStarted
  BY DEF JInv
<1> DEFINE Rest ==
      /\ StartShape /\ OneRuns /\ RunningIsKnown /\ CallingOwn
      /\ ReferencesBelong /\ CallerPlaced /\ CanceledIsOver /\ KnownStarted
<1> USE JNIAssumption DEF OneApp, Move, slotVars, goVars, kotlinVars, receiverVars, ClearSlot,
    AfterCancel, Canceled, Null, Streams, Canceling, Installing, NoneRuns, Running, JNITypeOK,
    OneRuns, RunningIsKnown, CallingOwn, ReferencesBelong, CallerPlaced, CanceledIsOver,
    KnownStarted, StartShape
<1>1. ASSUME ReadHandle(c) PROVE Rest'
  <2>1. OneRuns' /\ RunningIsKnown' /\ CallingOwn'
    BY <1>b, <1>1 DEF ReadHandle
  <2>2. ReferencesBelong' /\ CallerPlaced'
    BY <1>b, <1>1 DEF ReadHandle
  <2>3. CanceledIsOver' /\ KnownStarted' /\ StartShape'
    BY <1>b, <1>1 DEF ReadHandle
  <2> QED BY <2>1, <2>2, <2>3
<1>2. ASSUME ClearUnstarted(c) PROVE Rest'
  <2>1. OneRuns' /\ RunningIsKnown' /\ CallingOwn'
    BY <1>b, <1>2 DEF ClearUnstarted
  <2>2. ReferencesBelong' /\ CallerPlaced'
    BY <1>b, <1>2 DEF ClearUnstarted
  <2>3. CanceledIsOver' /\ KnownStarted' /\ StartShape'
    <3>1. NoneRuns
      BY <1>b, <1>2 DEF ClearUnstarted
    <3>2. CanceledIsOver' /\ KnownStarted'
      BY <1>2, <3>1, CancelReturned DEF ClearUnstarted
    <3>3. StartShape'
      BY <1>b, <1>2 DEF ClearUnstarted
    <3> QED BY <3>2, <3>3
  <2> QED BY <2>1, <2>2, <2>3
<1>3. ASSUME CCancel(c) PROVE Rest'
  <2>1. OneRuns' /\ RunningIsKnown' /\ CallingOwn'
    BY <1>b, <1>3 DEF CCancel
  <2>2. ReferencesBelong' /\ CallerPlaced'
    BY <1>b, <1>3 DEF CCancel
  <2>3. CanceledIsOver' /\ KnownStarted' /\ StartShape'
    BY <1>b, <1>3 DEF CCancel
  <2> QED BY <2>1, <2>2, <2>3
<1>4. ASSUME CCancelUnknown(c) PROVE Rest'
  <2>1. OneRuns' /\ RunningIsKnown' /\ CallingOwn'
    BY <1>b, <1>4 DEF CCancelUnknown
  <2>2. ReferencesBelong' /\ CallerPlaced'
    BY <1>b, <1>4 DEF CCancelUnknown
  <2>3. CanceledIsOver' /\ KnownStarted' /\ StartShape'
    <3>1. NoneRuns
      BY <1>b, <1>4 DEF CCancelUnknown
    <3>2. CanceledIsOver' /\ KnownStarted'
      BY <1>4, <3>1, CancelReturned DEF CCancelUnknown
    <3>3. StartShape'
      BY <1>b, <1>4 DEF CCancelUnknown
    <3> QED BY <3>2, <3>3
  <2> QED BY <2>1, <2>2, <2>3
<1>5. ASSUME CCancelReturns(c) PROVE Rest'
  <2>1. OneRuns' /\ RunningIsKnown' /\ CallingOwn'
    BY <1>b, <1>5 DEF CCancelReturns
  <2>2. ReferencesBelong' /\ CallerPlaced'
    BY <1>b, <1>5 DEF CCancelReturns
  <2>3. CanceledIsOver' /\ KnownStarted' /\ StartShape'
    <3>1. NoneRuns
      BY <1>b, <1>5 DEF CCancelReturns
    <3>2. CanceledIsOver' /\ KnownStarted'
      BY <1>5, <3>1, CancelReturned DEF CCancelReturns
    <3>3. StartShape'
      BY <1>b, <1>5 DEF CCancelReturns
    <3> QED BY <3>2, <3>3
  <2> QED BY <2>1, <2>2, <2>3
<1>6. ASSUME StartCallback(c) PROVE Rest'
  <2>1. OneRuns' /\ RunningIsKnown' /\ CallingOwn'
    BY <1>b, <1>6 DEF StartCallback
  <2>2. ReferencesBelong' /\ CallerPlaced'
    BY <1>b, <1>6 DEF StartCallback
  <2>3. CanceledIsOver' /\ KnownStarted' /\ StartShape'
    BY <1>b, <1>6 DEF StartCallback
  <2> QED BY <2>1, <2>2, <2>3
<1>7. ASSUME PrepareFails(c) PROVE Rest'
  <2>1. OneRuns' /\ RunningIsKnown' /\ CallingOwn'
    BY <1>b, <1>7 DEF PrepareFails
  <2>2. ReferencesBelong' /\ CallerPlaced'
    BY <1>b, <1>7 DEF PrepareFails
  <2>3. CanceledIsOver' /\ KnownStarted' /\ StartShape'
    BY <1>b, <1>7 DEF PrepareFails
  <2> QED BY <2>1, <2>2, <2>3
<1>8. ASSUME StoreListener(c) PROVE Rest'
  <2>1. OneRuns' /\ RunningIsKnown' /\ CallingOwn'
    BY <1>b, <1>8 DEF StoreListener
  <2>2. ReferencesBelong' /\ CallerPlaced'
    BY <1>b, <1>8 DEF StoreListener
  <2>3. CanceledIsOver' /\ KnownStarted' /\ StartShape'
    BY <1>b, <1>8 DEF StoreListener
  <2> QED BY <2>1, <2>2, <2>3
<1>9. ASSUME CStart(c) PROVE Rest'
  <2>1. OneRuns' /\ RunningIsKnown' /\ CallingOwn'
    <3>1. subject[c] \in Streams /\ NoneRuns /\ listener = subject[c] /\ starting[c]
      BY <1>b, <1>9 DEF CStart
    <3>2. \A s \in Streams :
            receiver'[s] = IF s = subject[c] THEN "recv" ELSE receiver[s]
      BY <1>b, <1>9 DEF CStart
    <3>3. OneRuns'
      BY <3>1, <3>2
    <3>4. RunningIsKnown'
      BY <1>b, <1>9, <3>1, <3>2 DEF CStart
    <3>5. CallingOwn'
      BY <1>b, <1>9, <3>1, <3>2 DEF CStart
    <3> QED BY <3>3, <3>4, <3>5
  <2>2. ReferencesBelong' /\ CallerPlaced'
    BY <1>b, <1>9 DEF CStart
  <2>3. CanceledIsOver' /\ KnownStarted' /\ StartShape'
    BY <1>b, <1>9 DEF CStart
  <2> QED BY <2>1, <2>2, <2>3
<1>10. ASSUME CStartFails(c) PROVE Rest'
  <2>1. OneRuns' /\ RunningIsKnown' /\ CallingOwn'
    BY <1>b, <1>10 DEF CStartFails
  <2>2. ReferencesBelong' /\ CallerPlaced'
    BY <1>b, <1>10 DEF CStartFails
  <2>3. CanceledIsOver' /\ KnownStarted' /\ StartShape'
    BY <1>b, <1>10 DEF CStartFails
  <2> QED BY <2>1, <2>2, <2>3
<1>11. ASSUME ClearFailed(c) PROVE Rest'
  <2>1. OneRuns' /\ RunningIsKnown' /\ CallingOwn'
    BY <1>b, <1>11 DEF ClearFailed
  <2>2. ReferencesBelong' /\ CallerPlaced'
    BY <1>b, <1>11 DEF ClearFailed
  <2>3. CanceledIsOver' /\ KnownStarted' /\ StartShape'
    BY <1>b, <1>11 DEF ClearFailed
  <2> QED BY <2>1, <2>2, <2>3
<1>12. ASSUME StoreHandle(c) PROVE Rest'
  <2>1. OneRuns' /\ RunningIsKnown' /\ CallingOwn'
    BY <1>b, <1>12 DEF StoreHandle
  <2>2. ReferencesBelong' /\ CallerPlaced'
    BY <1>b, <1>12 DEF StoreHandle
  <2>3. CanceledIsOver' /\ KnownStarted' /\ StartShape'
    BY <1>b, <1>12 DEF StoreHandle
  <2> QED BY <2>1, <2>2, <2>3
<1>13. ASSUME StartFails(c) PROVE Rest'
  <2>1. OneRuns' /\ RunningIsKnown' /\ CallingOwn'
    BY <1>b, <1>13 DEF StartFails
  <2>2. ReferencesBelong' /\ CallerPlaced'
    BY <1>b, <1>13 DEF StartFails
  <2>3. CanceledIsOver' /\ KnownStarted'
    BY <1>b, <1>13 DEF StartFails
  <2>4. StartShape'
    BY <1>b, <1>13 DEF StartFails
  <2> QED BY <2>1, <2>2, <2>3, <2>4
<1>14. ASSUME StreamCancel(c) PROVE Rest'
  <2>1. OneRuns' /\ RunningIsKnown' /\ CallingOwn'
    BY <1>b, <1>14 DEF StreamCancel
  <2>2. ReferencesBelong' /\ CallerPlaced'
    BY <1>b, <1>14 DEF StreamCancel
  <2>3. CanceledIsOver' /\ KnownStarted' /\ StartShape'
    BY <1>b, <1>14 DEF StreamCancel
  <2> QED BY <2>1, <2>2, <2>3
<1>15. ASSUME CloseCallbacks(c) PROVE Rest'
  <2>1. OneRuns' /\ RunningIsKnown' /\ CallingOwn'
    BY <1>b, <1>15 DEF CloseCallbacks
  <2>2. ReferencesBelong' /\ CallerPlaced'
    BY <1>b, <1>15 DEF CloseCallbacks
  <2>3. CanceledIsOver' /\ KnownStarted' /\ StartShape'
    BY <1>b, <1>15 DEF CloseCallbacks
  <2> QED BY <2>1, <2>2, <2>3
<1>16. ASSUME CancelCallback(c) PROVE Rest'
  <2>1. OneRuns' /\ RunningIsKnown' /\ CallingOwn'
    BY <1>b, <1>16 DEF CancelCallback
  <2>2. ReferencesBelong' /\ CallerPlaced'
    BY <1>b, <1>16 DEF CancelCallback
  <2>3. CanceledIsOver' /\ KnownStarted' /\ StartShape'
    BY <1>b, <1>16 DEF CancelCallback
  <2> QED BY <2>1, <2>2, <2>3
<1> HIDE DEF JNITypeOK, OneRuns, RunningIsKnown, CallingOwn, ReferencesBelong, CallerPlaced,
    CanceledIsOver, KnownStarted, StartShape
<1>17. Rest'
  BY <1>1, <1>2, <1>3, <1>4, <1>5, <1>6, <1>7, <1>8, <1>9, <1>10, <1>11, <1>12, <1>13, <1>14,
     <1>15, <1>16
     DEF CallerAction, CancelStep, StartStep
<1> QED BY <1>a, <1>17 DEF JInv

(* Until it detaches or clears the slot, a receive loop that steps runs on. *)
LEMMA ReceiverRunsOn ==
  ASSUME JInv, NEW s \in Streams, ReceiverAction(s), ~DoneDetached(s), ~ClearDone(s)
  PROVE  /\ Running(s) /\ Running(s)'
         /\ \A r \in Streams \ {s} : receiver'[r] = receiver[r]
         /\ UNCHANGED <<listener, handle, refs, registered, callerVars>>
         /\ active' \subseteq active
<1> USE DEF Step, slotVars, goVars, kotlinVars, callerVars, Running, JInv, JNITypeOK
<1>1. CASE Deliver(s)
  BY <1>1 DEF Deliver
<1>2. CASE EndStream(s)
  BY <1>2 DEF EndStream
<1>3. CASE DropResponse(s)
  BY <1>3 DEF DropResponse
<1>4. CASE EnterRecv(s)
  BY <1>4 DEF EnterRecv
<1>5. CASE CallUserRecv(s)
  BY <1>5 DEF CallUserRecv
<1>6. CASE LeaveRecv(s)
  BY <1>6 DEF LeaveRecv
<1>7. CASE CopyListener(s)
  BY <1>7 DEF CopyListener
<1>8. CASE CallUserDone(s)
  BY <1>8 DEF CallUserDone
<1>9. CASE LeaveDone(s)
  BY <1>9 DEF LeaveDone
<1> QED BY <1>1, <1>2, <1>3, <1>4, <1>5, <1>6, <1>7, <1>8, <1>9 DEF ReceiverAction, ReceiverStep

LEMMA ReceiverCallsOwn ==
  ASSUME JInv, NEW s \in Streams, ReceiverAction(s)
  PROVE  CallingOwn'
<1> SUFFICES ASSUME NEW r \in Streams
             PROVE  IF receiver'[r] \in {"onRecv", "userRecv", "onDone", "userDone"}
                      THEN calling'[r] = r
                      ELSE calling'[r] = Null
    BY DEF CallingOwn
<1>1. IF receiver[r] \in {"onRecv", "userRecv", "onDone", "userDone"}
        THEN calling[r] = r
        ELSE calling[r] = Null
  BY DEF JInv, CallingOwn
<1>2. receiver[s] \notin {"none", "exited", "lost"} => listener = s
  BY DEF JInv, RunningIsKnown, Running
<1> USE DEF Step, JInv, JNITypeOK, Null
<1>3. CASE Deliver(s)
  BY <1>1, <1>3 DEF Deliver
<1>4. CASE EndStream(s)
  BY <1>1, <1>4 DEF EndStream
<1>5. CASE DropResponse(s)
  BY <1>1, <1>5 DEF DropResponse
<1>6. CASE EnterRecv(s)
  BY <1>1, <1>2, <1>6 DEF EnterRecv
<1>7. CASE CallUserRecv(s)
  BY <1>1, <1>7 DEF CallUserRecv
<1>8. CASE LeaveRecv(s)
  BY <1>1, <1>8 DEF LeaveRecv
<1>9. CASE CopyListener(s)
  BY <1>1, <1>2, <1>9 DEF CopyListener
<1>10. CASE DoneDetached(s)
  BY <1>1, <1>10 DEF DoneDetached
<1>11. CASE CallUserDone(s)
  BY <1>1, <1>11 DEF CallUserDone
<1>12. CASE LeaveDone(s)
  BY <1>1, <1>12 DEF LeaveDone
<1>13. CASE ClearDone(s)
  BY <1>1, <1>13 DEF ClearDone
<1> QED BY <1>3, <1>4, <1>5, <1>6, <1>7, <1>8, <1>9, <1>10, <1>11, <1>12, <1>13
          DEF ReceiverAction, ReceiverStep

LEMMA ReceiverKeeps ==
  ASSUME JInv, NEW s \in Streams, ReceiverAction(s)
  PROVE  JInv'
<1>1. JNITypeOK' /\ CallingOwn'
  BY ReceiverTypes, ReceiverCallsOwn DEF JInv
<1>2. /\ OneRuns /\ RunningIsKnown /\ ReferencesBelong /\ CallerPlaced /\ CanceledIsOver
      /\ KnownStarted /\ StartShape
  BY DEF JInv
<1>3. ASSUME ~DoneDetached(s), ~ClearDone(s)
      PROVE  /\ OneRuns' /\ RunningIsKnown' /\ ReferencesBelong' /\ CallerPlaced'
             /\ CanceledIsOver' /\ KnownStarted' /\ StartShape'
  <2>1. /\ Running(s) /\ Running(s)'
        /\ \A r \in Streams \ {s} : receiver'[r] = receiver[r]
        /\ UNCHANGED <<listener, handle, refs, registered, caller, subject, starting, found,
                       started, stopped>>
        /\ active' \subseteq active
    BY <1>3, ReceiverRunsOn DEF callerVars
  <2>2. \A r \in Streams : Running(r)' <=> Running(r)
    BY <2>1 DEF Running
  <2>3. OneRuns' /\ RunningIsKnown' /\ CallerPlaced'
    BY <1>2, <2>1, <2>2 DEF OneRuns, RunningIsKnown, CallerPlaced, NoneRuns
  <2>4. ReferencesBelong' /\ CanceledIsOver'
    BY <1>2, <2>1 DEF ReferencesBelong, CanceledIsOver, Running, JInv, JNITypeOK
  <2>5. KnownStarted' /\ StartShape'
    BY <1>2, <2>1 DEF KnownStarted, StartShape
  <2> QED BY <2>3, <2>4, <2>5
<1>4. ASSUME DoneDetached(s) \/ ClearDone(s)
      PROVE  /\ OneRuns' /\ RunningIsKnown' /\ ReferencesBelong' /\ CallerPlaced'
             /\ CanceledIsOver' /\ KnownStarted' /\ StartShape'
  <2>1. /\ Running(s) /\ ~Running(s)' /\ receiver'[s] \notin {"none"}
        /\ \A r \in Streams \ {s} : receiver'[r] = receiver[r]
        /\ UNCHANGED <<registered, active, caller, subject, starting, found, started, stopped>>
    BY <1>4 DEF DoneDetached, ClearDone, Step, goVars, kotlinVars, callerVars, Running, JInv,
       JNITypeOK
  <2>2. \A r \in Streams : ~Running(r)'
    BY <1>2, <2>1 DEF OneRuns, Running
  <2>3. \/ receiver'[s] = "lost" /\ UNCHANGED <<listener, refs>>
        \/ refs' = refs \ {s} /\ listener' = Null
    <3>1. listener = s
      BY <1>2, <2>1 DEF RunningIsKnown
    <3> QED BY <1>4, <3>1 DEF DoneDetached, ClearDone, ClearSlot, Step, slotVars, JInv,
        JNITypeOK
  <2>4. OneRuns' /\ RunningIsKnown'
    BY <2>2 DEF OneRuns, RunningIsKnown
  <2>5. ReferencesBelong'
    BY <1>2, <2>1, <2>3 DEF ReferencesBelong, JInv, JNITypeOK
  <2>6. CallerPlaced'
    <3>1. \A c \in Callers : caller[c] \notin {"cStart", "startFailed"}
      BY <1>2, <2>1 DEF CallerPlaced, NoneRuns
    <3> QED BY <1>2, <2>1, <2>2, <3>1 DEF CallerPlaced, NoneRuns
  <2>7. CanceledIsOver'
    BY <2>1, <2>2 DEF CanceledIsOver, Running, JInv, JNITypeOK
  <2>8. KnownStarted' /\ StartShape'
    BY <1>2, <2>1 DEF KnownStarted, StartShape
  <2> QED BY <2>4, <2>5, <2>6, <2>7, <2>8
<1> QED BY <1>1, <1>3, <1>4 DEF JInv

LEMMA InitJInv == JNIInit => JInv
BY JNIAssumption DEF JNIInit, JInv, JNITypeOK, OneRuns, RunningIsKnown, CallingOwn,
   ReferencesBelong, CallerPlaced, CanceledIsOver, KnownStarted, StartShape, Running, Streams, Null,
   Installing

LEMMA StepJInv ==
  ASSUME OneApp, JInv, [JNINext]_jniVars
  PROVE  JInv'
<1>1. ASSUME NEW c \in Callers, CallerAction(c) PROVE JInv'
  BY <1>1, CallerKeeps
<1>2. ASSUME NEW s \in Streams, ReceiverAction(s) PROVE JInv'
  BY <1>2, ReceiverKeeps
<1>3. CASE UNCHANGED jniVars
  BY <1>3 DEF jniVars, slotVars, goVars, receiverVars, kotlinVars, callerVars, JInv, JNITypeOK,
     OneRuns, RunningIsKnown, CallingOwn, ReferencesBelong, CallerPlaced, CanceledIsOver,
     KnownStarted, StartShape, NoneRuns, Running
<1>4. CASE JNINext
  BY <1>4, <1>1, <1>2 DEF JNINext, CallerAction, ReceiverAction
<1> QED BY <1>3, <1>4

LEMMA AlwaysJInv ==
  ASSUME OneApp
  PROVE  JNISpec => []JInv
<1>1. JInv /\ [JNINext]_jniVars => JInv'
  BY StepJInv
<1> QED BY <1>1, InitJInv, PTL DEF JNISpec

-----------------------------------------------------------------------------
(* A receive loop only calls the listener of its own stream, although the  *)
(* slot it reads it from served other streams before and will after.       *)
THEOREM OwnListenerHolds ==
  ASSUME OneApp
  PROVE  JNISpec => []OwnListener
<1>1. JInv => OwnListener
  BY DEF JInv, CallingOwn, OwnListener
<1> QED BY <1>1, AlwaysJInv, PTL

(* The global reference of a listener is not deleted while onRecv or       *)
(* onDone of it runs: everybody who clears the slot comes before the       *)
(* stream was started or after its receive loop is over.                   *)
THEOREM ListenerAliveHolds ==
  ASSUME OneApp
  PROVE  JNISpec => []ListenerAlive
<1>1. JInv => ListenerAlive
  BY JNIAssumption DEF JInv, CallingOwn, RunningIsKnown, ReferencesBelong, Running,
     ListenerAlive, Null, Streams
<1> QED BY <1>1, AlwaysJInv, PTL

(* Between the calls of the app a global reference is only left of a       *)
(* stream that runs, or that ended where no thread could be attached.      *)
THEOREM NoLeakedReferenceHolds ==
  ASSUME OneApp
  PROVE  JNISpec => []NoLeakedReference
<1>1. JInv => NoLeakedReference
  BY DEF JInv, ReferencesBelong, NoLeakedReference
<1> QED BY <1>1, AlwaysJInv, PTL

(* When a cancel() has returned, the receive loop of its stream is over.   *)
THEOREM CanceledIsOverHolds ==
  ASSUME OneApp
  PROVE  JNISpec => []CanceledIsOver
<1>1. JInv => CanceledIsOver
  BY DEF JInv
<1> QED BY <1>1, AlwaysJInv, PTL

=============================================================================
