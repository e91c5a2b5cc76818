----------------------------- MODULE PinnedOutputs -----------------------------
(***************************************************************************)
(* The table of pinned buffers, keyed by address, and the generated code   *)
(* that hands Go memory to C through it: a native client export that       *)
(* returns a response, the native callback receive loop, and the native    *)
(* server adapter that passes a request to a C server.                     *)
(*                                                                         *)
(* The slices of a response are pinned where the handler left them, so the *)
(* same address may come from two calls at once or from two fields of one  *)
(* call; a string or an enum list is copied first.  Every pin has an entry *)
(* with a Pinner of its own, but the table has room for one per address.   *)
(* An empty value has address 0 and is not pinned.                         *)
(***************************************************************************)
EXTENDS Integers

CONSTANTS
  Calls,       \* goroutines, each making one call after the other
  Addresses,   \* where the buffers are
  NFields      \* how many fields a message has

ASSUME PinAssumption == NFields \in Nat /\ Addresses \subseteq Nat \ {0}

Zero == 0       \* the address of an empty value
NoEntry == <<"nobody", 0>>

Fields == 1 .. NFields
Messages == [Fields -> Addresses \cup {Zero}]
Entries == Calls \X Fields
EmptyMessage == [i \in Fields |-> Zero]

VARIABLES
  pc, kind,   \* of every call: where it is, and which code it runs
  message,    \* the addresses of the fields it hands out
  at,         \* the field it is about to pin
  owned,      \* the fields it pinned and has yet to release
  removed,    \* the entry it took from the table and has yet to unpin
  pinnedMap,  \* of every address, its entry or NoEntry
  pinners     \* the entries whose Pinner holds the memory

callVars == <<pc, kind, message, at, owned, removed>>
vars == <<callVars, pinnedMap, pinners>>

Kinds == {"response", "callback", "request"}

TypeOK ==
  /\ pc \in [Calls -> {"idle", "stage", "store", "conflict", "staged", "held", "release", "unpin"}]
  /\ kind \in [Calls -> Kinds]
  /\ message \in [Calls -> Messages]
  /\ at \in [Calls -> 1 .. NFields + 1]
  /\ owned \in [Calls -> SUBSET Fields]
  /\ removed \in [Calls -> Entries \cup {NoEntry}]
  /\ pinnedMap \in [Addresses -> Entries \cup {NoEntry}]
  /\ pinners \subseteq Entries

Init ==
  /\ pc = [c \in Calls |-> "idle"]
  /\ kind = [c \in Calls |-> "response"]
  /\ message = [c \in Calls |-> EmptyMessage]
  /\ at = [c \in Calls |-> 1]
  /\ owned = [c \in Calls |-> {}]
  /\ removed = [c \in Calls |-> NoEntry]
  /\ pinnedMap = [a \in Addresses |-> NoEntry]
  /\ pinners = {}

Goto(c, from, to) == pc[c] = from /\ pc' = [pc EXCEPT ![c] = to]

-----------------------------------------------------------------------------
(* The handler's response, or the client's request, is there.  A response  *)
(* with a length beyond int32 is refused before anything is pinned.        *)
Begin(c) ==
  /\ Goto(c, "idle", "stage")
  /\ \E k \in Kinds, m \in Messages :
       /\ kind' = [kind EXCEPT ![c] = k]
       /\ message' = [message EXCEPT ![c] = m]
  /\ at' = [at EXCEPT ![c] = 1]
  /\ UNCHANGED <<owned, removed, pinnedMap, pinners>>

(* A number, or an empty value. *)
StageValue(c) ==
  /\ at[c] \in Fields
  /\ message[c][at[c]] = Zero
  /\ Goto(c, "stage", "stage")
  /\ at' = [at EXCEPT ![c] = @ + 1]
  /\ UNCHANGED <<kind, message, owned, removed, pinnedMap, pinners>>

(* registerPinned: the Pinner first, the table next. *)
Pin(c) ==
  /\ at[c] \in Fields
  /\ message[c][at[c]] # Zero
  /\ Goto(c, "stage", "store")
  /\ pinners' = pinners \cup {<<c, at[c]>>}
  /\ UNCHANGED <<kind, message, at, owned, removed, pinnedMap>>

LoadOrStore(c) ==
  LET a == message[c][at[c]] IN
  /\ pc[c] = "store"
  /\ pinnedMap[a] = NoEntry
  /\ Goto(c, "store", "stage")
  /\ pinnedMap' = [pinnedMap EXCEPT ![a] = <<c, at[c]>>]
  /\ owned' = [owned EXCEPT ![c] = @ \cup {at[c]}]
  /\ at' = [at EXCEPT ![c] = @ + 1]
  /\ UNCHANGED <<kind, message, removed, pinners>>

AlreadyPinnedOwned(c) ==
  /\ pc[c] = "store"
  /\ pinnedMap[message[c][at[c]]] # NoEntry
  /\ Goto(c, "store", "conflict")
  /\ owned' = [owned EXCEPT ![c] = @ \cup {at[c]}]
  /\ UNCHANGED <<kind, message, at, removed, pinnedMap, pinners>>

(* "already pinned": somebody else's entry stays as it is. *)
AlreadyPinned(c) ==
  /\ pc[c] = "store"
  /\ pinnedMap[message[c][at[c]]] # NoEntry
  /\ Goto(c, "store", "conflict")
  /\ UNCHANGED <<kind, message, at, owned, removed, pinnedMap, pinners>>

(* The new Pinner is undone, then every field pinned before is released. *)
ForgetConflict(c) ==
  /\ Goto(c, "conflict", "release")
  /\ UNCHANGED <<kind, message, at, owned, removed, pinnedMap, pinners>>
UndoConflict(c) ==
  /\ Goto(c, "conflict", "release")
  /\ pinners' = pinners \ {<<c, at[c]>>}
  /\ UNCHANGED <<kind, message, at, owned, removed, pinnedMap>>

(* A request is checked field by field: a length beyond int32 is found     *)
(* after fields before it were pinned.                                     *)
LengthFails(c) ==
  /\ kind[c] = "request"
  /\ at[c] \in Fields
  /\ Goto(c, "stage", "release")
  /\ UNCHANGED <<kind, message, at, owned, removed, pinnedMap, pinners>>

Staged(c) ==
  /\ at[c] = NFields + 1
  /\ Goto(c, "stage", "staged")
  /\ UNCHANGED <<kind, message, at, owned, removed, pinnedMap, pinners>>

(* All outputs are committed at once; the callback or the C server runs.   *)
Hand(c) ==
  /\ Goto(c, "staged", "held")
  /\ UNCHANGED <<kind, message, at, owned, removed, pinnedMap, pinners>>

(* BeginCallback refused: the stream was canceled. *)
Refused(c) ==
  /\ kind[c] = "callback"
  /\ Goto(c, "staged", "release")
  /\ UNCHANGED <<kind, message, at, owned, removed, pinnedMap, pinners>>

(* The C client is done with the response, onRecv or the C server returned.*)
HandBack(c) ==
  /\ Goto(c, "held", "release")
  /\ UNCHANGED <<kind, message, at, owned, removed, pinnedMap, pinners>>

(* Release by address, whoever's entry is there: LoadAndDelete, then Unpin.*)
LoadAndDelete(c) ==
  \E i \in owned[c] :
    /\ Goto(c, "release", "unpin")
    /\ owned' = [owned EXCEPT ![c] = @ \ {i}]
    /\ removed' = [removed EXCEPT ![c] = pinnedMap[message[c][i]]]
    /\ pinnedMap' = [pinnedMap EXCEPT ![message[c][i]] = NoEntry]
    /\ UNCHANGED <<kind, message, at, pinners>>

Unpin(c) ==
  /\ Goto(c, "unpin", "release")
  /\ pinners' = pinners \ {removed[c]}
  /\ removed' = [removed EXCEPT ![c] = NoEntry]
  /\ UNCHANGED <<kind, message, at, owned, pinnedMap>>

Done(c) ==
  /\ owned[c] = {}
  /\ Goto(c, "release", "idle")
  /\ kind' = [kind EXCEPT ![c] = "response"]
  /\ message' = [message EXCEPT ![c] = EmptyMessage]
  /\ at' = [at EXCEPT ![c] = 1]
  /\ UNCHANGED <<owned, removed, pinnedMap, pinners>>

Next ==
  \E c \in Calls :
    \/ Begin(c) \/ StageValue(c) \/ Pin(c) \/ LoadOrStore(c) \/ AlreadyPinned(c)
    \/ UndoConflict(c) \/ LengthFails(c) \/ Staged(c) \/ Hand(c) \/ Refused(c)
    \/ HandBack(c) \/ LoadAndDelete(c) \/ Unpin(c) \/ Done(c)

Spec == Init /\ [][Next]_vars

-----------------------------------------------------------------------------
(* Memory that C holds is pinned, and its address leads to the entry of    *)
(* the very call that handed it out: no other call's failure or release    *)
(* takes it away, although releases go by address.                         *)
HeldIsPinned ==
  \A c \in Calls : pc[c] = "held" =>
    \A i \in Fields : message[c][i] # Zero =>
      pinnedMap[message[c][i]] = <<c, i>> /\ <<c, i>> \in pinners

(* A call that is over, however it ended, left nothing pinned and nothing  *)
(* in the table.                                                           *)
NothingLeftPinned ==
  \A c \in Calls : pc[c] = "idle" =>
    /\ \A e \in pinners : e[1] # c
    /\ \A a \in Addresses : pinnedMap[a] # NoEntry => pinnedMap[a][1] # c

=============================================================================
