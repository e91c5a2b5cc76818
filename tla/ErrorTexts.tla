------------------------------ MODULE ErrorTexts ------------------------------
(***************************************************************************)
(* What the ErrorIDs that exports return promise to the C clients that     *)
(* take the texts of the errors: an id leads to one error at a time, from  *)
(* the call that returned it until somebody takes the text or the error    *)
(* expires, and a text is given out once and held until it is given back.  *)
(***************************************************************************)
CONSTANTS Errors, Ids

VARIABLES
  texts,    \* of every id that leads to an error, the error
  opened,   \* the errors that had an id so far
  expired,  \* those whose time is over
  held      \* those whose text a client has and has yet to give back

vars == <<texts, opened, expired, held>>

Init ==
  /\ texts = [id \in {} |-> id]
  /\ opened = {} /\ expired = {} /\ held = {}

Closed(id) == [i \in DOMAIN texts \ {id} |-> texts[i]]

(* An error gets an id that leads to no other.  It may have expired before *)
(* the call that opens it returns.                                         *)
Open(e, id) ==
  /\ e \notin opened /\ id \notin DOMAIN texts
  /\ texts' = [i \in DOMAIN texts \cup {id} |-> IF i = id THEN e ELSE texts[i]]
  /\ opened' = opened \cup {e}
  /\ expired' \in {expired, expired \cup {e}}
  /\ UNCHANGED held

Expire(some) ==
  /\ expired' = expired \cup some
  /\ UNCHANGED <<texts, opened, held>>

(* Only an error that has expired is lost without being taken. *)
Drop(id) ==
  /\ id \in DOMAIN texts /\ texts[id] \in expired
  /\ texts' = Closed(id)
  /\ UNCHANGED <<opened, expired, held>>

Take(id) ==
  /\ id \in DOMAIN texts
  /\ texts' = Closed(id)
  /\ held' = held \cup {texts[id]}
  /\ UNCHANGED <<opened, expired>>

GiveBack(e) ==
  /\ e \in held
  /\ held' = held \ {e}
  /\ UNCHANGED <<texts, opened, expired>>

Next ==
  \/ \E e \in Errors, id \in Ids : Open(e, id)
  \/ \E some \in SUBSET opened : Expire(some)
  \/ \E id \in Ids : Drop(id) \/ Take(id)
  \/ \E e \in Errors : GiveBack(e)

Spec == Init /\ [][Next]_vars

=============================================================================
