-------------------------- MODULE CallbackDelivery --------------------------
(***************************************************************************)
(* What a callback receive stream promises to the owner of its two         *)
(* callbacks, onRecv and onDone (CONTEXT.md, "Callback receive stream"):   *)
(* callbacks never overlap, onDone is called at most once and is the last  *)
(* one, an application cancellation ends onRecv but still allows onDone,   *)
(* and a close of the callback owner ends both.                            *)
(***************************************************************************)

VARIABLES
  running,     \* the callback that is executing, or "none"
  doneCalled,  \* onDone has been called
  stopped,     \* a Cancel or a Finish has promised: no more onRecv
  closed       \* a Close has promised: no more callbacks at all

vars == <<running, doneCalled, stopped, closed>>

Init ==
  /\ running = "none"
  /\ doneCalled = FALSE
  /\ stopped = FALSE
  /\ closed = FALSE

CallOnRecv ==
  /\ running = "none"
  /\ ~stopped /\ ~closed /\ ~doneCalled
  /\ running' = "onRecv"
  /\ UNCHANGED <<doneCalled, stopped, closed>>

CallOnDone ==
  /\ running = "none"
  /\ ~closed /\ ~doneCalled
  /\ running' = "onDone"
  /\ doneCalled' = TRUE
  /\ UNCHANGED <<stopped, closed>>

Return ==
  /\ running # "none"
  /\ running' = "none"
  /\ UNCHANGED <<doneCalled, stopped, closed>>

(* A promise is given only while the callbacks it rules out are not running. *)
Stop ==
  /\ running # "onRecv"
  /\ stopped' = TRUE
  /\ UNCHANGED <<running, doneCalled, closed>>

Close ==
  /\ running = "none"
  /\ closed' = TRUE
  /\ UNCHANGED <<running, doneCalled, stopped>>

Next == CallOnRecv \/ CallOnDone \/ Return \/ Stop \/ Close

Spec == Init /\ [][Next]_vars

=============================================================================
