----------------------------- MODULE HandleProbe -----------------------------
(***************************************************************************)
(* allocateLocked as the loop it is: at most MaxHandle probes, starting at *)
(* next, of a counter that wraps.                                          *)
(***************************************************************************)
EXTENDS StreamHandles

(* The handle that the loop looks at after it has skipped n handles. *)
Probed[n \in 0 .. MaxHandle] ==
  IF n = 0 THEN Normalize(next) ELSE Normalize(Increment(Probed[n - 1]))

(* It returns the first one that is not in use. *)
Unused == {n \in 0 .. MaxHandle - 1 : Probed[n] \notin DOMAIN entries}
AllocateLocked ==
  IF Unused = {} THEN None
  ELSE Probed[CHOOSE n \in Unused : \A m \in Unused : n <= m]

(* The loop finds exactly the handle that Create takes, and gives up       *)
(* exactly when CreateFails does.                                          *)
ProbeAgrees ==
  IF AllocateLocked = None
    THEN Full
    ELSE {h \in Handles : Allocated(h)} = {AllocateLocked}

=============================================================================
