--------------------------- MODULE MCStreamHandles ---------------------------
EXTENDS HandleProbe, TLC

Symmetry == Permutations(Threads)

(* Two threads race over two streams of any shape; a single thread goes on *)
(* to four server streams, past the largest handle.                        *)
Bounded ==
  /\ \A s \in Streams : s > 2 => shape[s] = "server"
  /\ \/ started <= 2
     \/ /\ \A s \in Streams : shape[s] = "server"
        /\ \A t, u \in Threads : t # u => op[t] = "none" \/ op[u] = "none"
=============================================================================
