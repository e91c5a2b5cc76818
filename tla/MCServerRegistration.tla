------------------------- MODULE MCServerRegistration -------------------------
EXTENDS ServerRegistration, TLC

(* No directive, each selection, a repeated one, and comments that are     *)
(* refused: two transports, an unknown token, directives that disagree.    *)
MCComments ==
  {<<>>, <<<<"native">>>>, <<<<"msg-grpc">>>>, <<<<"msg-grpc", "native">>>>,
   <<<<"msg-connect", "native">>, <<"native">>>>,
   <<<<"msg-connect", "msg-grpc">>>>, <<<<"msg-connect", "">>>>,
   <<<<"msg-connect">>, <<"native">>>>}

Symmetry == Permutations(Threads)
=============================================================================
