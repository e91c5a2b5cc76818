----------------------------- MODULE ServicePlan -----------------------------
(***************************************************************************)
(* What the generator decides about a service before it renders anything:  *)
(* the options in the service's comment, the ways to register a server     *)
(* that are generated for them, the kinds of server the generated entry    *)
(* points dispatch to, and the operations of each kind of method.  The     *)
(* code decides each of these in a place of its own; the generated program *)
(* is sound only if the places agree.                                      *)
(***************************************************************************)
EXTENDS Naturals, Sequences

Tokens == {"msg-connect", "msg-grpc", "native"}
Selections == [transport : {"connect", "grpc"}, native : BOOLEAN]
Rejected == [transport |-> "none", native |-> FALSE]

(***************************************************************************)
(* A comment is the sequence of its @rpccgo directives and a directive the *)
(* sequence of its tokens.  A token that is empty, unknown or holds a ':'  *)
(* is any string outside Tokens; an empty directive has one such token.    *)
(***************************************************************************)
Seen(directive) == {directive[i] : i \in DOMAIN directive}
Effective(directive) ==
  IF Seen(directive) = {"native"} THEN {"native", "msg-connect"} ELSE Seen(directive)
DirectiveFails(directive) ==
  Seen(directive) \ Tokens # {} \/ {"msg-connect", "msg-grpc"} \subseteq Effective(directive)
Selection(directive) ==
  [transport |-> IF "msg-grpc" \in Effective(directive) THEN "grpc" ELSE "connect",
   native |-> "native" \in Effective(directive)]

ParseOptions(comment) ==
  IF comment = <<>> THEN [transport |-> "connect", native |-> FALSE]
  ELSE IF \E i \in DOMAIN comment :
            DirectiveFails(comment[i]) \/ Selection(comment[i]) # Selection(comment[1])
    THEN Rejected
    ELSE Selection(comment[1])

-----------------------------------------------------------------------------
(***************************************************************************)
(* Registration sources, each named by the kind of server it registers.    *)
(***************************************************************************)
CGOKinds == {"cgo_native", "cgo_message"}
Kinds == {"go_native", "connect", "connect_remote", "grpc", "grpc_remote"} \cup CGOKinds

TransportKinds(selection) ==
  IF selection.transport = "connect" THEN {"connect", "connect_remote"} ELSE {"grpc", "grpc_remote"}

RegistrationSources(selection) ==
  {"cgo_message"}
    \cup (IF selection.native THEN {"go_native", "cgo_native"} ELSE {})
    \cup TransportKinds(selection)

(* The cases of the generated switch over the current server's kind. *)
RoutesWithoutCGONative(selection) ==
  {"cgo_message"}
    \cup (IF selection.native THEN {"go_native"} ELSE {})
    \cup TransportKinds(selection)
Routes(selection) ==
  {"cgo_message"}
    \cup (IF selection.native THEN {"go_native", "cgo_native"} ELSE {})
    \cup (RegistrationSources(selection) \cap {"connect", "connect_remote", "grpc", "grpc_remote"})

-----------------------------------------------------------------------------
(***************************************************************************)
(* Methods.  The capabilities of a kind of method make the shape of its    *)
(* generated stream type; the C callbacks of a cgo server are listed by    *)
(* kind.                                                                   *)
(***************************************************************************)
Capabilities(streaming) ==
  CASE streaming = "unary" -> {}
    [] streaming = "client_streaming" -> {"send", "finishReturnsResponse"}
    [] streaming = "server_streaming" -> {"recv"}
    [] streaming = "bidi_streaming" -> {"send", "recv", "closeSend"}

Shape(capabilities) ==
  CASE capabilities = {} -> "unary"
    [] {"send", "finishReturnsResponse"} \subseteq capabilities -> "client"
    [] "recv" \in capabilities /\ "send" \notin capabilities -> "server"
    [] OTHER -> "bidi"

(* What a bridge of a shape takes from the adapter when a stream starts. *)
BridgeOperations(shape) ==
  CASE shape = "unary" -> {"unary"}
    [] shape = "client" -> {"start", "send", "finish", "cancel"}
    [] shape = "server" -> {"start", "recv", "finish", "cancel"}
    [] shape = "bidi" -> {"start", "send", "recv", "closeSend", "finish", "cancel"}

(* The callbacks a registration has to bring for a method. *)
CallbackOperations(streaming) ==
  CASE streaming = "unary" -> {"unary"}
    [] streaming = "client_streaming" -> {"start", "send", "finish", "cancel"}
    [] streaming = "server_streaming" -> {"start", "recv", "finish", "cancel"}
    [] streaming = "bidi_streaming" -> {"start", "send", "recv", "closeSend", "finish", "cancel"}

=============================================================================
