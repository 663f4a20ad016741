--------------------------- MODULE GrpcTranslator ---------------------------
(***************************************************************************)
(* The translations GrpcGateway makes on the way of a unary call: SOME/IP  *)
(* return codes and gRPC status codes, messages and envelopes, and the     *)
(* decisions of UnarySomeIp.  A code that has no entry in a table is       *)
(* "other".                                                                *)
(***************************************************************************)
EXTENDS MessageTranslator

ReturnCode ==
  {"E_OK", "E_NOT_OK", "E_UNKNOWN_SERVICE", "E_UNKNOWN_METHOD", "E_NOT_READY",
   "E_NOT_REACHABLE", "E_TIMEOUT", "E_WRONG_PROTOCOL_VERSION", "E_WRONG_INTERFACE_VERSION",
   "E_MALFORMED_MESSAGE", "E_WRONG_MESSAGE_TYPE", "E_E2E_REPEATED", "E_E2E_WRONG_SEQUENCE",
   "E_E2E", "E_E2E_NOT_AVAILABLE", "E_E2E_NO_NEW_DATA", "other"}

StatusCode ==
  {"OK", "CANCELLED", "UNKNOWN", "INVALID_ARGUMENT", "DEADLINE_EXCEEDED", "NOT_FOUND",
   "ALREADY_EXISTS", "PERMISSION_DENIED", "RESOURCE_EXHAUSTED", "FAILED_PRECONDITION",
   "ABORTED", "OUT_OF_RANGE", "UNIMPLEMENTED", "INTERNAL", "UNAVAILABLE", "DATA_LOSS",
   "UNAUTHENTICATED", "other"}

RpcResult ==
  {"SUCCESS", "TIMEOUT", "NETWORK_ERROR", "INVALID_PARAMETERS", "METHOD_NOT_FOUND",
   "SERVICE_NOT_AVAILABLE", "INTERNAL_ERROR", "other"}

\* Mutant: a timeout is reported the way a failed precondition is.
TimeoutIsPrecondition(c) == CASE c = "E_OK" -> "OK" [] OTHER -> "FAILED_PRECONDITION"

return_code_to_grpc_status_code(c) ==
  CASE c = "E_OK" -> "OK"
    [] c = "E_NOT_OK" -> "INTERNAL"
    [] c = "E_UNKNOWN_SERVICE" -> "NOT_FOUND"
    [] c = "E_UNKNOWN_METHOD" -> "UNIMPLEMENTED"
    [] c = "E_TIMEOUT" -> "DEADLINE_EXCEEDED"
    [] c \in {"E_NOT_READY", "E_WRONG_PROTOCOL_VERSION", "E_WRONG_INTERFACE_VERSION",
              "E_E2E_NO_NEW_DATA"} -> "FAILED_PRECONDITION"
    [] c \in {"E_NOT_REACHABLE", "E_E2E_NOT_AVAILABLE"} -> "UNAVAILABLE"
    [] c \in {"E_MALFORMED_MESSAGE", "E_WRONG_MESSAGE_TYPE"} -> "INVALID_ARGUMENT"
    [] c \in {"E_E2E_REPEATED", "E_E2E_WRONG_SEQUENCE"} -> "ABORTED"
    [] c = "E_E2E" -> "DATA_LOSS"
    [] OTHER -> "UNKNOWN"

grpc_status_code_to_return_code(c) ==
  CASE c = "OK" -> "E_OK"
    [] c \in {"INVALID_ARGUMENT", "OUT_OF_RANGE"} -> "E_MALFORMED_MESSAGE"
    [] c = "DEADLINE_EXCEEDED" -> "E_TIMEOUT"
    [] c = "NOT_FOUND" -> "E_UNKNOWN_SERVICE"
    [] c \in {"RESOURCE_EXHAUSTED", "FAILED_PRECONDITION"} -> "E_NOT_READY"
    [] c \in {"ABORTED", "DATA_LOSS"} -> "E_E2E"
    [] c = "UNIMPLEMENTED" -> "E_UNKNOWN_METHOD"
    [] c = "UNAVAILABLE" -> "E_NOT_REACHABLE"
    [] OTHER -> "E_NOT_OK"

rpc_result_to_return_code(r) ==
  CASE r = "SUCCESS" -> "E_OK"
    [] r = "TIMEOUT" -> "E_TIMEOUT"
    [] r = "NETWORK_ERROR" -> "E_NOT_REACHABLE"
    [] r = "INVALID_PARAMETERS" -> "E_MALFORMED_MESSAGE"
    [] r = "METHOD_NOT_FOUND" -> "E_UNKNOWN_METHOD"
    [] r = "SERVICE_NOT_AVAILABLE" -> "E_UNKNOWN_SERVICE"
    [] OTHER -> "E_NOT_OK"

rpc_result_to_grpc_status_code(r) ==
  return_code_to_grpc_status_code(rpc_result_to_return_code(r))

-----------------------------------------------------------------------------
(* Envelopes.  The ids of an envelope are numbers of 32 bits.              *)

message_to_envelope(msg) ==
  [service |-> msg.service, method |-> msg.method, client |-> msg.client, session |-> msg.session,
   type |-> msg.type, payload |-> msg.payload, instance |-> 0, frame |-> <<>>]

\* A frame, when there is one, is all that counts.  has_valid_header (external) is
\* taken to ask for a message type of SOME/IP.
envelope_to_message(env) ==
  IF env.frame # <<>>
  THEN [ok |-> IsFrame(env.frame),
        msg |-> IF IsFrame(env.frame) THEN deserialize(env.frame) ELSE EmptyMessage]
  ELSE [ok |-> env.type % 256 \in MessageType,
        msg |-> Message(env.service % 65536, env.method % 65536, env.client % 65536,
                        env.session % 65536, env.type % 256, env.payload)]

-----------------------------------------------------------------------------
(* UnarySomeIp.  A request records how each of its checks comes out.       *)

UnaryRequest ==
  [has_envelope : BOOLEAN, valid : BOOLEAN, e2e_ok : BOOLEAN,
   target : {"", "known", "unknown"},        \* cloud_target_name
   cloud : StatusCode,                       \* what the cloud target answers
   method : {"no_server", "registered", "unregistered"},
   is_request : BOOLEAN, result : RpcResult]

\* An answer given without calling the vehicle.
Answer(status) == [status |-> status, called |-> FALSE, reply |-> "none", recorded |-> 0]

\* Mutant: the result of the call is not looked at.
UnaryAlwaysOk(q) == [status |-> "OK", called |-> TRUE, reply |-> "E_OK", recorded |-> 1]

\* The call to the vehicle and its answer: any result is an answer of status OK.
CallVehicle(q) ==
  [status |-> "OK", called |-> TRUE,
   reply |-> rpc_result_to_return_code(q.result), recorded |-> 1]

UnarySomeIp(q) ==
  IF ~q.has_envelope \/ ~q.valid THEN Answer("INVALID_ARGUMENT")
  ELSE IF ~q.e2e_ok THEN Answer(return_code_to_grpc_status_code("E_E2E"))
  ELSE IF q.target = "known" THEN Answer(q.cloud)
  ELSE IF q.target = "unknown" THEN Answer("NOT_FOUND")
  ELSE IF q.method = "unregistered" THEN Answer(return_code_to_grpc_status_code("E_UNKNOWN_METHOD"))
  ELSE IF ~q.is_request THEN Answer("INVALID_ARGUMENT")
  ELSE CallVehicle(q)
=============================================================================
