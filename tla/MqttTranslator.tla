--------------------------- MODULE MqttTranslator ---------------------------
(***************************************************************************)
(* The topics and payload encodings of the MQTT gateway.                   *)
(***************************************************************************)
EXTENDS MessageTranslator

PayloadEncoding == {"RAW", "JSON", "SOMEIP_FRAMED"}

-----------------------------------------------------------------------------
(* Topics, after the prefix, the VIN and "someip".                         *)

build_mqtt_topic(service, instance, method, request) ==
  LET of == <<format_service_id(service), format_service_id(instance)>>
  IN  IF request THEN of \o <<<<"method">>, format_service_id(method), <<"request">>>>
                 ELSE of \o <<<<"event">>, format_service_id(method)>>

build_topic_with_vin(service, instance, method) == build_topic(service, instance, method)

build_rpc_request_topic(service, instance, method) ==
  build_topic_with_vin(service, instance, method) \o <<<<"rpc">>, <<"req">>>>

build_rpc_response_topic(service, instance, method) ==
  build_topic_with_vin(service, instance, method) \o <<<<"rpc">>, <<"rsp">>>>

-----------------------------------------------------------------------------
(* Payloads.                                                               *)

encode_payload(msg, encoding) ==
  CASE encoding = "JSON" -> payload_to_json(msg)
    [] encoding = "SOMEIP_FRAMED" -> serialize(msg)
    [] OTHER -> msg.payload

decode_payload(bytes, encoding) ==
  CASE encoding = "JSON" -> json_to_payload(bytes)
    [] encoding = "SOMEIP_FRAMED" -> IF IsFrame(bytes) THEN deserialize(bytes).payload ELSE <<>>
    [] OTHER -> bytes

\* Mutant: the frame is taken for the payload.
DecodeUnframed(bytes, encoding) == Message(0, 0, 0, 1, REQUEST, bytes)

\* Only a frame says which service and method are meant.
decode_inbound(bytes, encoding) ==
  IF encoding = "SOMEIP_FRAMED"
  THEN IF IsFrame(bytes) THEN deserialize(bytes) ELSE EmptyMessage
  ELSE Message(0, 0, 0, 1, REQUEST, decode_payload(bytes, encoding))

someip_to_mqtt(msg, instance, encoding) ==
  LET topic == build_topic_with_vin(msg.service, instance, msg.method)
  IN  [someip_to_external(msg, topic) EXCEPT !.payload = encode_payload(msg, encoding)]

build_correlation_data(client, session) ==
  <<client \div 256, client % 256, session \div 256, session % 256>>
=============================================================================
