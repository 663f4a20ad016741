-------------------------- MODULE MessageTranslator --------------------------
(***************************************************************************)
(* The translator every gateway shares: SOME/IP messages to and from       *)
(* external messages, and the names of topics.  A message is a record of   *)
(* its ids, type and payload, a payload the sequence of its bytes.  A      *)
(* topic is the sequence of its segments after the configured prefix; a    *)
(* segment is one word, or the text of a number: the sequence of its       *)
(* characters, a digit as its value and a letter as the digit it would be  *)
(* in base 36.  A JSON text is the sequence of its values between two      *)
(* marks no byte equals, a serialized SOME/IP message (someip::Message,    *)
(* external) the sequence of its fields after another.                     *)
(***************************************************************************)
EXTENDS Integers, Sequences

\* someip::MessageType, by its code on the wire.
REQUEST == 0
REQUEST_NO_RETURN == 1
NOTIFICATION == 2
RESPONSE == 128
ERROR == 129
\* Segments of a longer message.
TP_REQUEST == 32
TP_REQUEST_NO_RETURN == 33
TP_NOTIFICATION == 34
MessageType == {REQUEST, REQUEST_NO_RETURN, NOTIFICATION, RESPONSE, ERROR,
                TP_REQUEST, TP_REQUEST_NO_RETURN, TP_NOTIFICATION}

Message(service, method, client, session, type, payload) ==
  [service |-> service, method |-> method, client |-> client, session |-> session,
   type |-> type, payload |-> payload]

\* someip::Message::serialize and deserialize.
FRAME == 1001
serialize(msg) ==
  <<FRAME, msg.service, msg.method, msg.client, msg.session, msg.type>> \o msg.payload
IsFrame(bytes) == Len(bytes) >= 6 /\ bytes[1] = FRAME
deserialize(bytes) ==
  Message(bytes[2], bytes[3], bytes[4], bytes[5], bytes[6], SubSeq(bytes, 7, Len(bytes)))
EmptyMessage == Message(0, 0, 0, 0, REQUEST, <<>>)

is_request(msg) == msg.type = REQUEST

-----------------------------------------------------------------------------
(* Numbers as text: four hexadecimal digits, padded with zeros.            *)

Hex4(v) == <<(v \div 4096) % 16, (v \div 256) % 16, (v \div 16) % 16, v % 16>>

\* "0x" and the digits.
X == 33
format_service_id(id) == <<0, X>> \o Hex4(id)

\* Mutant: the instance is left out of the topic.
TopicWithoutInstance(service, instance, method) ==
  <<format_service_id(service), format_service_id(method)>>

build_topic(service, instance, method) ==
  <<format_service_id(service), format_service_id(instance), format_service_id(method)>>

\* "cccc-ssss": the client and the session of a request; the hyphen is 45.
CorrelationId(msg) == Hex4(msg.client) \o <<45>> \o Hex4(msg.session)

-----------------------------------------------------------------------------
(* Messages.                                                               *)

someip_to_external(msg, topic) ==
  [topic |-> topic, payload |-> msg.payload,
   service |-> msg.service, method |-> msg.method, instance |-> 0,
   is_request |-> is_request(msg), is_notification |-> msg.type = NOTIFICATION,
   correlation_id |-> CorrelationId(msg)]

\* Every message that comes from outside is session 1 of client 0.
external_to_someip(ext, service, method, type) ==
  Message(service, method, 0, 1, type, ext.payload)

JSON == 1000

payload_to_json(msg) ==
  <<JSON, msg.service, msg.method, msg.client, msg.session, msg.type>> \o msg.payload \o <<JSON>>

\* The text is taken for the payload: nothing parses it.
json_to_payload(json) == json
=============================================================================
