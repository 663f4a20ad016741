---------------------------- MODULE DdsTranslator ----------------------------
(***************************************************************************)
(* The topics, QoS profiles and payloads of the DDS gateway.  A topic is a *)
(* string; it is modelled by the sequence of what stands between its       *)
(* slashes, so that a name spelled like a default topic is that topic.     *)
(***************************************************************************)
EXTENDS MessageTranslator, ServiceMappings

DdsTopic(service, instance, kind, method) ==
  <<<<"opensomeip">>, <<"svc">>, format_service_id(service), <<"inst">>,
    format_service_id(instance), kind, format_service_id(method)>>

\* Mutant: readers use the topics of methods.
ReaderOfMethods(service, instance, method) == DdsTopic(service, instance, <<"method">>, method)

\* The three-argument build_dds_topic, for readers ...
build_reader_topic(service, instance, method) == DdsTopic(service, instance, <<"m">>, method)

\* Mutant: one topic for the events and the methods of a service.
TopicWithoutKind(service, instance, method, msg) ==
  DdsTopic(service, instance, <<"method">>, method)

\* ... and the one with a message, for writers.
build_dds_topic(service, instance, method, msg) ==
  DdsTopic(service, instance, IF msg.type = NOTIFICATION THEN <<"event">> ELSE <<"method">>, method)

Qos(reliability, durability, depth) ==
  [reliability |-> reliability, durability |-> durability, depth |-> depth]

qos_for_someip_message(msg, transport_is_tcp) ==
  CASE msg.type = NOTIFICATION ->
         Qos(IF transport_is_tcp THEN "Reliable" ELSE "BestEffort", "Volatile", 1)
    [] msg.type \in {REQUEST, RESPONSE, ERROR} -> Qos("Reliable", "Volatile", 16)
    [] OTHER -> Qos("BestEffort", "Volatile", 8)

qos_for_service_mapping(mapping, writer_side) ==
  CASE writer_side /\ should_forward_to_external(mapping) ->
         IF mapping.groups # <<>> /\ mapping.methods = <<>>
         THEN Qos("BestEffort", "Volatile", 1)
         ELSE Qos("Reliable", "TransientLocal", 8)
    [] ~writer_side /\ should_forward_to_someip(mapping) -> Qos("Reliable", "Volatile", 16)
    [] OTHER -> Qos("Reliable", "Volatile", IF writer_side THEN 8 ELSE 16)

\* Cyclone DDS: a reader matches the writers that offer what it asks for.
Matches(writer, reader) ==
  /\ reader.reliability = "Reliable" => writer.reliability = "Reliable"
  /\ reader.durability = "TransientLocal" => writer.durability = "TransientLocal"

-----------------------------------------------------------------------------
encode_outbound(msg, typed) == IF typed THEN payload_to_json(msg) ELSE msg.payload

bridge_someip_to_payload(msg) == encode_outbound(msg, FALSE)

bridge_sample_to_someip(service, method, type, payload) ==
  Message(service, method, 0, 1, type, payload)
=============================================================================
