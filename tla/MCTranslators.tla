---------------------------- MODULE MCTranslators ----------------------------
(***************************************************************************)
(* The translators over their inputs.  For Zenoh: ids on both sides of     *)
(* each boundary of the CBOR encoding of a number, payloads on both sides  *)
(* of the boundary of a short byte string.  For gRPC: all codes and all    *)
(* unary requests.  For iceoryx2: samples cut short at every byte, or      *)
(* followed by others.  For the names: pairs of addresses.                 *)
(***************************************************************************)
EXTENDS ZenohTranslator, GrpcTranslator, FiniteSets, MqttTranslator, Iceoryx2Translator, DbusTranslator,
        DdsTranslator, Ros2Translator, GatewayConfig

Ids == {0, 1, 23, 24, 255, 256, 65535}
Payload(n) == [k \in 1 .. n |-> (37 * k) % 256]
OfLength(lengths) ==
  [service : Ids, method : Ids, type : {0, 2, 128}, payload : {Payload(n) : n \in lengths}]

ShortMessages == OfLength({0, 1, 23})
LongMessages == OfLength({24, 255, 256})
MCAddresses == [service : {0, 255, 65535}, instance : {1}, method : {0, 32769}]
OneAddress == [service : {1}, instance : {1}, method : {32769}]

\* "", "/", "car", "car/", "car/a" and "car/a1": without, and with, text that is
\* hexadecimal.
Car == <<12, 10, 27>>
MCPrefixes == {<<NoSegment>>, <<NoSegment, NoSegment>>, <<Car>>, <<Car, NoSegment>>, <<Car, <<10>>>>,
               <<Car, <<10, 1>>>>}
OnePrefix == {<<Car>>}

Prefix == <<<<"org">>, <<"car">>, <<"">>>>

\* A message of each type, around the limit of a sample's payload.
SomeMessages ==
  {Message(s, m, c, n, t, p) : s \in {1, 65535}, m \in {256}, c \in {0, 43981}, n \in {1, 4096},
     t \in MessageType, p \in {Payload(k) : k \in {0, 1, MaxPayload, MaxPayload + 1}}}

FewAddresses == [service : {1, 16, 40960}, instance : {1, 16}, method : {1, 4096}]
Types == {"bool", "uint8", "u8", "int64", "float", "double", "utf8", "blob"}
DirectionParts == {"", "someip", "external", "mqtt"}
Directions == UNION {[1 .. n -> DirectionParts] : n \in 1 .. 3}

VARIABLE input  \* the input of the other translators

\* A run is about one input of one translator; the others than Zenoh's are tables
\* and functions, looked at in the initial state.
NoZenohInput ==
  /\ msg = CHOOSE m \in Messages : TRUE
  /\ address = CHOOSE a \in Addresses : TRUE
  /\ prefix = CHOOSE p \in KeyPrefixes : TRUE
  /\ wire = <<>> /\ decoded = <<>> /\ keys = <<>> /\ parsed = <<>>
  /\ step = "unused"

MCInit ==
  \/ Init /\ input = [kind |-> "none"]
  \/ /\ NoZenohInput
     /\ \/ input \in [kind : {"code"}, return : ReturnCode, status : StatusCode]
        \/ input \in [kind : {"unary"}, request : UnaryRequest]
        \/ input \in [kind : {"sample"}, msg : SomeMessages, instance : {258},
                      mode : {OPAQUE, TYPED}, cut : 0 .. 53]
        \/ input \in [kind : {"cross"}, msg : SomeMessages, other : SomeMessages]
        \/ input \in [kind : {"names"}, a : FewAddresses, b : FewAddresses]
        \/ input \in [kind : {"types"}, a : Types \X Types, b : Types \X Types]
        \/ input \in [kind : {"config"}, level : LogLevel, mode : TranslationMode,
                      direction : Direction, text : Directions]
        \/ input \in [kind : {"number"}, id : Ids \cup {10, 65536, 65546, 1048575}, zeros : {0, 1, 3},
                      before : {<<>>, <<SPACE>>, <<SPACE, PLUS>>, <<MINUS>>}, after : {<<>>, <<X>>, <<SPACE, 1>>}]

MCNext == Next /\ UNCHANGED input

MCSpec == MCInit /\ [][MCNext]_<<vars, input>>

\* A code that crosses the gateway, and crosses back, is not changed by further
\* crossings: the two tables agree on what each gRPC status stands for.
CrossingIsStable ==
  input.kind = "code" =>
    LET Back(c) == grpc_status_code_to_return_code(return_code_to_grpc_status_code(c))
        there == grpc_status_code_to_return_code(input.status)
    IN  Back(there) = there /\ Back(Back(input.return)) = Back(input.return)

\* A client that reads both the status and the envelope's return code learns of
\* every failed call, and a refused request never reaches the vehicle.
UnaryFailureVisible ==
  input.kind = "unary" =>
    LET q == input.request
        r == UnarySomeIp(q)
    IN  /\ r.called => q.has_envelope /\ q.valid /\ q.e2e_ok /\ q.is_request /\ q.target = ""
        /\ r.called /\ r.reply = "E_OK" => rpc_result_to_grpc_status_code(q.result) = "OK"
        /\ q.target = "" /\ r.status = "OK" => r.called /\ r.recorded = 1

\* A sample is parsed to the envelope it was made from, or not at all: wherever a
\* slice of shared memory cuts it short, the parser does not read past the end
\* and gives no partial envelope; what follows the sample is ignored.  A payload
\* over the parser's limit, which the serializer does not have, is refused.
SampleAllOrNothing ==
  input.kind = "sample" =>
    LET sample == someip_to_sample(input.msg, input.instance, input.mode)
        data == IF input.cut <= Len(sample) THEN SubSeq(sample, 1, input.cut)
                                            ELSE sample \o <<83, 73, 80, 49>>
        parsed_sample == parse_sample(data)
        payload == encode_outbound(input.msg, input.mode = TYPED)
    IN  /\ parsed_sample.ok <=> input.cut >= Len(sample) /\ Len(payload) <= MaxPayload
        /\ parsed_sample.ok =>
             /\ LET ext == envelope_to_external(parsed_sample.env, <<>>)
                IN  ext.instance = input.instance /\ ext.payload = payload
             /\ envelope_to_someip(parsed_sample.env) = [input.msg EXCEPT !.payload = payload]

\* A message that is sent opaquely through two gateways of one kind arrives with
\* its payload, and with its ids where the encoding carries them; on Zenoh events
\* and calls keep to their own keys; a correlation id tells any two requests apart.
MessageCrosses ==
  input.kind = "cross" =>
    LET m == input.msg
        o == input.other
        ext == someip_to_external(m, <<>>)
        envelope == message_to_envelope(m)
        on_zenoh(e) == someip_to_zenoh(m, <<Car>>, [service |-> m.service, instance |-> 7], e)
        SameRequest == m.client = o.client /\ m.session = o.session
    IN  /\ decode_inbound(encode_payload(m, "SOMEIP_FRAMED"), "SOMEIP_FRAMED") = m
        /\ decode_inbound(someip_to_mqtt(m, 1, "RAW").payload, "RAW").payload = m.payload
        /\ external_to_someip(ext, m.service, m.method, m.type) = [m EXCEPT !.client = 0, !.session = 1]
        /\ bridge_sample_to_someip(m.service, m.method, m.type, bridge_someip_to_payload(m)).payload
             = m.payload
        /\ convert_ros2_bytes_to_someip(convert_someip_to_ros2_bytes(m), o).payload = m.payload
        /\ envelope_to_message(envelope) = [ok |-> TRUE, msg |-> m]
        /\ envelope_to_message([message_to_envelope(o) EXCEPT !.frame = serialize(m)]).msg = m
        /\ \A e \in ZenohEncoding :
             LET key == parse_someip_key(on_zenoh(e).topic, <<Car>>)
                 back == zenoh_to_someip(on_zenoh(e), key.service, NOTIFICATION, e)
             IN  /\ key.kind = (IF m.type \in {NOTIFICATION, TP_NOTIFICATION} THEN "event" ELSE "rpc")
                 /\ key.instance = 7 /\ (on_zenoh(e).is_notification <=> key.kind = "event")
                 /\ back = Message(m.service, m.method, 0, 1,
                                   IF e = "CBOR" THEN m.type ELSE NOTIFICATION, m.payload)
        /\ ext.correlation_id = someip_to_external(o, <<>>).correlation_id <=> SameRequest
        /\ build_correlation_data(m.client, m.session) = build_correlation_data(o.client, o.session)
             <=> SameRequest

\* The topics, services and objects of two addresses are never taken for one
\* another, nor are the families of one address; the D-Bus signature of an
\* argument list splits into those of its types.
NamesIdentify ==
  /\ input.kind = "names" =>
       LET a == input.a
           b == input.b
           Mqtt(x) == {build_mqtt_topic(x.service, x.instance, x.method, TRUE),
                       build_mqtt_topic(x.service, x.instance, x.method, FALSE),
                       build_topic_with_vin(x.service, x.instance, x.method),
                       build_rpc_request_topic(x.service, x.instance, x.method),
                       build_rpc_response_topic(x.service, x.instance, x.method)}
           Iceoryx2(x) == {build_iceoryx2_service_name(x.service, x.instance, x.method, k) :
                             k \in {"N", "P", "R"}}
           Dds(x) == {build_reader_topic(x.service, x.instance, x.method)}
                     \cup {build_dds_topic(x.service, x.instance, x.method, [type |-> t]) :
                             t \in {NOTIFICATION, REQUEST}}
           Ros2(x) == {build_ros2_topic(x.service, x.instance, x.method)}
           Object(x) == <<build_bus_name(x.service, x.instance), build_object_path(x.service, x.instance)>>
       IN  /\ Cardinality(Mqtt(a)) = 5 /\ Cardinality(Iceoryx2(a)) = 3 /\ Cardinality(Dds(a)) = 3
           /\ a # b => /\ Mqtt(a) \cap Mqtt(b) = {} /\ Iceoryx2(a) \cap Iceoryx2(b) = {}
                       /\ Dds(a) \cap Dds(b) = {} /\ Ros2(a) # Ros2(b)
           /\ a.service # b.service => build_interface_name(a.service) # build_interface_name(b.service)
           /\ \A k \in 1 .. 2 : Object(a)[k] = Object(b)[k]
                => a.service = b.service /\ a.instance = b.instance
  /\ input.kind = "types" =>
       (build_signature_from_someip_types(input.a) = build_signature_from_someip_types(input.b)
        => \A k \in 1 .. 2 : someip_type_to_dbus_signature(input.a[k])
                            = someip_type_to_dbus_signature(input.b[k]))

\* The digits of a number in a base, after some zeros.
DigitsOf(n, base, zeros) ==
  LET digits == Dropping([k \in 1 .. 7 |-> (n \div base ^ (7 - k)) % base], {0})
  IN  [k \in 1 .. zeros |-> 0] \o (IF n = 0 THEN <<0>> ELSE digits)

\* A configuration that is written out and read again is the same, and a text that
\* names SOME/IP at one end only is read as the direction that starts or ends
\* there.  An id is read as it is from either notation, whatever zeros it has and
\* whatever follows it; spaces and a sign are read before a decimal number only,
\* and make a hexadecimal one 0; what does not fit in sixteen bits is cut, not
\* refused, and only a text without a number, or beyond sixty-four bits, throws.
ConfigRoundTrip ==
  /\ input.kind = "config" =>
       /\ parse_log_level(log_level_to_string(input.level)) = input.level
       /\ parse_direction(direction_to_string(input.direction)) = input.direction
       /\ parse_translation_mode(translation_mode_to_string(input.mode)) = input.mode
       /\ LET n == Len(input.text)
              from == n > 1 /\ input.text[1] = "someip"
              to == n > 1 /\ input.text[n] = "someip"
              d == parse_direction(input.text)
          IN  /\ from /\ ~to => d = "SOMEIP_TO_EXTERNAL"
              /\ to /\ ~from /\ input.text[1] # "" => d = "EXTERNAL_TO_SOMEIP"
              /\ d = "BIDIRECTIONAL" => ~from
  /\ input.kind = "number" =>
       LET decimal == input.before \o DigitsOf(input.id, 10, input.zeros) \o input.after
           hex == input.before \o <<0, X>> \o DigitsOf(input.id, 16, input.zeros) \o input.after
           Read(v) == [ok |-> TRUE, value |-> v % 65536]
           signed == IF input.before = <<MINUS>> THEN 65536 * 16 - input.id ELSE input.id
       IN  /\ parse_hex_or_decimal(decimal) = Read(signed)
           /\ parse_hex_or_decimal(hex) = Read(IF input.before = <<>> THEN input.id ELSE 0)
           /\ parse_hex_or_decimal(input.before \o <<X>>) = Thrown("invalid_argument")
           /\ parse_hex_or_decimal(ULONG_MAX) = Read(65535)
           /\ \A digits \in {[ULONG_MAX EXCEPT ![20] = 6], <<0, X, 1>> \o [k \in 1 .. 16 |-> 0]} :
                parse_hex_or_decimal(input.before \o digits).ok => input.before # <<>> /\ digits[2] = X

\* The table "Error Code Mapping" of the gRPC gateway's README.
DocumentedStatus ==
  [E_OK |-> "OK", E_NOT_OK |-> "INTERNAL", E_UNKNOWN_SERVICE |-> "NOT_FOUND",
   E_UNKNOWN_METHOD |-> "UNIMPLEMENTED", E_NOT_READY |-> "UNAVAILABLE",
   E_MALFORMED_MESSAGE |-> "INVALID_ARGUMENT"]

\* "E_NOT_READY | UNAVAILABLE (14)": the code follows the README's table.
DocumentedMapping ==
  input.kind = "code" /\ input.return \in DOMAIN DocumentedStatus =>
    return_code_to_grpc_status_code(input.return) = DocumentedStatus[input.return]
=============================================================================
