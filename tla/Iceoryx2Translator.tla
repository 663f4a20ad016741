------------------------- MODULE Iceoryx2Translator -------------------------
(***************************************************************************)
(* The samples of the iceoryx2 gateway: an envelope in front of a payload. *)
(* Numbers are big endian and a string follows its length (the Serializer  *)
(* and Deserializer of opensomeip, external).  A mode is its number.       *)
(***************************************************************************)
EXTENDS MessageTranslator

CONSTANT MaxPayload  \* 16 MiB in the code

OPAQUE == 0
TYPED == 1
kMagic == <<83, 73, 80, 49>>
CodeOf(c) == IF c = 45 THEN c ELSE IF c < 10 THEN 48 + c ELSE 87 + c

build_iceoryx2_service_name(service, instance, method, kind) ==
  Append(build_topic(service, instance, method), <<kind>>)

-----------------------------------------------------------------------------
(* Serializer and Deserializer.  A reader at index i of the data returns a *)
(* value and the next index, or no value.                                  *)

serialize_uint16(v) == <<(v \div 256) % 256, v % 256>>
serialize_uint32(v) == serialize_uint16(v \div 65536) \o serialize_uint16(v % 65536)
serialize_string(text) == serialize_uint32(Len(text)) \o text

get_remaining(data, i) == Len(data) + 1 - i
IsError(data, i, n) == get_remaining(data, i) < n
uint16At(data, i) == data[i] * 256 + data[i + 1]
uint32At(data, i) == uint16At(data, i) * 65536 + uint16At(data, i + 2)

-----------------------------------------------------------------------------
Envelope(mode, instance, msg, correlation, payload) ==
  [version |-> 1, mode |-> mode, service |-> msg.service, instance |-> instance,
   method |-> msg.method, type |-> msg.type, client |-> msg.client, session |-> msg.session,
   correlation |-> correlation, payload |-> payload]

serialize_envelope(env) ==
  kMagic \o <<env.version, env.mode>> \o serialize_uint16(env.service)
    \o serialize_uint16(env.instance) \o serialize_uint16(env.method) \o <<env.type, 0>>
    \o serialize_uint16(env.client) \o serialize_uint16(env.session)
    \o serialize_string(env.correlation)
    \o serialize_uint32(Len(env.payload)) \o env.payload

nullopt == [ok |-> FALSE]

\* Mutant: the payload is what there is of it.
PayloadUnchecked(data, i) ==
  IF IsError(data, i, 4) THEN nullopt
  ELSE LET n == uint32At(data, i)
       IN  [ok |-> TRUE, payload |-> SubSeq(data, i + 4, IF get_remaining(data, i + 4) < n
                                                         THEN Len(data) ELSE i + 3 + n)]

\* The length and the bytes it announces, which must all be there.
DeserializePayload(data, i) ==
  IF IsError(data, i, 4) THEN nullopt
  ELSE LET n == uint32At(data, i)
       IN  IF n > MaxPayload \/ get_remaining(data, i + 4) < n THEN nullopt
           ELSE [ok |-> TRUE, payload |-> SubSeq(data, i + 4, i + 3 + n)]

deserialize_envelope(data) ==
  LET corr == uint32At(data, 19)         \* the length of the correlation id
      rest == DeserializePayload(data, 23 + corr)
  IN  IF \/ IsError(data, 1, 4) \/ SubSeq(data, 1, 4) # kMagic
         \/ IsError(data, 5, 14)         \* version, mode, ids, type, pad, client, session
         \/ IsError(data, 19, 4) \/ IsError(data, 23, corr)
         \/ ~rest.ok
      THEN nullopt
      ELSE [ok |-> TRUE, env |->
              [version |-> data[5], mode |-> data[6], service |-> uint16At(data, 7),
               instance |-> uint16At(data, 9), method |-> uint16At(data, 11), type |-> data[13],
               client |-> uint16At(data, 15), session |-> uint16At(data, 17),
               correlation |-> SubSeq(data, 23, 22 + corr), payload |-> rest.payload]]

-----------------------------------------------------------------------------
someip_to_sample(msg, instance, mode) ==
  LET correlation == [k \in 1 .. 9 |-> CodeOf(CorrelationId(msg)[k])]
  IN  serialize_envelope(Envelope(mode, instance, msg, correlation,
        IF mode = TYPED THEN payload_to_json(msg) ELSE msg.payload))

parse_sample(data) == deserialize_envelope(data)

envelope_to_someip(env) ==
  Message(env.service, env.method, env.client, env.session, env.type,
          IF env.mode = TYPED THEN json_to_payload(env.payload) ELSE env.payload)

envelope_to_external(env, topic) ==
  [topic |-> topic, payload |-> env.payload,
   service |-> env.service, method |-> env.method, instance |-> env.instance,
   is_request |-> env.type \in {REQUEST, REQUEST_NO_RETURN},
   is_notification |-> env.type = NOTIFICATION,
   correlation_id |-> env.correlation]
=============================================================================
