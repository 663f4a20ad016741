--------------------------- MODULE ZenohTranslator ---------------------------
(***************************************************************************)
(* The wire formats of the Zenoh gateway: the envelopes of a message and   *)
(* the key expressions.  A text of the CBOR envelope is one element of the *)
(* wire, from Texts; all other elements are bytes.  A key, and a prefix of *)
(* keys, is the sequence of what stands between its slashes, each the      *)
(* sequence of its characters, as in MessageTranslator; a leading, double  *)
(* or trailing slash shows as an empty segment.                            *)
(***************************************************************************)
EXTENDS MessageTranslator, SequencesExt

CONSTANTS Messages,   \* [service, method, type, payload]
          Addresses,  \* [service, instance, method]
          KeyPrefixes \* values of key_prefix

VARIABLES msg, address, prefix, wire, decoded, keys, parsed, step

vars == <<msg, address, prefix, wire, decoded, keys, parsed, step>>

Byte == 0 .. 255
SVC == 1002
METHOD == 1003
TYPE == 1004
PAYLOAD == 1005
Texts == {SVC, METHOD, TYPE, PAYLOAD}

-----------------------------------------------------------------------------
(* Encoding.                                                               *)

\* Mutant: 24 is written as a value of one byte.
append_cbor_uint_24(out, v) ==
  out \o (IF v <= 24 THEN <<v>>
          ELSE IF v < 256 THEN <<24, v>>
          ELSE <<25, v \div 256, v % 256>>)

append_cbor_uint(out, v) ==
  out \o (IF v < 24 THEN <<v>>
          ELSE IF v < 256 THEN <<24, v>>
          ELSE IF v < 65536 THEN <<25, v \div 256, v % 256>>
          ELSE <<26, (v \div 16777216) % 256, (v \div 65536) % 256, (v \div 256) % 256, v % 256>>)

append_cbor_byte_string(out, data) ==
  LET n == Len(data)
  IN  out \o (IF n < 24 THEN <<64 + n>>
              ELSE IF n < 256 THEN <<88, n>>
              ELSE <<89, (n \div 256) % 256, n % 256>>) \o data

build_cbor_envelope(m) ==
  LET svc == append_cbor_uint(<<164, SVC>>, m.service)
      method == append_cbor_uint(Append(svc, METHOD), m.method)
      type == append_cbor_uint(Append(method, TYPE), m.type)
  IN  append_cbor_byte_string(Append(type, PAYLOAD), m.payload)

-----------------------------------------------------------------------------
(* Decoding.  A reader at index i returns what it read and the next index, *)
(* or no value.                                                            *)

Failed == [ok |-> FALSE]
Got(v, i) == [ok |-> TRUE, v |-> v, i |-> i]
Remaining(w, i) == Len(w) + 1 - i

read_uint(w, i) ==
  IF Remaining(w, i) < 1 THEN Failed
  ELSE IF w[i] < 24 THEN Got(w[i], i + 1)
  ELSE IF w[i] = 24 /\ Remaining(w, i) >= 2 THEN Got(w[i + 1], i + 2)
  ELSE IF w[i] = 25 /\ Remaining(w, i) >= 3 THEN Got(w[i + 1] * 256 + w[i + 2], i + 3)
  ELSE IF w[i] = 26 /\ Remaining(w, i) >= 5
       THEN Got(w[i + 1] * 16777216 + w[i + 2] * 65536 + w[i + 3] * 256 + w[i + 4], i + 5)
  ELSE Failed

\* (ib & 0xE0) = 0x40 holds of every byte from 64 to 95, so the two branches for
\* longer strings are never taken.
read_byte_string(w, i) ==
  LET len == IF Remaining(w, i) < 1 THEN Failed
             ELSE IF w[i] \div 32 = 2 THEN Got(w[i] % 32, i + 1)
             ELSE IF w[i] = 88 /\ Remaining(w, i) >= 2 THEN Got(w[i + 1], i + 2)
             ELSE IF w[i] = 89 /\ Remaining(w, i) >= 3 THEN Got(w[i + 1] * 256 + w[i + 2], i + 3)
             ELSE Failed
  IN  IF ~len.ok \/ Remaining(w, len.i) < len.v THEN Failed
      ELSE Got(SubSeq(w, len.i, len.i + len.v - 1), len.i + len.v)

\* One pair of the map: its key, then its value.
Field(text) == CASE text = SVC -> "service" [] text = METHOD -> "method"
                 [] text = TYPE -> "type" [] text = PAYLOAD -> "payload"
Limit(text) == IF text = TYPE THEN 255 ELSE 65535

ReadPair(w, d) ==
  IF ~d.ok \/ Remaining(w, d.i) < 1 \/ w[d.i] \notin Texts THEN Failed
  ELSE LET text == w[d.i]
           value == IF text = PAYLOAD THEN read_byte_string(w, d.i + 1) ELSE read_uint(w, d.i + 1)
       IN  IF ~value.ok \/ (text # PAYLOAD /\ value.v > Limit(text)) THEN Failed
           ELSE [ok |-> TRUE, i |-> value.i, m |-> [d.m EXCEPT ![Field(text)] = value.v]]

decode_cbor_envelope(w) ==
  IF w = <<>> \/ w[1] # 164 THEN Failed
  ELSE LET first == [ok |-> TRUE, i |-> 2,
                     m |-> [service |-> 0, method |-> 0, type |-> 0, payload |-> <<>>]]
       IN  FoldLeft(LAMBDA d, n : ReadPair(w, d), first, <<1, 2, 3, 4>>)

-----------------------------------------------------------------------------
(* Key expressions.                                                        *)

event == <<14, 31, 14, 23, 29>>
rpc == <<27, 25, 12>>
method == <<22, 14, 29, 17, 24, 13>>
liveliness == <<21, 18, 31, 14, 21, 18, 23, 14, 28, 28>>
NoSegment == <<>>

Hex(n) == format_service_id(n)

build_key_expr(p, a) == p \o <<Hex(a.service), Hex(a.instance), Hex(a.method), event>>
build_rpc_key(p, a) == p \o <<Hex(a.service), Hex(a.instance), rpc, Hex(a.method)>>

build_liveliness_key(p, a) == p \o <<liveliness, Hex(a.service), Hex(a.instance)>>

\* Mutant: the "0x" is not skipped.
ParseUnskipped(token) ==
  IF token = <<>> \/ \E k \in DOMAIN token : token[k] > 15 THEN 65536
  ELSE FoldLeft(LAMBDA v, d : (16 * v + d) % 65536, 0, token)

\* The value of a text of hexadecimal digits, with or without "0x"; NotAnId when it
\* has another character, no digit, or does not fit in sixteen bits.
NotAnId == 65536
parse_hex_u16(token) ==
  LET digits == IF Len(token) >= 2 /\ SubSeq(token, 1, 2) = <<0, X>>
                THEN SubSeq(token, 3, Len(token)) ELSE token
      AddDigit(v, d) == IF v = NotAnId \/ d > 15 \/ 16 * v + d > 65535 THEN NotAnId ELSE 16 * v + d
  IN  IF digits = <<>> THEN NotAnId ELSE FoldLeft(AddDigit, 0, digits)

split_path(path) == SelectSeq(path, LAMBDA segment : segment # NoSegment)

\* The empty prefix strips nothing; another has to be followed by a slash.
strip_prefix_key(key, p) ==
  IF p = <<NoSegment>> THEN key
  ELSE IF IsStrictPrefix(p, key) THEN SubSeq(key, Len(p) + 1, Len(key))
  ELSE <<>>

Invalid == [kind |-> "invalid"]

Parsed(kind, service, instance, of) ==
  LET ids == <<parse_hex_u16(service), parse_hex_u16(instance), parse_hex_u16(of)>>
  IN  IF NotAnId \in ToSet(ids) THEN Invalid
      ELSE [kind |-> kind, service |-> ids[1], instance |-> ids[2], method |-> ids[3]]

parse_someip_key(key, p) ==
  LET parts == split_path(strip_prefix_key(key, p))
      n == Len(parts)
  IN  IF n >= 3 /\ parts[1] = liveliness THEN Parsed("liveliness", parts[2], parts[3], <<0>>)
      ELSE IF n >= 4 /\ parts[3] = rpc THEN Parsed("rpc", parts[1], parts[2], parts[4])
      ELSE IF n >= 4 /\ parts[4] = event THEN Parsed("event", parts[1], parts[2], parts[3])
      ELSE Invalid

-----------------------------------------------------------------------------
(* Messages.                                                               *)

ZenohEncoding == {"RAW", "JSON", "CBOR"}

EncodePayload(m, encoding) ==
  CASE encoding = "RAW" -> m.payload
    [] encoding = "JSON" -> payload_to_json(m)
    [] encoding = "CBOR" -> build_cbor_envelope(m)

\* The array "payload" starts at the seventh element of a JSON text and is read up
\* to its end or the end of the text; the ids are not read.
decode_json_envelope(w) ==
  LET at == {k \in 7 .. Len(w) : w[k] = JSON}
      end == IF at = {} THEN Len(w) ELSE (CHOOSE k \in at : \A j \in at : k <= j) - 1
      bytes == SubSeq(w, 7, end)
  IN  IF Len(w) < 6 \/ w[1] # JSON \/ \E k \in DOMAIN bytes : bytes[k] \notin Byte THEN Failed
      ELSE [ok |-> TRUE, m |-> [EmptyMessage EXCEPT !.payload = bytes]]

DecodePayload(w, encoding) ==
  CASE encoding = "RAW" -> [ok |-> TRUE, m |-> [EmptyMessage EXCEPT !.payload = w]]
    [] encoding = "JSON" -> decode_json_envelope(w)
    [] encoding = "CBOR" -> decode_cbor_envelope(w)

someip_to_zenoh(m, p, mapping, encoding) ==
  LET a == [service |-> mapping.service, instance |-> mapping.instance, method |-> m.method]
      rpcish == m.type \in {REQUEST, RESPONSE, REQUEST_NO_RETURN, ERROR, TP_REQUEST, TP_REQUEST_NO_RETURN}
  IN  [someip_to_external(m, IF rpcish THEN build_rpc_key(p, a) ELSE build_key_expr(p, a)) EXCEPT
         !.payload = EncodePayload(m, encoding), !.instance = mapping.instance,
         !.is_notification = m.type \in {NOTIFICATION, TP_NOTIFICATION}]

\* Session 1 of client 0; only a CBOR envelope changes the type, and bytes that
\* cannot be decoded are the payload.
zenoh_to_someip(ext, service, type, encoding) ==
  LET envelope == DecodePayload(ext.payload, encoding)
  IN  Message(service, ext.method, 0, 1,
              IF encoding = "CBOR" /\ envelope.ok THEN envelope.m.type ELSE type,
              IF envelope.ok THEN envelope.m.payload ELSE ext.payload)

-----------------------------------------------------------------------------
(* One message and one address on their way.                               *)

Families == {"event", "rpc", "liveliness"}
KeyOf(family, p, a) ==
  CASE family = "event" -> build_key_expr(p, a)
    [] family = "rpc" -> build_rpc_key(p, a)
    [] family = "liveliness" -> build_liveliness_key(p, a)

Init ==
  /\ msg \in Messages /\ address \in Addresses /\ prefix \in KeyPrefixes
  /\ wire = <<>> /\ decoded = Failed
  /\ keys = [f \in Families |-> <<>>] /\ parsed = [f \in Families |-> Invalid]
  /\ step = "publish"

\* One gateway publishes ...
Publish ==
  /\ step = "publish" /\ step' = "receive"
  /\ wire' = build_cbor_envelope(msg)
  /\ keys' = [f \in Families |-> KeyOf(f, prefix, address)]
  /\ UNCHANGED <<msg, address, prefix, decoded, parsed>>

\* ... and another receives.
Receive ==
  /\ step = "receive" /\ step' = "done"
  /\ decoded' = decode_cbor_envelope(wire)
  /\ parsed' = [f \in Families |-> parse_someip_key(keys[f], prefix)]
  /\ UNCHANGED <<msg, address, prefix, wire, keys>>

Next == Publish \/ Receive

Spec == Init /\ [][Next]_vars

-----------------------------------------------------------------------------
(* Correctness.                                                            *)

\* A message that is encoded as CBOR is decoded to the same service, method, type
\* and payload, at every boundary of the length encodings.
CborRoundTrip == step = "done" => decoded.ok /\ decoded.m = msg

\* A key leads back to the ids it was built from, and the three families of keys
\* are never taken for one another, whatever slashes the prefix has; a gateway
\* with another prefix reads the same ids or none.
KeysRoundTrip ==
  step = "done" => \A f \in Families :
    /\ parsed[f].kind = f
    /\ parsed[f].service = address.service /\ parsed[f].instance = address.instance
    /\ f # "liveliness" => parsed[f].method = address.method
    /\ \A p \in KeyPrefixes : parse_someip_key(keys[f], p) \in {Invalid, parsed[f]}

\* The key expressions are those of the table "Key Expression Mapping".
DocumentedKeys ==
  step = "done" =>
    /\ keys["event"] = prefix \o <<Hex(address.service), Hex(address.instance), event, Hex(address.method)>>
    /\ keys["rpc"] = prefix \o <<Hex(address.service), Hex(address.instance), method, Hex(address.method)>>
    /\ keys["liveliness"] = prefix \o <<liveliness, Hex(address.service), Hex(address.instance)>>
=============================================================================
