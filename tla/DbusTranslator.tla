--------------------------- MODULE DbusTranslator ---------------------------
(***************************************************************************)
(* The names of the D-Bus gateway and the signatures of SOME/IP types.  A  *)
(* name is the sequence of its elements, a prefix a sequence of words in   *)
(* which a trailing separator shows as a trailing empty word.  An element  *)
(* is one word, four hexadecimal digits, or a word followed by digits.     *)
(***************************************************************************)
EXTENDS MessageTranslator, SequencesExt

CONSTANTS BusNamePrefix, ObjectPathPrefix  \* as configured

to_hex4(v) == Hex4(v)

\* The trailing separators are dropped; nothing left means the default prefix.
Normalize(prefix) ==
  LET words == {k \in DOMAIN prefix : prefix[k] # <<"">>}
      last == CHOOSE k \in words : \A j \in words : j <= k
  IN  IF words = {} THEN <<<<"com">>, <<"opensomeip">>>> ELSE SubSeq(prefix, 1, last)

normalize_path_prefix(prefix) == Normalize(prefix)
normalize_bus_prefix(prefix) == Normalize(prefix)

build_bus_name(service, instance) ==
  normalize_bus_prefix(BusNamePrefix)
    \o <<<<"svc">>, to_hex4(service), <<"inst">>, to_hex4(instance)>>

build_object_path(service, instance) ==
  normalize_path_prefix(ObjectPathPrefix)
    \o <<<<"svc_">> \o to_hex4(service), <<"inst_">> \o to_hex4(instance)>>

build_interface_name(service) ==
  <<<<"com">>, <<"opensomeip">>, <<"Service">>, to_hex4(service)>>

someip_type_to_dbus_signature(t) ==
  CASE t \in {"bool", "boolean"} -> <<"b">>
    [] t \in {"uint8", "u8"} -> <<"y">>
    [] t \in {"uint16", "u16"} -> <<"q">>
    [] t \in {"uint32", "u32"} -> <<"u">>
    [] t \in {"uint64", "u64"} -> <<"t">>
    [] t \in {"int16", "i16"} -> <<"n">>
    [] t \in {"int32", "i32"} -> <<"i">>
    [] t \in {"int64", "i64"} -> <<"x">>
    [] t \in {"float", "float32", "double", "float64"} -> <<"d">>
    [] t \in {"string", "utf8"} -> <<"s">>
    [] OTHER -> <<"a", "y">>

build_signature_from_someip_types(types) ==
  FlattenSeq([k \in DOMAIN types |-> someip_type_to_dbus_signature(types[k])])

-----------------------------------------------------------------------------
(* libsystemd: an element of an interface or bus name starts with a letter *)
(* or '_'.                                                                 *)

StartsWithDigit(element) == Len(element) = 4 /\ element[1] < 10
NameIsValid(name) == \A k \in DOMAIN name : ~StartsWithDigit(name[k])
=============================================================================
