---------------------------- MODULE GatewayConfig ----------------------------
(***************************************************************************)
(* The parsers of the configuration.  The letters of a text are lower case *)
(* after tolower; a direction is the sequence of its parts between         *)
(* "_to_", a number the sequence of its characters, each as in             *)
(* MessageTranslator.                                                      *)
(***************************************************************************)
EXTENDS MessageTranslator, SequencesExt

LogLevel == {"DEBUG", "INFO", "WARN", "ERROR"}
Direction == {"SOMEIP_TO_EXTERNAL", "EXTERNAL_TO_SOMEIP", "BIDIRECTIONAL"}
TranslationMode == {"OPAQUE", "TYPED"}

parse_log_level(text) ==
  CASE text = "debug" -> "DEBUG"
    [] text \in {"warn", "warning"} -> "WARN"
    [] text = "error" -> "ERROR"
    [] OTHER -> "INFO"

log_level_to_string(level) ==
  CASE level = "DEBUG" -> "debug"
    [] level = "WARN" -> "warn"
    [] level = "ERROR" -> "error"
    [] OTHER -> "info"

\* "someip_to_..." first, then "..._to_someip"; anything else means both ways.
parse_direction(text) ==
  CASE Len(text) > 1 /\ text[1] = "someip" -> "SOMEIP_TO_EXTERNAL"
    [] Len(text) > 1 /\ text[1] # "someip" /\ text[Len(text)] = "someip"
         /\ (text[1] # "" \/ Len(text) > 2) -> "EXTERNAL_TO_SOMEIP"
    [] OTHER -> "BIDIRECTIONAL"

direction_to_string(direction) ==
  CASE direction = "SOMEIP_TO_EXTERNAL" -> <<"someip", "external">>
    [] direction = "EXTERNAL_TO_SOMEIP" -> <<"external", "someip">>
    [] OTHER -> <<"bidirectional">>

parse_translation_mode(text) == IF text \in {"typed", "schema"} THEN "TYPED" ELSE "OPAQUE"

translation_mode_to_string(mode) == IF mode = "TYPED" THEN "typed" ELSE "opaque"

-----------------------------------------------------------------------------
(* Numbers.                                                                *)

\* The other characters that stoul knows.
SPACE == 36
PLUS == 37
MINUS == 38

\* The text before, and from, its first character outside a set.
Before(text, chars) ==
  SelectInSeq(text \o <<-1>>, LAMBDA c : c \notin chars) - 1
Leading(text, chars) == SubSeq(text, 1, Before(text, chars))
Dropping(text, chars) == SubSeq(text, Before(text, chars) + 1, Len(text))

\* More than the sixty-four bits of an unsigned long.
ULONG_MAX == <<1, 8, 4, 4, 6, 7, 4, 4, 0, 7, 3, 7, 0, 9, 5, 5, 1, 6, 1, 5>>
TooLong(digits, base) ==
  LET n == Len(digits)
      greater == \E k \in 1 .. 20 : /\ digits[k] > ULONG_MAX[k]
                                    /\ \A j \in 1 .. k - 1 : digits[j] = ULONG_MAX[j]
  IN  IF base = 16 THEN n > 16 ELSE n > 20 \/ (n = 20 /\ greater)

Thrown(exception) == [ok |-> FALSE, exception |-> exception]

\* std::stoul, of which the lowest sixteen bits are kept: spaces, a sign, in base
\* sixteen a "0x", then as many digits as there are; the rest is ignored, and a
\* minus sign negates.
stoul(text, base) ==
  LET unspaced == Dropping(text, {SPACE})
      signed == unspaced # <<>> /\ unspaced[1] \in {PLUS, MINUS}
      unsigned == IF signed THEN Tail(unspaced) ELSE unspaced
      prefixed == base = 16 /\ Len(unsigned) > 2 /\ SubSeq(unsigned, 1, 2) = <<0, X>> /\ unsigned[3] < 16
      digits == Leading(IF prefixed THEN SubSeq(unsigned, 3, Len(unsigned)) ELSE unsigned, 0 .. base - 1)
      low == FoldLeft(LAMBDA v, d : (v * base + d) % 65536, 0, digits)
  IN  IF digits = <<>> THEN Thrown("invalid_argument")
      ELSE IF TooLong(Dropping(digits, {0}), base) THEN Thrown("out_of_range")
      ELSE [ok |-> TRUE, value |-> IF signed /\ unspaced[1] = MINUS THEN (65536 - low) % 65536 ELSE low]

\* Mutant: every number is taken for hexadecimal.
AlwaysHex(text) == stoul(text, 16)

\* stoul, then a cast to sixteen bits.
parse_hex_or_decimal(text) ==
  IF Len(text) > 2 /\ SubSeq(text, 1, 2) = <<0, X>> THEN stoul(text, 16) ELSE stoul(text, 10)
=============================================================================
