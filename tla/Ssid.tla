-------------------------------- MODULE Ssid --------------------------------
(***************************************************************************)
(* ssid.py: the spellings of an SSID.  The daemon prints its octets        *)
(* printf-escaped; a configuration quotes them or spells them in hex.      *)
(* Text is a sequence of ASCII codes, octets a sequence of 0 .. 255.       *)
(***************************************************************************)
EXTENDS Naturals, Sequences, SequencesExt

Quote == 34
Backslash == 92
UpperP == 80
LowerX == 120

OctalDigits == 48 .. 55
HexDigits == 48 .. 57 \cup 65 .. 70 \cup 97 .. 102
Printable == 32 .. 126

DigitValue(c) ==
    CASE c \in 48 .. 57 -> c - 48
      [] c \in 65 .. 70 -> c - 55
      [] OTHER -> c - 87

Number(digits, base) ==
    LET n[i \in 0 .. Len(digits)] ==
            IF i = 0 THEN 0 ELSE n[i - 1] * base + DigitValue(digits[i])
    IN  n[Len(digits)]

From(text, i) == SubSeq(text, i, Len(text))

(* The digits a text begins with, at most so many of them. *)
Leading(text, digits, most) ==
    LET Short == {i \in 0 .. most : i <= Len(text) /\ \A j \in 1 .. i : text[j] \in digits}
    IN  SubSeq(text, 1, CHOOSE i \in Short : \A j \in Short : j <= i)

-----------------------------------------------------------------------------
(* printf_decode() *)

Named == [c \in {92, 34, 110, 114, 116, 101} |->
            CASE c = 110 -> 10 [] c = 114 -> 13 [] c = 116 -> 9
              [] c = 101 -> 27 [] OTHER -> c]

(* What one round of the loop reads off the front of a text: the octets it *)
(* stands for, and how many characters of it.                              *)
Reads(octets, length) == [octets |-> octets, length |-> length]
FirstOf(text) ==
    LET escape == text[2]
        hex == Leading(From(text, 3), HexDigits, 2)
        octal == Leading(From(text, 2), OctalDigits, 3)
    IN  CASE text[1] # Backslash -> Reads(<<text[1]>>, 1)
          [] text = <<Backslash>> -> Reads(<< >>, 1)
          [] OTHER ->
               CASE escape \in DOMAIN Named -> Reads(<<Named[escape]>>, 2)
                 [] escape = LowerX ->
                      Reads(IF hex = << >> THEN << >> ELSE <<Number(hex, 16)>>, 2 + Len(hex))
                 [] escape \in OctalDigits -> Reads(<<Number(octal, 8) % 256>>, 1 + Len(octal))
                 [] OTHER -> Reads(<<escape>>, 2)

Round(s) ==
    IF s.rest = << >> THEN s
    ELSE LET first == FirstOf(s.rest)
         IN  [octets |-> s.octets \o first.octets, rest |-> From(s.rest, 1 + first.length)]

PrintfDecode(text) ==
    LET after[k \in 0 .. Len(text)] ==
            IF k = 0 THEN [octets |-> << >>, rest |-> text] ELSE Round(after[k - 1])
    IN  after[Len(text)].octets

-----------------------------------------------------------------------------
(* Configuration spellings *)

HexDigitOf(v) == IF v < 10 THEN 48 + v ELSE 87 + v
HexOf(octets) ==
    FlattenSeq([i \in DOMAIN octets |->
                   <<HexDigitOf(octets[i] \div 16), HexDigitOf(octets[i] % 16)>>])

(* Ssid.config_value() *)
ConfigValue(octets) ==
    IF \A i \in DOMAIN octets : octets[i] \in Printable
    THEN <<Quote>> \o octets \o <<Quote>>
    ELSE HexOf(octets)

(* Ssid.from_config(): octets, or Refused for a ValueError.  The quoted    *)
(* forms run to the last quote, which must end the text.                   *)
Refused == <<256>>     \* no octet
UnquotedFirst(body) ==                          \* mutant: partition(), not rpartition()
    IF ~Contains(body, Quote) THEN Refused
    ELSE SubSeq(body, 1, SelectInSeq(body, LAMBDA c : c = Quote) - 1)
Unquoted(body) ==
    IF body = << >> \/ Last(body) # Quote THEN Refused ELSE Front(body)
FromConfig(value) ==
    IF IsPrefix(<<Quote>>, value) THEN Unquoted(Tail(value))
    ELSE IF IsPrefix(<<UpperP, Quote>>, value)
    THEN IF Unquoted(From(value, 3)) = Refused THEN Refused
         ELSE PrintfDecode(Unquoted(From(value, 3)))
    ELSE IF Len(value) % 2 = 1 \/ \E i \in DOMAIN value : value[i] \notin HexDigits
    THEN Refused
    ELSE [i \in 1 .. Len(value) \div 2 |->
             Number(SubSeq(value, 2 * i - 1, 2 * i), 16)]

(* quote(): backslashes and quotes are escaped, and the whole quoted.      *)
QuoteText(text) ==
    <<Quote>>
    \o FlattenSeq([i \in DOMAIN text |->
                      IF text[i] \in {Backslash, Quote} THEN <<Backslash, text[i]>>
                      ELSE <<text[i]>>])
    \o <<Quote>>

-----------------------------------------------------------------------------
(* External to the package: the daemon's printf_encode(), which escapes    *)
(* what is not printable, and the quote and backslash.                     *)
PrintfEncode(octets) ==
    FlattenSeq([i \in DOMAIN octets |->
        LET c == octets[i]
        IN  CASE c \in {Backslash, Quote} -> <<Backslash, c>>
              [] c = 27 -> <<Backslash, 101>>
              [] c = 10 -> <<Backslash, 110>>
              [] c = 13 -> <<Backslash, 114>>
              [] c = 9 -> <<Backslash, 116>>
              [] c \in Printable \ {Backslash, Quote} -> <<c>>
              [] OTHER -> <<Backslash, LowerX>> \o HexOf(<<c>>)])
=============================================================================
