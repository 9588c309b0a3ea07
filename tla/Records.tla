------------------------------ MODULE Records ------------------------------
(***************************************************************************)
(* The typed readings of replies and events (replies.py, events.py,        *)
(* client.py): table rows, variable blocks and event views.  What may be   *)
(* None is a set with at most one value in it.                             *)
(*                                                                         *)
(* Names of variables are texts of one letter here; no reading looks into  *)
(* a name.                                                                 *)
(***************************************************************************)
EXTENDS WireText, Integers

Minus == 45
Colon == 58

FreqKey == <<102>>
IdKey == <<105>>
LevelKey == <<108>>     \* level of a BSS, RSSI of a poll
FlagsKey == <<109>>
NoiseKey == <<110>>
ReasonKey == <<114>>
SsidKey == <<115>>

(* int() of what the daemon prints, which is a number: the blanks and      *)
(* underscores int() would take besides it does not print, and text that   *)
(* is none, for which int() raises ValueError (replies.py:160), has no     *)
(* reading here.  Nor has a number to the base 16, capabilities.           *)
Magnitude(text) == IF IsPrefix(<<Minus>>, text) THEN Tail(text) ELSE text
IsNumber(text) == Magnitude(text) # << >> /\ ToSet(Magnitude(text)) \subseteq 48 .. 57
AsInt(text) ==
    IF IsPrefix(<<Minus>>, text) THEN -Number(Magnitude(text), 10) ELSE Number(text, 10)

-----------------------------------------------------------------------------
(* _Variables: None for a field that was not reported. *)
Field(variables, key) == {p[2] : p \in {q \in variables : q[1] = key}}
IntFieldOrZero(variables, key) ==               \* mutant: get(key, 0)
    IF key \in Keys(variables) THEN {AsInt(Get(variables, key))} ELSE {0}
IntField(variables, key) == {AsInt(v) : v \in Field(variables, key)}
SsidField(variables, key) == {PrintfDecode(v) : v \in Field(variables, key)}

(* What bss() makes of a reply; security is parsed from the same flags and *)
(* is None with them.                                                      *)
Bss(variables) ==
    [id |-> IntField(variables, IdKey),
     frequency |-> IntField(variables, FreqKey),
     signal_level |-> IntField(variables, LevelKey),
     ssid |-> Field(variables, SsidKey),
     ssid_bytes |-> SsidField(variables, SsidKey),
     flags |-> Field(variables, FlagsKey)]

Status(variables) == [ssid_bytes |-> SsidField(variables, SsidKey)]

(* The daemon's sentinels for no reading are None too. *)
INVALID_NOISE == 9999
SignalPoll(variables) ==
    [rssi |-> IntField(variables, LevelKey) \ {-INVALID_NOISE},
     noise |-> IntField(variables, NoiseKey) \ {INVALID_NOISE},
     frequency |-> IntField(variables, FreqKey)]

-----------------------------------------------------------------------------
(* Rows of tables; one whose numbers are none is left out. *)

ScanResults(reply) ==
    LET table == ParseTable(reply, 5)
        rows == Kept(table, {i \in DOMAIN table : IsNumber(table[i][2]) /\ IsNumber(table[i][3])})
    IN  [i \in DOMAIN rows |->
            [bssid |-> rows[i][1], frequency |-> AsInt(rows[i][2]),
             signal_level |-> AsInt(rows[i][3]), flags |-> rows[i][4],
             ssid |-> rows[i][5], ssid_bytes |-> PrintfDecode(rows[i][5])]]

Networks(reply) ==
    LET table == ParseTable(reply, 4)
        rows == Kept(table, {i \in DOMAIN table : IsNumber(table[i][1])})
    IN  [i \in DOMAIN rows |->
            [id |-> AsInt(rows[i][1]), ssid_bytes |-> PrintfDecode(rows[i][2]),
             bssid |-> rows[i][3], flags |-> rows[i][4]]]

-----------------------------------------------------------------------------
(* A station or a P2P peer: the address alone on the first line.           *)

IsAddress(text) ==
    LET parts == Split(text, Colon)
    IN  Len(parts) = 6 /\ \A i \in 1 .. 6 : Len(parts[i]) = 2 /\ ToSet(parts[i]) \subseteq HexDigits

(* str.strip(), of the blanks and newlines a line may end in. *)
Stripped(text) ==
    LET Ink == {i \in DOMAIN text : text[i] \notin {Space, Tab, Newline}}
    IN  IF Ink = {} THEN << >> ELSE SubSeq(text, Min(Ink), Max(Ink))

AddressedVariables(reply) ==
    LET address == Stripped(Before(reply, Newline))
    IN  IF IsAddress(address)
        THEN [address |-> {address}, variables |-> ParseVariables(After(reply, Newline))]
        ELSE [address |-> {}, variables |-> {}]

-----------------------------------------------------------------------------
(* The view CTRL-EVENT-SSID-TEMP-DISABLED has, by a name of one letter;    *)
(* the event of another name is refused.                                   *)
SSID_TEMP_DISABLED == <<75>>

SsidTempDisabled(event) ==
    LET variables == ParseParams(event.params)
    IN  IF event.name # SSID_TEMP_DISABLED THEN {}
        ELSE {[id |-> IntField(variables, IdKey),
               ssid_bytes |-> SsidField(variables, SsidKey),
               reason |-> Field(variables, ReasonKey)]}
=============================================================================
