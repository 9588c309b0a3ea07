------------------------------- MODULE Codecs -------------------------------
(***************************************************************************)
(* The package's readings of what others write, against what was written.  *)
(* A behaviour builds an input one piece at a time: the octets of an SSID  *)
(* or a secret, an access point as a scan saw it, the key management       *)
(* suites it offers, or a radio frequency; in every state the input is     *)
(* written down as the daemon, a configuration or a peer writes it, and    *)
(* read back.                                                              *)
(***************************************************************************)
EXTENDS Secrets, Security, DppChannel

CONSTANTS
    Octets,       \* the octets SSIDs and secrets are made of
    MaxOctets,    \* bound: octets in an SSID
    Suites,       \* the suites an access point may offer, as the daemon prints them
    MaxSuites,    \* bound: suites in a group
    Frequencies,  \* the frequencies, a range of numbers
    Levels        \* what a level or noise floor may read

ASSUME OctetsAssumption == Octets \subseteq 0 .. 255
ASSUME SuitesAssumption == \A s \in Suites : s \in Seq(STRING) /\ ~Contains(s, "+")
ASSUME FrequenciesAssumption == Frequencies \subseteq Nat
ASSUME LevelsAssumption == Levels \subseteq Int

VARIABLES
    subject,      \* what is built: "ssid", "bss", "suites" or "channel"
    ssid,         \* octets
    suites,       \* suites, in the order advertised
    frequency,    \* in MHz
    level,        \* in dBm
    mask          \* the fields asked for with MASK=

vars == <<subject, ssid, suites, frequency, level, mask>>

Init ==
    /\ subject \in {"ssid", "bss", "suites", "channel"}
    /\ ssid = << >> /\ suites = << >>
    /\ frequency \in IF subject = "channel" THEN Frequencies ELSE {0}
    /\ level \in IF subject = "bss" THEN Levels ELSE {0}
    /\ mask \in IF subject = "bss" THEN SUBSET {FreqKey, LevelKey, FlagsKey, SsidKey} ELSE {{}}

AddOctet ==
    /\ \/ subject = "ssid" /\ Len(ssid) < MaxOctets
       \/ subject = "bss" /\ Len(ssid) < 1       \* bound
    /\ \E c \in Octets : ssid' = Append(ssid, c)
    /\ UNCHANGED <<subject, suites, frequency, level, mask>>

AddSuite ==
    /\ subject = "suites" /\ Len(suites) < MaxSuites
    /\ \E s \in Suites : suites' = Append(suites, s)
    /\ UNCHANGED <<subject, ssid, frequency, level, mask>>

Next == AddOctet \/ AddSuite

Spec == Init /\ [][Next]_vars

-----------------------------------------------------------------------------
(* What others write: external to the package *)

K == 107    \* a letter

Param(key, value) == key \o <<Equals>> \o value
Rows(lines) == JoinedBy(Newline, lines) \o <<Newline>>

(* <3>K i=0 s="..." r=K: the event CTRL-EVENT-SSID-TEMP-DISABLED. *)
EventMessage(octets) ==
    LET name == <<Quote>> \o PrintfEncode(octets) \o <<Quote>>
        params == <<Param(IdKey, <<48>>), Param(SsidKey, name), Param(ReasonKey, <<K>>)>>
    IN  <<Less, 51>> \o <<Greater>>
        \o (SSID_TEMP_DISABLED \o <<Space>> \o JoinedBy(Space, params) \o <<Newline>>)

(* Two rows of LIST_NETWORKS, the SSID in the second column of four, and   *)
(* no flags.                                                               *)
NetworkRow(octets) == JoinedBy(Tab, <<<<48>>, PrintfEncode(octets), <<K>>, << >>>>)
NetworkTable(octets) == Rows(<<<<K>>, NetworkRow(octets), NetworkRow(octets)>>)

(* A number, its digits as they are divided off. *)
Decimal(n) ==
    LET size == IF n < 0 THEN -n ELSE n
        rest[k \in 0 .. size + 1] == IF k = 0 THEN size ELSE rest[k - 1] \div 10
        width == CHOOSE k \in 1 .. size + 1 : rest[k] = 0 /\ (k = 1 \/ rest[k - 1] # 0)
        digits == [i \in 1 .. width |-> 48 + (rest[width - i] % 10)]
    IN  IF n < 0 THEN <<Minus>> \o digits ELSE digits

(* Two rows of SCAN_RESULTS, the SSID in the last column of five. *)
ScanRow(octets) ==
    JoinedBy(Tab, <<<<K>>, Decimal(2412), Decimal(level), <<K>>, PrintfEncode(octets)>>)
ScanTable(octets) == Rows(<<<<K>>, ScanRow(octets), ScanRow(octets)>>)

(* name=value, a line to each of those named. *)
Block(fields, named) ==
    LET chosen == Kept(fields, {i \in DOMAIN fields : fields[i][1] \in named})
    IN  Rows([i \in DOMAIN chosen |-> Param(chosen[i][1], chosen[i][2])])

Variables == {IdKey, SsidKey, ReasonKey}
VariableBlock(octets) ==
    Block(<<<<IdKey, <<48>>>>, <<SsidKey, PrintfEncode(octets)>>, <<ReasonKey, <<K>>>>>>, Variables)

(* The reply to BSS with MASK=, and to SIGNAL_POLL. *)
BssReply ==
    Block(<<<<IdKey, <<48>>>>, <<FreqKey, Decimal(2412)>>, <<LevelKey, Decimal(level)>>,
            <<FlagsKey, <<K>>>>, <<SsidKey, PrintfEncode(ssid)>>>>, mask \cup {IdKey})
PollReply ==
    Block(<<<<LevelKey, Decimal(level)>>, <<NoiseKey, Decimal(level)>>, <<FreqKey, Decimal(2412)>>>>,
          {LevelKey, NoiseKey, FreqKey})

(* The reply to STA: an address, and a block under it. *)
Mac == JoinedBy(Colon, <<<<48, 50>>, <<97, 98>>, <<48, 48>>, <<48, 48>>, <<48, 51>>, <<48, 49>>>>)
StationReply(octets) == Mac \o <<Newline>> \o VariableBlock(octets)

(* A group: the protocol, the suites joined by +, the cipher. *)
Group(names) == <<"WPA2", "-">> \o JoinedBy("+", names) \o <<"-", "CCMP">>

Flags == IF suites = << >> THEN {<<"ESS">>} ELSE {Group(suites), <<"ESS">>}

-----------------------------------------------------------------------------
(* Properties *)

(* An SSID of any octets comes out of an event as it went in, and the      *)
(* variables around it are neither hidden nor added to by what it says     *)
(* (events.py:488, :567).                                                  *)
EventCarriesSsid ==
    LET event == ParseEvent(EventMessage(ssid))
    IN  /\ Keys(ParseParams(event.params)) = Variables
        /\ SsidTempDisabled(event)
             = {[id |-> {0}, ssid_bytes |-> {ssid}, reason |-> {<<K>>}]}

(* So it does out of both tables, as the last column and as another, out   *)
(* of a block of variables, and out of one headed by an address; the rows  *)
(* and variables around it stay.                                           *)
RepliesCarrySsid ==
    LET networks == Networks(NetworkTable(ssid))
        found == ScanResults(ScanTable(ssid))
        block == ParseVariables(VariableBlock(ssid))
    IN  /\ Len(networks) = 2 /\ Len(found) = 2
        /\ \A i \in 1 .. 2 : networks[i].ssid_bytes = ssid /\ found[i].ssid_bytes = ssid
        /\ Keys(block) = Variables /\ Status(block).ssid_bytes = {ssid}
        /\ AddressedVariables(StationReply(ssid)) = [address |-> {Mac}, variables |-> block]

(* Both of these: what every text the daemon sends about a network must do *)
(* with the name strangers gave it.                                        *)
TextsCarrySsid == EventCarriesSsid /\ RepliesCarrySsid

(* A scan row and a BSS block report the same thing under the same name    *)
(* (replies.py:270); a field not asked for, a reading the driver could not *)
(* take and a reply that is a refusal are None and no value                *)
(* (replies.py:272, :185).                                                 *)
SameUnderSameName ==
    LET row == ScanResults(ScanTable(ssid))[1]
        bss == Bss(ParseVariables(BssReply))
        poll == SignalPoll(ParseVariables(PollReply))
        Masked(key, value) == IF key \in mask THEN {value} ELSE {}
    IN  /\ row.signal_level = level
        /\ bss = [id |-> {0},
                  frequency |-> Masked(FreqKey, row.frequency),
                  signal_level |-> Masked(LevelKey, row.signal_level),
                  ssid |-> Masked(SsidKey, row.ssid),
                  ssid_bytes |-> Masked(SsidKey, row.ssid_bytes),
                  flags |-> Masked(FlagsKey, row.flags)]
        /\ poll = [rssi |-> {level} \ {-9999}, noise |-> {level} \ {9999}, frequency |-> {2412}]
        /\ SignalPoll(ParseVariables(<<70, 65, 73, 76, Newline>>))      \* FAIL
             = [rssi |-> {}, noise |-> {}, frequency |-> {}]

(* A raw key and a passphrase reach the daemon as what they are, and what  *)
(* is neither is refused (ssid.py:186).  This says nothing of passphrases  *)
(* with a quote or a backslash, which quote() changes, or with characters  *)
(* of several octets, which is_passphrase() counts as one.  A DPP          *)
(* exchange is sent exactly the key or the passphrase given, whole         *)
(* (dpp.py:113); of a passphrase of no length see EmptySecretRefused.      *)
SecretsArriveWhole ==
    LET asPass == ConfiguratorParams(<<K>>, <<K>>, {ssid}, {}, {<<49>>})
        asKey == ConfiguratorParams(<<K>>, ssid, {}, {ssid}, {})
        Common(name) == {<<ConfKey, <<K>>>>, <<SsidKey, HexOf(name)>>}
    IN  /\ ToSet(ssid) \subseteq 0 .. 127 \ {Quote, Backslash} =>
               DaemonPsk(PskValue(ssid))
                 = IF IsRawPsk(ssid) THEN <<"key", ssid>>
                   ELSE IF IsPassphrase(ssid) THEN <<"passphrase", ssid>>
                   ELSE <<"refused", << >>>>
        /\ ssid # << >> =>
               ParseParams(asPass) \ Common(<<K>>)
                 = {<<ConfiguratorKey, <<49>>>>, <<PassKey, HexOf(ssid)>>}
        /\ \A p \in Field(ParseParams(asPass), PassKey) : FromHex(p) = ssid
        /\ asKey = Refused <=> ~IsRawPsk(ssid)
        /\ asKey # Refused => ParseParams(asKey) = Common(ssid) \cup {<<PskKey, ssid>>}

(* And out of a configuration, whichever form config_value() gives it      *)
(* there, or P"..." with the escapes.                                      *)
ConfigCarriesSsid ==
    /\ FromConfig(ConfigValue(ssid)) = ssid
    /\ FromConfig(<<UpperP, Quote>> \o PrintfEncode(ssid) \o <<Quote>>) = ssid

(* The suites read from a group are those advertised, up to the first that *)
(* has no name here; none is read short or split in two, and of that first *)
(* one nothing is read but a name it goes on from (PSK, of PSK-NEW).       *)
SuitesAsAdvertised ==
    LET Named_(n) == \A i \in 1 .. n : suites[i] \in KeyMgmtNames
        advertised == {suites[i] : i \in {n \in DOMAIN suites : Named_(n)}}
        read == ParseSecurity(Flags).key_mgmt
    IN  /\ advertised \subseteq read
        /\ \A name \in read \ advertised : \E n \in DOMAIN suites :
               Named_(n - 1) /\ ~Named_(n) /\ IsPrefix(name \o <<"-">>, suites[n])

(* An access point that advertises a group is never taken for an open one, *)
(* whatever suite it names (security.py:102).  One that offers a           *)
(* passphrase or EAP suite is read to offer it; one that offers an SAE     *)
(* suite other than FT/SAE-EXT-KEY (security.py:51) too, and one that      *)
(* offers none is not; and one said to offer SAE and nothing older (:145)  *)
(* offers no passphrase suite, as long as every suite it names has a name  *)
(* here.  Of an access point with FT/SAE-EXT-KEY alone, which the code     *)
(* says does not offer WPA3 Personal, this asks nothing.                   *)
NeverTakenForOpen ==
    LET read == ParseSecurity(Flags)
        Offered(word) == {n \in read.key_mgmt : Contains(n, word)}
        foreign == ToSet(suites) \ KeyMgmtNames
    IN  /\ suites # << >> => ~Open(read)
        /\ Offered("PSK") # {} => Psk(read)
        /\ Offered("EAP") # {} => Enterprise(read)
        /\ Offered("SAE") \ FT(Strong) # {} => Sae(read)
        /\ Sae(read) => Offered("SAE") # {}
        /\ SaeOnly(read) /\ foreign = {} =>
               \A i \in DOMAIN suites : ~Contains(suites[i], "PSK")

(* A frequency that a channel is at has that channel and its class, of all *)
(* the classes; and what a peer is told to listen on is a channel there is *)
(* at that frequency, but for 5 GHz.  There a frequency between the        *)
(* channels is given a number that no channel has, 115/37 for 5185 MHz,    *)
(* where dpp.py:71 would have None, and then it is no other channel.       *)
ChannelHasFrequency ==
    LET spec == DppChannel(frequency)
        Is(o, channel) == spec = <<o.class, channel>>
    IN  /\ \A o \in OperatingClasses : \A channel \in o.channels :
               Is(o, channel) <=> CentreOf(o, channel) = frequency
        /\ spec # NoChannel /\ frequency \notin 5180 .. 5885 =>
               \E o \in OperatingClasses : \E channel \in o.channels : Is(o, channel)

-----------------------------------------------------------------------------
(* What the documentation says and the code does not do *)

(* ssid.py:94: a quoted value "is the literal bytes between the first      *)
(* quote and the last, with no escape processing at all".  What quote()    *)
(* wraps for such a variable should be read back as it was.                *)
QuoteReadsBack == FromConfig(QuoteText(ssid)) = ssid

(* dpp.py:111: "ValueError if neither or both secrets are given", and an   *)
(* empty field "is accepted by the daemon and produces exactly that silent *)
(* failure" (:47).  A passphrase of no length should be refused, and not   *)
(* sent as no secret at all.                                               *)
EmptySecretRefused ==
    ssid = << >> => ConfiguratorParams(<<K>>, <<K>>, {ssid}, {}, {}) = Refused
=============================================================================
