------------------------------ MODULE Secrets ------------------------------
(***************************************************************************)
(* The ways a secret is sent: as the psk variable of a network (ssid.py)   *)
(* and among the parameters of a DPP exchange (dpp.py).  What may be None  *)
(* is a set with at most one value in it.                                  *)
(***************************************************************************)
EXTENDS Records

CONSTANTS
    PassphraseMin,   \* PASSPHRASE_MIN_LENGTH, 8
    PassphraseMax,   \* PASSPHRASE_MAX_LENGTH, 63
    KeyDigits        \* hex digits in a raw key, 64

ASSUME LengthsAssumption ==
    /\ PassphraseMin \in Nat /\ PassphraseMax \in Nat /\ KeyDigits \in Nat
    /\ PassphraseMin <= PassphraseMax /\ PassphraseMax < KeyDigits

IsPassphrase(secret) == Len(secret) \in PassphraseMin .. PassphraseMax
IsRawPsk(secret) == Len(secret) = KeyDigits /\ ToSet(secret) \subseteq HexDigits

PskValueQuoted(secret) == QuoteText(secret)     \* mutant: always quoted
PskValue(secret) == IF IsRawPsk(secret) THEN secret ELSE QuoteText(secret)

-----------------------------------------------------------------------------
(* format_params(): name=value with a space between, without those that    *)
(* are None; the underscores behind a name are taken off.                  *)
Underscore == 95
Bared(name) == SubSeq(name, 1, Max({0} \cup {i \in DOMAIN name : name[i] # Underscore}))

FormatParams(params) ==
    LET given == Kept(params, {i \in DOMAIN params : params[i][2] # {}})
        word(p) == Bared(p[1]) \o <<Equals>> \o (CHOOSE v \in p[2] : TRUE)
    IN  IF given = << >> THEN << >>
        ELSE JoinedBy(Space, [i \in DOMAIN given |-> word(given[i])])

(* dpp_hex(), or Refused for a ValueError. *)
DppHex(text) == IF text = << >> THEN Refused ELSE HexOf(text)

ConfKey == <<99>>
PassKey == <<112>>
PskKey == <<107>>
ConfiguratorKey == <<103>>

(* dpp_configurator_params(), or Refused.  An empty passphrase is false,   *)
(* and what is sent in its place is a psk of None.                         *)
ConfiguratorParams(conf, ssid, passphrase, psk, configurator) ==
    IF \/ (passphrase = {}) = (psk = {})
       \/ \E key \in psk : ~IsRawPsk(key)
       \/ DppHex(ssid) = Refused
    THEN Refused
    ELSE FormatParams(
             <<<<ConfKey, {conf}>>, <<SsidKey, {DppHex(ssid)}>>,
               IF passphrase \subseteq {<< >>} THEN <<PskKey, psk>>
               ELSE <<PassKey, {DppHex(p) : p \in passphrase}>>,
               <<ConfiguratorKey, configurator>>>>)

-----------------------------------------------------------------------------
(* External to the package: what the daemon makes of the psk variable, and *)
(* of a hexdump.                                                           *)
FromHex(text) == FromConfig(text)

DaemonPsk(value) ==
    IF IsPrefix(<<Quote>>, value)
    THEN IF FromConfig(value) # Refused /\ IsPassphrase(FromConfig(value))
         THEN <<"passphrase", FromConfig(value)>> ELSE <<"refused", << >>>>
    ELSE IF IsRawPsk(value) THEN <<"key", value>> ELSE <<"refused", << >>>>
=============================================================================
