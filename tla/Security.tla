------------------------------ MODULE Security ------------------------------
(***************************************************************************)
(* security.py: what an AP offers, read from the flags column of a scan    *)
(* result, e.g. [WPA2-PSK+SAE-CCMP][ESS].  A group of flags is a sequence  *)
(* of words and of the signs -, + and / between them.                      *)
(***************************************************************************)
EXTENDS Naturals, Sequences, SequencesExt

Protocols == {"WPA2", "WPA", "RSN", "OSEN"}

(* _SCAN_KEY_MGMT *)
FT(names) == {<<"FT", "/">> \o n : n \in names}
Fils == {<<"FILS", "-", "SHA256">>, <<"FILS", "-", "SHA384">>}
Strong == {<<"SAE", "-", "EXT", "-", "KEY">>}
KeyMgmtNames ==
    {<<w>> : w \in {"EAP", "PSK", "SAE", "OWE", "DPP", "None", "?"}}
    \cup FT({<<"EAP">>, <<"PSK">>, <<"SAE">>})
    \cup {<<"EAP", "-", "SHA256">>, <<"PSK", "-", "SHA256">>, <<"EAP", "-", "SHA384">>}
    \cup {<<"EAP", "-", "SUITE", "-", "B">>, <<"EAP", "-", "SUITE", "-", "B", "-", "192">>}
    \cup Strong \cup FT(Strong) \cup Fils \cup FT(Fils)

(* The name a body begins with, as none or one: the longest that ends with *)
(* the body or before a separator.                                         *)
EndsThere(body, name) ==
    Len(body) = Len(name) \/ body[Len(name) + 1] \in {"+", "-"}
Candidates(body) == {n \in KeyMgmtNames : IsPrefix(n, body) /\ EndsThere(body, n)}
NameAtShortest(body) ==                         \* mutant: sorted without reverse
    {n \in Candidates(body) : \A m \in Candidates(body) : Len(n) <= Len(m)}
NameAt(body) ==
    {n \in Candidates(body) : \A m \in Candidates(body) : Len(m) <= Len(n)}

(* _scan_key_mgmt(): names joined by +, up to the first that is none.      *)
ReadName(s) ==
    IF NameAt(s.rest) = {} THEN [s EXCEPT !.rest = << >>]
    ELSE LET name == CHOOSE n \in NameAt(s.rest) : TRUE
             more == Len(s.rest) > Len(name) /\ s.rest[Len(name) + 1] = "+"
         IN  [names |-> s.names \cup {name},
              rest |-> IF more THEN SubSeq(s.rest, Len(name) + 2, Len(s.rest)) ELSE << >>]

ScanKeyMgmt(body) ==
    LET after[k \in 0 .. Len(body)] ==
            IF k = 0 THEN [names |-> {}, rest |-> body] ELSE ReadName(after[k - 1])
    IN  after[Len(body)].names

(* parse_security(), of the groups between the brackets. *)
Secured(group) == Len(group) > 1 /\ group[1] \in Protocols /\ group[2] = "-"

ParseSecurity(groups) ==
    LET secured == {g \in groups : Secured(g)}
    IN  [key_mgmt |-> UNION {ScanKeyMgmt(SubSeq(g, 3, Len(g))) : g \in secured},
         protocols |-> {g[1] : g \in secured},
         flags |-> groups \ secured]

-----------------------------------------------------------------------------
(* The predicates of Security *)

Wep(s) == <<"WEP">> \in s.flags

OpenUnnamed(s) == s.key_mgmt = {} /\ ~Wep(s)    \* mutant: protocols not looked at
Open(s) == s.key_mgmt = {} /\ s.protocols = {} /\ ~Wep(s)

Personal(s, word) ==
    \E n \in s.key_mgmt :
        n = <<word>> \/ IsSuffix(<<"/", word>>, n) \/ IsPrefix(<<word, "-">>, n)
Psk(s) == Personal(s, "PSK")
Sae(s) == Personal(s, "SAE")
SaeOnly(s) == Sae(s) /\ ~Psk(s)

Enterprise(s) ==
    \E n \in s.key_mgmt :
        \/ n = <<"EAP">> \/ IsPrefix(<<"EAP", "-">>, n)
        \/ \E i \in 1 .. Len(n) - 1 : n[i] = "/" /\ n[i + 1] = "EAP"
=============================================================================
