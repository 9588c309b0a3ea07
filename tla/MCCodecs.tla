------------------------------ MODULE MCCodecs ------------------------------
(* Codecs for TLC: octets that quote, escape, separate or continue a       *)
(* number, every kind of suite, two without a name and one that starts     *)
(* with one.                                                               *)
EXTENDS Codecs

MCOctets == {7, 9, 10, 27, 32, 34, 55, 61, 92, 97, 120, 200}
MCSuites == KeyMgmtNames \cup {<<"NEW">>, <<"NEW", "-", "SHA256">>, <<"PSK", "-", "NEW">>}
MCFrequencies == 2400 .. 7200
MCLevels == {-9999, -61, 0, 7, 9999}
=============================================================================
