----------------------------- MODULE DppChannel -----------------------------
(***************************************************************************)
(* dpp_channel() of dpp.py: the operating class and channel a DPP          *)
(* bootstrapping URI names for a frequency.                                *)
(***************************************************************************)
EXTENDS Integers

NoChannel == <<0, 0>>

FiveGHzClasses == {<<115, 36, 48>>, <<118, 52, 64>>, <<121, 100, 144>>, <<125, 149, 177>>}

FiveGHzChannel(f) == (f - 5000) \div 5

(* The frequencies of each band that channels are at. *)
TwoGHz(f) == f \in 2412 .. 2472 /\ (f - 2412) % 5 = 0
FiveGHz(f) ==
    /\ f \in 5180 .. 5885 /\ (f - 5180) % 5 = 0
    /\ \E c \in FiveGHzClasses : FiveGHzChannel(f) \in c[2] .. c[3]
SixGHzRounded(f) == f \in 5955 .. 7115         \* mutant: rounded, not refused
SixGHz(f) == f \in 5955 .. 7115 /\ (f - 5955) % 20 = 0

FiveGHzClass(f) ==
    (CHOOSE c \in FiveGHzClasses : FiveGHzChannel(f) \in c[2] .. c[3])[1]

DppChannel(f) ==
    IF TwoGHz(f) THEN <<81, (f - 2412) \div 5 + 1>>
    ELSE IF f = 2484 THEN <<82, 14>>
    ELSE IF FiveGHz(f) THEN <<FiveGHzClass(f), FiveGHzChannel(f)>>
    ELSE IF f = 5935 THEN <<136, 2>>
    ELSE IF SixGHz(f) THEN <<131, (f - 5950) \div 5>>
    ELSE NoChannel

(* External to the package: the global operating classes of IEEE 802.11    *)
(* with 20 MHz channels, each with the frequency its channels are counted  *)
(* from, 5 MHz to a number, and the channels in it.                        *)
EveryFourth(first, last) == {c \in first .. last : (c - first) % 4 = 0}
OperatingClasses ==
    {[class |-> 81,  start |-> 2407, channels |-> 1 .. 13],
     [class |-> 82,  start |-> 2414, channels |-> {14}],
     [class |-> 115, start |-> 5000, channels |-> EveryFourth(36, 48)],
     [class |-> 118, start |-> 5000, channels |-> EveryFourth(52, 64)],
     [class |-> 121, start |-> 5000, channels |-> EveryFourth(100, 144)],
     [class |-> 125, start |-> 5000, channels |-> EveryFourth(149, 177)],
     [class |-> 131, start |-> 5950, channels |-> EveryFourth(1, 233)],
     [class |-> 136, start |-> 5925, channels |-> {2}]}

CentreOf(o, channel) == o.start + 5 * channel
=============================================================================
