---------------------------- MODULE EventStream ----------------------------
(***************************************************************************)
(* What a connection promises about unsolicited events, and all that it    *)
(* promises: the events its socket accepts are handed to the caller one by *)
(* one, each at most once, oldest first.  Some may never be handed over,   *)
(* but then a whole tail of the waiting ones goes at once, never one out   *)
(* of the middle.                                                          *)
(*                                                                         *)
(* How the events wait - in the kernel's queue, or set aside in            *)
(* WpaCtrl._events by a request() that was looking for its reply - is not  *)
(* visible here.  WpaCtrl implements this specification.                   *)
(***************************************************************************)
EXTENDS Naturals

VARIABLES
    arrived,    \* how many events have been accepted; they are numbered 1..arrived
    waiting,    \* the accepted events not yet handed over
    delivered   \* the events handed over

vars == <<arrived, waiting, delivered>>

TypeOK ==
    /\ arrived \in Nat
    /\ waiting \subseteq 1 .. arrived
    /\ delivered \subseteq 1 .. arrived

Init == arrived = 0 /\ waiting = {} /\ delivered = {}

Arrive ==
    /\ arrived' = arrived + 1
    /\ waiting' = waiting \cup {arrived + 1}
    /\ UNCHANGED delivered

Deliver ==
    \E e \in waiting :
        /\ \A f \in waiting : e <= f
        /\ waiting' = waiting \ {e}
        /\ delivered' = delivered \cup {e}
        /\ UNCHANGED arrived

(* close(), or the kernel emptying the queue of a socket it disconnects.   *)
Discard ==
    \E kept \in SUBSET waiting :
        /\ \A e \in kept, f \in waiting \ kept : e < f
        /\ waiting' = kept
        /\ UNCHANGED <<arrived, delivered>>

Next == Arrive \/ Deliver \/ Discard

Spec == Init /\ [][Next]_vars

-----------------------------------------------------------------------------
(* No waiting event is older than one already handed over: handing over    *)
(* never goes back, and never repeats.                                     *)
InOrder == \A d \in delivered, w \in waiting : d < w
=============================================================================
