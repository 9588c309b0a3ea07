----------------------------- MODULE EventLoop -----------------------------
(***************************************************************************)
(* Programs that drive a WpaCtrl from an event loop (client.py:162): they  *)
(* watch the socket's descriptor, call next_event() when it is readable,   *)
(* and go on calling it while pending() is true.                           *)
(*                                                                         *)
(* The descriptor tells of datagrams in the socket only.  An event that    *)
(* request() has taken off it and set aside makes nothing readable, so     *)
(* what the program does after a request decides whether it is ever seen.  *)
(***************************************************************************)
EXTENDS WpaCtrl

VARIABLES
    program,   \* which program uses the connection
    at         \* where it stands between its calls

loopVars == <<vars, program, at>>

(* watcher: the recipe as it stands, on a connection that attaches and     *)
(* does nothing else.  mixed: one that sends requests, waits in            *)
(* next_event(), closes and reopens too, and after each of these asks      *)
(* pending() before it goes back to the descriptor.                        *)
Programs == {"watcher", "mixed"}

LoopInit ==
    /\ Init
    /\ program \in Programs
    /\ at = "start"

(* select() on fileno() reports the socket readable. *)
Readable == sock /\ rx # << >>

Goes(from, to) == at = from /\ at' = to /\ UNCHANGED program

-----------------------------------------------------------------------------
(* One call of next_event() that does not wait, and then to pending(). *)
NextEvent == NextBuffered \/ NextStart("zero")

(* with WpaCtrl(...) as wpa: ... *)
LoopOpen == Goes("start", "attach") /\ Open

LoopAttach == Goes("attach", "attaching") /\ RequestStart("ATTACH", "positive")

(* attach() has returned.  Nothing has come before the reply on a          *)
(* connection not attached before, so the recipe goes straight to the      *)
(* descriptor; a program that mixes does not rely on that.                 *)
LoopAttached ==
    /\ pc = "idle" /\ out.kind = "value"
    /\ Goes("attaching", IF program = "watcher" THEN "watch" ELSE "drain")
    /\ UNCHANGED vars

(* attach() has raised, and the exception ends the with block. *)
LoopUnattached ==
    /\ out.kind # "value"
    /\ Goes("attaching", "done")
    /\ Close

(* The descriptor is readable: call next_event(), then drain. *)
LoopReadable == Goes("watch", "drain") /\ Readable /\ NextEvent

LoopDrain == Goes("drain", "drain") /\ pc = "idle" /\ Pending /\ NextEvent

LoopDrained ==
    /\ pc = "idle" /\ ~Pending
    /\ Goes("drain", "watch")
    /\ UNCHANGED vars

(* Between two rounds of the loop: a request, a wait for an event with a   *)
(* timeout instead of the descriptor, a new connection.                    *)
LoopRequest ==
    /\ program = "mixed"
    /\ Goes("watch", "drain")
    /\ \E verb \in Verbs, timeout \in Timeouts : RequestStart(verb, timeout)

LoopWait ==
    /\ program = "mixed"
    /\ Goes("watch", "drain")
    /\ NextBuffered \/ NextStart("positive")

LoopClose ==
    /\ program = "mixed"
    /\ Goes("watch", "start")
    /\ issued < MaxCalls                         \* bound: it can attach again
    /\ Close

(* What a program does by itself once it has opened the connection.        *)
(* Opening, requesting and closing are its to decide.                      *)
LoopStep ==
    \/ LoopAttach \/ LoopAttached \/ LoopUnattached
    \/ LoopReadable \/ LoopDrain \/ LoopDrained

LoopDecides == LoopOpen \/ LoopRequest \/ LoopWait \/ LoopClose

Unhindered(step) == step /\ UNCHANGED <<program, at>>

-----------------------------------------------------------------------------
(* A daemon that never stops talking *)

(* Past the events that are counted the traffic goes on without end and    *)
(* without numbers: further events for a monitor, and replies to nothing   *)
(* this client asked.                                                      *)
More == {EventMsg(0), Reply(0, "DATA")}

Flood ==
    /\ up /\ Deliverable /\ accepted = MaxEvents
    /\ \E m \in More : (IsEvent(m) => monitors) /\ rx' = Append(rx, m)
    /\ UNCHANGED <<clientVars, linked, daemonVars, issued, accepted, taken,
                   lost, lastReply, trouble>>

(* request() sets aside as many of those as come.  Nothing tells them      *)
(* apart, so a run of them stands in `events` as one.                      *)
AnotherSetAside ==
    /\ Receiving /\ Head(rx) = EventMsg(0)
    /\ events # << >> /\ events[Len(events)] = 0

ReceiveAnother ==
    /\ AnotherSetAside
    /\ rx' = Rest
    /\ LookAtDeadline
    /\ UNCHANGED <<sock, linked, attached, events, cmd, expired, daemonVars,
                   issued, accepted, taken, lost, lastReply>>

LoopCall == (~AnotherSetAside /\ CallStep) \/ ReceiveAnother

-----------------------------------------------------------------------------
LoopNext ==
    \/ LoopStep \/ LoopDecides
    \/ Unhindered(LoopCall) \/ Unhindered(Tick)
    \/ Unhindered(Daemon) \/ Unhindered(Flood)

(* The process runs, its loop included, and time passes.  Nothing is       *)
(* assumed of the daemon.                                                  *)
LoopSpec ==
    /\ LoopInit /\ [][LoopNext]_loopVars
    /\ WF_loopVars(Unhindered(LoopCall))
    /\ WF_loopVars(Unhindered(Tick))
    /\ WF_loopVars(LoopStep)

-----------------------------------------------------------------------------
(* Properties *)

(* An event the socket has accepted reaches a program that follows the     *)
(* recipe (client.py:165), unless a queue it waits in is discarded: none   *)
(* stays set aside with the loop asleep on a descriptor that is silent.    *)
EventsReachTheLoop ==
    \A n \in 1 .. MaxEvents :
        n <= accepted ~> n \in taken \cup lost

(* Every request() and next_event() comes back, whatever the daemon does:  *)
(* also when datagrams never stop coming, so that no receive() of the call *)
(* ever times out (the looks at the deadline, client.py:131 and :198).     *)
EveryCallReturns == pc # "idle" ~> pc = "idle"
=============================================================================
