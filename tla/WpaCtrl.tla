------------------------------ MODULE WpaCtrl ------------------------------
(***************************************************************************)
(* One WpaCtrl connection (client.py), the CtrlTransport under it          *)
(* (transport.py), the two kernel datagram queues it uses, and the daemon  *)
(* at the other end.                                                       *)
(*                                                                         *)
(* A connection serves one caller (transport.py:57), so at most one call   *)
(* is in progress; `pc` says where it stands.  Everything else moves       *)
(* concurrently with it: the daemon serves commands, emits events, stops   *)
(* and restarts, and the call's deadline passes, between any two steps.    *)
(*                                                                         *)
(* Requests and accepted events are numbered so that a property can say    *)
(* which request a reply answers.  The program has no such numbers: the    *)
(* control interface pairs a reply with a request by position alone.       *)
(***************************************************************************)
EXTENDS Naturals, Sequences, FiniteSets

CONSTANTS
    RxCap,      \* datagrams the client's socket holds
    DqCap,      \* datagrams the daemon's socket holds
    MaxCalls,   \* bound: requests issued in a behaviour
    MaxEvents   \* bound: events accepted by the client's socket

ASSUME RxCapAssumption == RxCap \in Nat \ {0}
ASSUME DqCapAssumption == DqCap \in Nat \ {0}
ASSUME MaxCallsAssumption == MaxCalls \in Nat
ASSUME MaxEventsAssumption == MaxEvents \in Nat

VARIABLES
    sock,      \* CtrlTransport._socket is not None
    linked,    \* the socket is connected to the daemon that is running now
    rx,        \* the datagrams waiting in the client's socket
    attached,  \* WpaCtrl._attached
    events,    \* WpaCtrl._events, by number
    pc,        \* where the call in progress stands
    cmd,       \* the request in progress, or the last one
    expired,   \* the deadline of the call in progress has passed
    out,       \* how the last call ended
    up,        \* the daemon is running and its socket is bound
    dq,        \* the commands waiting in the daemon's socket
    monitors,  \* the daemon has this client's address on its monitor list
    issued,    \* requests started so far
    accepted,  \* events the client's socket has accepted so far
    taken,     \* history: events next_event() has returned
    lost,      \* history: accepted events discarded with a socket queue
    lastReply, \* history: request answered by the last reply consumed
    trouble    \* history: which kinds of fault have happened

clientVars == <<sock, attached, events, pc, cmd, expired, out>>
daemonVars == <<up, dq, monitors>>
vars == <<sock, linked, rx, attached, events, pc, cmd, expired, out,
          up, dq, monitors, issued, accepted, taken, lost, lastReply, trouble>>

-----------------------------------------------------------------------------
(* Messages, calls and outcomes *)

(* attach(), detach(), command() and request() differ in what they do with *)
(* the reply; every wrapper of the class is one of the last two.           *)
Verbs == {"ATTACH", "DETACH", "COMMAND", "REQUEST"}

Texts == {"OK", "FAIL", "DATA"}

(* is_event() separates the two kinds by the "<N>" prefix. *)
Message == [kind : {"reply", "event"}, id : Nat, text : Texts \cup {"EVENT"}]
Reply(i, t) == [kind |-> "reply", id |-> i, text |-> t]
EventMsg(n) == [kind |-> "event", id |-> n, text |-> "EVENT"]
IsEventNever(m) == FALSE                        \* mutant: no test for events
IsEvent(m) == m.kind = "event"

Command == [kind : {"command"}, id : Nat, verb : Verbs]
CommandMsg(i, verb) == [kind |-> "command", id |-> i, verb |-> verb]

(* How a call ends: a value, a refusal (WpaCtrlCommandFailed), one of the  *)
(* two transport exceptions, an event, or None.                            *)
Outcomes == {"none", "value", "refused", "timeout", "connError",
             "event", "noEvent"}
Outcome == [kind : Outcomes, re : Nat]
Answered == {"value", "refused"}

(* A finite timeout: 0 is passed already when the call computes its        *)
(* deadline, any other passes later.                                       *)
Timeouts == {"zero", "positive"}

Troubles == {"abandoned", "closed", "stopped", "dropped"}

(* The numbers of the datagrams of one kind in a queue. *)
Ids(q, kind) == {q[i].id : i \in {j \in DOMAIN q : q[j].kind = kind}}
Members(q) == {q[i] : i \in DOMAIN q}

RxEvents == Ids(rx, "event")
RxReplies == Ids(rx, "reply")
Buffered == Members(events)
Outstanding == RxReplies \cup Ids(dq, "command")

(* WpaCtrl.pending(0) *)
PendingSocket == sock /\ rx # << >>            \* mutant: _events not looked at
Pending == events # << >> \/ (sock /\ rx # << >>)

-----------------------------------------------------------------------------
Init ==
    /\ sock = FALSE /\ linked = FALSE /\ rx = << >>
    /\ attached = FALSE /\ events = << >>
    /\ pc = "idle" /\ cmd = CommandMsg(0, "REQUEST")
    /\ expired = FALSE /\ out = [kind |-> "none", re |-> 0]
    /\ up \in BOOLEAN /\ dq = << >> /\ monitors = FALSE
    /\ issued = 0 /\ accepted = 0
    /\ taken = {} /\ lost = {} /\ lastReply = 0 /\ trouble = {}

-----------------------------------------------------------------------------
(* open() and close() *)

(* CtrlTransport.open(): nothing when there is a socket, whatever state it *)
(* is in.  Otherwise bind and connect, which needs a bound daemon socket.  *)
(* Every open() of one object binds the same address, so what the daemon   *)
(* holds for that address it holds for the reopened connection too.        *)
Opened ==
    /\ sock \/ up
    /\ sock' = TRUE
    /\ linked' = IF sock THEN linked ELSE TRUE

(* A call ends, with the outcome the caller sees. *)
Return(kind, re) ==
    /\ pc' = "idle"
    /\ out' = [kind |-> kind, re |-> re]

Open ==
    /\ pc = "idle" /\ ~sock
    /\ Opened
    /\ UNCHANGED <<rx, attached, events, pc, cmd, expired, out, daemonVars,
                   issued, accepted, taken, lost, lastReply, trouble>>

(* The socket goes, with whatever it holds; no DETACH is sent. *)
Close ==
    /\ pc = "idle" /\ sock
    /\ sock' = FALSE /\ linked' = FALSE /\ rx' = << >>
    /\ attached' = FALSE /\ events' = << >>
    /\ lost' = lost \cup Buffered \cup RxEvents
    /\ trouble' = trouble \cup {"closed"}
    /\ UNCHANGED <<pc, cmd, expired, out, daemonVars, issued, accepted,
                   taken, lastReply>>

-----------------------------------------------------------------------------
(* request(), and the methods that only add a test of its reply *)

RequestStart(verb, timeout) ==
    /\ pc = "idle" /\ issued < MaxCalls
    /\ verb \in {"ATTACH", "DETACH"} => timeout = "positive"
    /\ Opened
    /\ issued' = issued + 1
    /\ pc' = "send" /\ cmd' = CommandMsg(issued + 1, verb)
    /\ expired' = (timeout = "zero")
    /\ UNCHANGED <<rx, attached, events, out, daemonVars, accepted, taken,
                   lost, lastReply, trouble>>

(* open() finds no daemon behind the path. *)
RequestUnopened ==
    /\ pc = "idle" /\ ~sock /\ ~up
    /\ Return("connError", 0)
    /\ UNCHANGED <<sock, linked, rx, attached, events, cmd, expired,
                   daemonVars, issued, accepted, taken, lost, lastReply,
                   trouble>>

RequestSend ==
    /\ pc = "send" /\ linked /\ Len(dq) < DqCap
    /\ dq' = Append(dq, cmd)
    /\ pc' = "loop"
    /\ UNCHANGED <<sock, linked, rx, attached, events, cmd, expired, out, up,
                   monitors, issued, accepted, taken, lost, lastReply, trouble>>

(* The daemon's queue stays full for the socket's timeout, which is the    *)
(* one the last receive() set, not this call's.                            *)
SendTimesOut ==
    /\ pc = "send" /\ linked /\ Len(dq) = DqCap
    /\ Return("connError", 0)
    /\ UNCHANGED <<sock, linked, rx, attached, events, cmd, expired,
                   daemonVars, issued, accepted, taken, lost, lastReply,
                   trouble>>

(* The daemon this socket was connected to is gone.  The kernel refuses    *)
(* the datagram, disconnects the socket and empties its receive queue.     *)
SendRefused ==
    /\ pc = "send" /\ ~linked
    /\ Return("connError", 0)
    /\ rx' = << >>
    /\ lost' = lost \cup RxEvents
    /\ UNCHANGED <<sock, linked, attached, events, cmd, expired, daemonVars,
                   issued, accepted, taken, lastReply, trouble>>

(* request() raises after its command has gone out: nobody will wait for   *)
(* the reply, and nothing will look for it when it comes.                  *)
GiveUpQuietly(kind) ==                          \* mutant: returns None
    /\ Return("none", 0)
    /\ trouble' = trouble \cup {"abandoned"}
GiveUp(kind) ==
    /\ Return(kind, 0)
    /\ trouble' = trouble \cup {"abandoned"}

(* remaining(deadline) is positive: recv() blocks. *)
EnterReceive ==
    /\ pc = "loop" /\ ~expired
    /\ pc' = "recv"
    /\ UNCHANGED <<sock, linked, rx, attached, events, cmd, expired, out,
                   daemonVars, issued, accepted, taken, lost, lastReply,
                   trouble>>

(* recv() removes the datagram it returns. *)
RestPeeked == rx                                \* mutant: recv(MSG_PEEK)
Rest == Tail(rx)

(* recv() takes a datagram whether it was blocking or, with nothing        *)
(* remaining, non-blocking.                                                *)
Receiving ==
    /\ \/ pc = "recv"
       \/ pc = "loop" /\ expired
    /\ rx # << >>

(* attach() and detach() record what their command() confirmed. *)
AttachedRegardless(verb, text) ==               \* mutant: FAIL not raised
    CASE verb = "ATTACH" -> TRUE
      [] verb = "DETACH" -> FALSE
      [] OTHER -> attached
AttachedAfter(verb, text) ==
    IF text # "OK" THEN attached
    ELSE CASE verb = "ATTACH" -> TRUE
           [] verb = "DETACH" -> FALSE
           [] OTHER -> attached

(* command() raises on anything but OK, request() returns it. *)
VerdictText(verb, text) == text                 \* mutant: the reply itself
Verdict(verb, text) ==
    IF verb = "REQUEST" \/ text = "OK" THEN "value" ELSE "refused"

(* The first datagram that is not an event is the reply, whatever command  *)
(* it answers.                                                             *)
ReceiveReply ==
    /\ Receiving /\ ~IsEvent(Head(rx))
    /\ rx' = Rest
    /\ lastReply' = Head(rx).id
    /\ attached' = AttachedAfter(cmd.verb, Head(rx).text)
    /\ Return(Verdict(cmd.verb, Head(rx).text), Head(rx).id)
    /\ UNCHANGED <<sock, linked, events, cmd, expired, daemonVars, issued,
                   accepted, taken, lost, trouble>>

SetAsideNothing(m) == events                    \* mutant: event dropped
SetAside(m) == Append(events, m.id)

(* After every event it takes, and then only, request() looks at its       *)
(* deadline: remaining(deadline) <= 0 raises, else it goes round again.    *)
LookAwayFromDeadline ==                         \* mutant: receive() alone times out
    /\ pc' = "loop"
    /\ UNCHANGED <<out, trouble>>
LookAtDeadline ==
    IF expired
    THEN GiveUp("timeout")
    ELSE /\ pc' = "loop"
         /\ UNCHANGED <<out, trouble>>

ReceiveEvent ==
    /\ Receiving /\ IsEvent(Head(rx))
    /\ rx' = Rest
    /\ events' = SetAside(Head(rx))
    /\ LookAtDeadline
    /\ UNCHANGED <<sock, linked, attached, cmd, expired, daemonVars, issued,
                   accepted, taken, lost, lastReply>>

(* A blocking recv() runs out of time: socket.timeout. *)
ReceiveTimesOut ==
    /\ pc = "recv" /\ expired /\ rx = << >>
    /\ GiveUp("timeout")
    /\ UNCHANGED <<sock, linked, rx, attached, events, cmd, expired,
                   daemonVars, issued, accepted, taken, lost, lastReply>>

(* settimeout(0) makes recv() non-blocking, and finding nothing it raises  *)
(* BlockingIOError, which is an OSError and no socket.timeout.             *)
ReceiveWouldBlock ==
    /\ pc = "loop" /\ expired /\ rx = << >>
    /\ GiveUp("connError")
    /\ UNCHANGED <<sock, linked, rx, attached, events, cmd, expired,
                   daemonVars, issued, accepted, taken, lost, lastReply>>

-----------------------------------------------------------------------------
(* next_event() *)

NextBuffered ==
    /\ pc = "idle" /\ events # << >>
    /\ events' = Tail(events)
    /\ taken' = taken \cup {Head(events)}
    /\ Return("event", Head(events))
    /\ UNCHANGED <<sock, linked, rx, attached, cmd, expired, daemonVars,
                   issued, accepted, lost, lastReply, trouble>>

(* next_event() opens nothing: _require_socket() raises. *)
NextStartAnyway(timeout) ==                      \* mutant: _events not looked at
    /\ pc = "idle"
    /\ IF sock
       THEN /\ pc' = "next"
            /\ expired' = (timeout = "zero")
            /\ UNCHANGED out
       ELSE /\ Return("connError", 0)
            /\ UNCHANGED expired
    /\ UNCHANGED <<sock, linked, rx, attached, events, cmd, daemonVars,
                   issued, accepted, taken, lost, lastReply, trouble>>
NextStart(timeout) ==
    /\ pc = "idle" /\ events = << >>
    /\ IF sock
       THEN /\ pc' = "next"
            /\ expired' = (timeout = "zero")
            /\ UNCHANGED out
       ELSE /\ Return("connError", 0)
            /\ UNCHANGED expired
    /\ UNCHANGED <<sock, linked, rx, attached, events, cmd, daemonVars,
                   issued, accepted, taken, lost, lastReply, trouble>>

(* pending() saw a datagram and receive() takes it.  No one else reads     *)
(* this socket, so nothing comes between the two.                          *)
NextTake ==
    /\ pc = "next" /\ rx # << >> /\ IsEvent(Head(rx))
    /\ rx' = Rest
    /\ taken' = taken \cup {Head(rx).id}
    /\ Return("event", Head(rx).id)
    /\ UNCHANGED <<sock, linked, attached, events, cmd, expired, daemonVars,
                   issued, accepted, lost, lastReply, trouble>>

(* A reply nobody waits for is dropped, and then the deadline is looked at. *)
NextDiscard ==
    /\ pc = "next" /\ rx # << >> /\ ~IsEvent(Head(rx))
    /\ rx' = Rest
    /\ lastReply' = Head(rx).id
    /\ IF expired THEN Return("noEvent", 0) ELSE UNCHANGED <<pc, out>>
    /\ UNCHANGED <<sock, linked, attached, events, cmd, expired, daemonVars,
                   issued, accepted, taken, lost, trouble>>

NextNone ==
    /\ pc = "next" /\ expired /\ rx = << >>
    /\ Return("noEvent", 0)
    /\ UNCHANGED <<sock, linked, rx, attached, events, cmd, expired,
                   daemonVars, issued, accepted, taken, lost, lastReply,
                   trouble>>

(* time.monotonic() reaches the deadline of the call in progress. *)
Tick ==
    /\ pc # "idle" /\ ~expired
    /\ expired' = TRUE
    /\ UNCHANGED <<sock, linked, rx, attached, events, pc, cmd, out,
                   daemonVars, issued, accepted, taken, lost, lastReply,
                   trouble>>

-----------------------------------------------------------------------------
(* The daemon: external to the package *)

(* A datagram reaches the client if its address is bound and has room.     *)
Deliverable == sock /\ Len(rx) < RxCap

(* Serve the oldest command; what it answers is up to the daemon, except   *)
(* that OK to ATTACH or DETACH means what it says.                         *)
Serve(text) ==
    /\ up /\ dq # << >>
    /\ dq' = Tail(dq)
    /\ monitors' = IF text # "OK" THEN monitors
                   ELSE CASE Head(dq).verb = "ATTACH" -> TRUE
                          [] Head(dq).verb = "DETACH" -> FALSE
                          [] OTHER -> monitors
    /\ IF Deliverable
       THEN rx' = Append(rx, Reply(Head(dq).id, text)) /\ UNCHANGED trouble
       ELSE UNCHANGED rx /\ trouble' = trouble \cup {"dropped"}
    /\ UNCHANGED <<clientVars, linked, up, issued, accepted, taken, lost,
                   lastReply>>

Emit ==
    /\ up /\ monitors /\ Deliverable /\ accepted < MaxEvents
    /\ accepted' = accepted + 1
    /\ rx' = Append(rx, EventMsg(accepted + 1))
    /\ UNCHANGED <<clientVars, linked, daemonVars, issued, taken, lost,
                   lastReply, trouble>>

(* An event that cannot be delivered is gone, and a daemon may give up on  *)
(* a monitor it cannot reach.                                              *)
EmitFails ==
    /\ up /\ monitors /\ ~Deliverable
    /\ monitors' \in BOOLEAN
    /\ trouble' = trouble \cup {"dropped"}
    /\ UNCHANGED <<clientVars, linked, rx, up, dq, issued, accepted, taken,
                   lost, lastReply>>

(* The daemon exits or crashes: its socket and its monitor list go. *)
Stop ==
    /\ up
    /\ up' = FALSE /\ dq' = << >> /\ monitors' = FALSE /\ linked' = FALSE
    /\ trouble' = trouble \cup {"stopped"}
    /\ UNCHANGED <<clientVars, rx, issued, accepted, taken, lost, lastReply>>

Start ==
    /\ ~up
    /\ up' = TRUE
    /\ UNCHANGED <<clientVars, linked, rx, dq, monitors, issued, accepted,
                   taken, lost, lastReply, trouble>>

-----------------------------------------------------------------------------
(* The steps the process takes by itself once a call is in progress. *)
CallStep ==
    \/ RequestSend \/ SendTimesOut \/ SendRefused \/ EnterReceive
    \/ ReceiveReply \/ ReceiveEvent \/ ReceiveTimesOut \/ ReceiveWouldBlock
    \/ NextTake \/ NextDiscard \/ NextNone

Caller ==
    \/ Open \/ Close \/ RequestUnopened \/ NextBuffered
    \/ \E verb \in Verbs, timeout \in Timeouts : RequestStart(verb, timeout)
    \/ \E timeout \in Timeouts : NextStart(timeout)

Daemon == Emit \/ EmitFails \/ Stop \/ Start \/ \E text \in Texts : Serve(text)

Next == Caller \/ CallStep \/ Tick \/ Daemon

Spec == Init /\ [][Next]_vars

-----------------------------------------------------------------------------
(* Properties *)

InFlight == IF pc \in {"loop", "recv"} THEN {cmd.id} ELSE {}

(* Commands no call is waiting for whose replies may still come. *)
Stale == Outstanding \ InFlight

Increasing(s) == \A i, j \in DOMAIN s : i < j => s[i] < s[j]
IdsIncreasing(q, kind) ==
    \A i, j \in DOMAIN q :
        i < j /\ q[i].kind = kind /\ q[j].kind = kind => q[i].id < q[j].id

(* The step that ends a call in one of the given ways. *)
Ends(kinds) == pc # "idle" /\ pc' = "idle" /\ out'.kind \in kinds

TypeOK ==
    /\ sock \in BOOLEAN /\ linked \in BOOLEAN /\ rx \in Seq(Message)
    /\ attached \in BOOLEAN /\ events \in Seq(Nat)
    /\ pc \in {"idle", "send", "loop", "recv", "next"}
    /\ cmd \in Command /\ expired \in BOOLEAN /\ out \in Outcome
    /\ up \in BOOLEAN /\ dq \in Seq(Command) /\ monitors \in BOOLEAN
    /\ issued \in Nat /\ accepted \in Nat
    /\ taken \in SUBSET Nat /\ lost \in SUBSET Nat /\ lastReply \in Nat
    /\ trouble \in SUBSET Troubles

(* Every event the socket accepted is still queued, set aside, handed over *)
(* or discarded with a queue: request() and next_event() between them drop *)
(* none, wherever their deadlines fall.                                    *)
NoEventVanishes ==
    1 .. accepted = taken \cup lost \cup Buffered \cup RxEvents

(* Events wait in the order they came: the set-aside ones are older than   *)
(* the queued ones, and both queues are in order.                          *)
EventsInOrder ==
    /\ Increasing(events)
    /\ IdsIncreasing(rx, "event")
    /\ \A b \in Buffered, r \in RxEvents : b < r
    /\ \A t \in taken, w \in Buffered \cup RxEvents : t < w

(* As long as no request has been given up on, each one returns the reply  *)
(* to its own command, whatever events, closings and restarts came between.*)
RepliesMatchUntilAbandoned ==
    "abandoned" \notin trouble /\ pc = "idle" /\ out.kind \in Answered
        => out.re = cmd.id

(* A request never returns a reply that was consumed before, or a reply    *)
(* older than one consumed before, or one to a command not yet sent.       *)
RepliesConsumedOnce ==
    [][Ends(Answered) => lastReply < out'.re /\ out'.re <= cmd.id]_vars

(* A connection with no reply due but its own request's returns that       *)
(* reply, and only a call that raises can leave a stray reply behind:      *)
(* close(), open(), next_event() and a restarted daemon never create one.  *)
SyncLostOnlyByError ==
    [][/\ Stale = {} /\ Ends(Answered) => out'.re = cmd.id
       /\ Stale = {} /\ Stale' # {} => Ends({"timeout", "connError"})]_vars

(* Between calls the client's idea of its subscription is the daemon's,    *)
(* unless a request was given up on, the daemon stopped, or a datagram to  *)
(* the client was dropped; after a close() the daemon may know more.       *)
AttachedIsMonitored ==
    pc = "idle" /\ trouble \cap {"abandoned", "stopped", "dropped"} = {}
        => /\ attached => monitors
           /\ "closed" \notin trouble => (attached <=> monitors)

(* pending() is true of an event, so next_event() does not come back       *)
(* without one although pending() was true (the drain loop of the event-   *)
(* loop recipe, client.py:165), until a request has been given up on.      *)
PendingMeansEvent ==
    [][Ends({"noEvent"}) /\ "abandoned" \notin trouble => ~Pending]_vars

(* WpaCtrl hands over events as EventStream says, whichever of request()   *)
(* and next_event() takes them off the socket.                             *)
Stream == INSTANCE EventStream WITH
              arrived <- accepted,
              waiting <- Buffered \cup RxEvents,
              delivered <- taken
ImplementsEventStream == Stream!Spec

-----------------------------------------------------------------------------
(* What the documentation says and the code does not do *)

(* client.py:112: "Send a command and return its reply verbatim." *)
ReplyIsForCommand == pc = "idle" /\ out.kind \in Answered => out.re = cmd.id
=============================================================================
