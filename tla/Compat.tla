------------------------------- MODULE Compat -------------------------------
(***************************************************************************)
(* compat.py: execute_command() over one shared connection per interface,  *)
(* kept in the module's dictionary _clients, and close_all().  It stands   *)
(* in for a wrapper that ran wpa_cli in a process of its own, which any    *)
(* number of threads could call; here threads share the dictionary and     *)
(* the connections in it.                                                  *)
(*                                                                         *)
(* A connection is modelled by what WpaCtrl promises of it: replies come   *)
(* in the order of the commands, and a request returns the next one.       *)
(***************************************************************************)
EXTENDS Naturals, Sequences, FiniteSets

CONSTANTS
    Threads,
    Ifnames,
    Clients,     \* the id()s WpaCtrl objects can have
    None,        \* no client
    MaxCalls     \* bound: calls of execute_command()

ASSUME ThreadsAssumption == IsFiniteSet(Threads)
ASSUME NoneAssumption == None \notin Clients
ASSUME MaxCallsAssumption == MaxCalls \in Nat

VARIABLES
    clients,    \* _clients: the client of each interface in it
    made,       \* history: the interfaces of the WpaCtrl objects made so far
    open,       \* the clients whose transport has a socket
    queue,      \* external: the commands sent over each client, unserved
    rx,         \* the replies waiting in each client's socket
    pc,         \* where each thread stands
    mine,       \* the client a thread holds, or none
    call,       \* the number of a thread's call, and the interface it names
    issued,     \* calls so far
    told,       \* what execute_command() last returned to each thread
    asked,      \* the interface whose daemon has each command
    verdicts,   \* history: what the daemon made of each command
    trouble     \* history: what has happened that can upset a call

vars == <<clients, made, open, queue, rx, pc, mine, call, issued, told, asked,
          verdicts, trouble>>

(* A reply as execute_command() sees it: OK, a refusal (FAIL, FAIL-BUSY,   *)
(* UNKNOWN COMMAND) or data.                                               *)
Replies == {"OK", "refusal", "data"}

(* What the caller is told: (True, None), (True, output), (False, None);   *)
(* or an exception that is no WpaCtrlError leaves execute_command(): there *)
(* was no socket to be had, the command cannot be encoded, the socket was  *)
(* closed under it.                                                        *)
Escapes == {"exhausted", "unencodable", "cutoff"}
Results == {"nothing", "true", "output", "false"} \cup Escapes

(* Two calls under way on one client; a request given up on after it was   *)
(* sent; two calls have found no client of one interface; close_all() has  *)
(* dropped a client; two threads in close_all() at once; a client closed   *)
(* under a call; a KeyError has left close_all().                          *)
Troubles == {"shared", "abandoned", "raced", "popped", "rivals", "closed", "missed"}
Note(kind, happened) == trouble' = IF happened THEN trouble \cup {kind} ELSE trouble

PCs == {"idle", "create", "open", "send", "receive", "check", "pop", "close"}

TypeOK ==
    /\ clients \in [Ifnames -> Clients \cup {None}]
    /\ made \in Seq(Ifnames) /\ open \subseteq Clients
    /\ queue \in [Clients -> Seq(Nat)]
    /\ rx \in [Clients -> Seq([to : Nat, reply : Replies])]
    /\ pc \in [Threads -> PCs] /\ mine \in [Threads -> Clients \cup {None}]
    /\ call \in [Threads -> [no : Nat, ifname : Ifnames]]
    /\ issued \in Nat /\ told \in [Threads -> [no : Nat, result : Results]]
    /\ asked \in Seq(Ifnames)
    /\ verdicts \in Seq(Replies \cup {"unserved"})
    /\ trouble \subseteq Troubles

Init ==
    /\ clients = [i \in Ifnames |-> None] /\ made = << >> /\ open = {}
    /\ queue = [c \in Clients |-> << >>] /\ rx = [c \in Clients |-> << >>]
    /\ pc = [t \in Threads |-> "idle"] /\ mine = [t \in Threads |-> None]
    /\ call \in [Threads -> [no : {0}, ifname : Ifnames]]
    /\ issued = 0 /\ told = [t \in Threads |-> [no |-> 0, result |-> "nothing"]]
    /\ asked = << >> /\ verdicts = << >> /\ trouble = {}

-----------------------------------------------------------------------------
(* A thread lets go of its client at the end of a call.  One that is not   *)
(* in the dictionary either, and that no other thread holds, is garbage:   *)
(* its socket is closed with it, and what waits there goes.                *)
Held(holds, dict) == {holds[t] : t \in Threads} \cup {dict[i] : i \in Ifnames}

Sockets(still) ==
    /\ open' = still
    /\ rx' = [c \in Clients |-> IF c \in still THEN rx[c] ELSE << >>]

Release(t) ==
    /\ mine' = [mine EXCEPT ![t] = None]
    /\ Sockets(open \cap Held(mine', clients))

Return(t, result) ==
    /\ pc' = [pc EXCEPT ![t] = "idle"]
    /\ told' = [told EXCEPT ![t] = [no |-> call[t].no, result |-> result]]
    /\ Release(t)

-----------------------------------------------------------------------------
(* execute_command() *)

(* A thread in a call, with its client in hand. *)
Calling(t) == pc[t] \in {"open", "send", "receive"}

(* Another thread holds the client of the interface, or has found none.    *)
UnderWay(i) == clients[i] # None /\ \E u \in Threads : mine[u] = clients[i]
BeingMade(i) ==
    clients[i] = None /\ \E u \in Threads : pc[u] = "create" /\ call[u].ifname = i

(* get_client(): the dictionary is read.  The call holds what it finds.    *)
Execute(t, i) ==
    /\ pc[t] = "idle" /\ issued < MaxCalls
    /\ issued' = issued + 1
    /\ asked' = Append(asked, i) /\ verdicts' = Append(verdicts, "unserved")
    /\ call' = [call EXCEPT ![t] = [no |-> issued + 1, ifname |-> i]]
    /\ mine' = [mine EXCEPT ![t] = clients[i]]
    /\ pc' = [pc EXCEPT ![t] = IF clients[i] = None THEN "create" ELSE "open"]
    /\ trouble' = trouble \cup {kind \in {"shared", "raced"} :
                               IF kind = "shared" THEN UnderWay(i) ELSE BeingMade(i)}
    /\ UNCHANGED <<clients, made, open, queue, rx, told>>

(* There was none: a new one is put in, over any that has come meanwhile.  *)
StoredOver(t, c) == clients                     \* mutant: client not stored
Stored(t, c) == [clients EXCEPT ![call[t].ifname] = c]

(* It has an id() no other has now, and with it an address (transport.py:  *)
(* 100) that one before it may have had.                                   *)
Create(t) ==
    /\ pc[t] = "create"
    /\ made' = Append(made, call[t].ifname)
    /\ \E c \in Clients \ Held(mine, clients) :
          /\ clients' = Stored(t, c)
          /\ mine' = [mine EXCEPT ![t] = c]
    /\ Sockets(open \cap Held(mine', clients'))
    /\ pc' = [pc EXCEPT ![t] = "open"]
    /\ UNCHANGED <<queue, call, issued, told, asked, verdicts, trouble>>

(* request(): open() succeeds or there is no daemon to be reached. *)
OpenClient(t) ==
    /\ pc[t] = "open"
    /\ open' = open \cup {mine[t]}
    /\ pc' = [pc EXCEPT ![t] = "send"]
    /\ UNCHANGED <<clients, made, queue, rx, mine, call, issued, told,
                   asked, verdicts, trouble>>

OpenFails(t) ==
    /\ pc[t] = "open" /\ mine[t] \notin open
    /\ Return(t, "false")
    /\ UNCHANGED <<clients, made, queue, call, issued, asked, verdicts, trouble>>

(* Or it fails before it has a socket: socket.socket() stands outside the  *)
(* try, and its OSError becomes no WpaCtrlConnectionError.                 *)
OpenEscapes(t) ==
    /\ pc[t] = "open" /\ mine[t] \notin open
    /\ Return(t, "exhausted")
    /\ UNCHANGED <<clients, made, queue, call, issued, asked, verdicts, trouble>>

Send(t) ==
    /\ pc[t] = "send" /\ mine[t] \in open
    /\ queue' = [queue EXCEPT ![mine[t]] = Append(@, call[t].no)]
    /\ pc' = [pc EXCEPT ![t] = "receive"]
    /\ UNCHANGED <<clients, made, open, rx, mine, call, issued, told, asked,
                   verdicts, trouble>>

(* The daemon has gone or its queue is full, or another thread has closed  *)
(* the client since it was opened.                                         *)
SendFails(t) ==
    /\ pc[t] = "send"
    /\ Return(t, "false")
    /\ UNCHANGED <<clients, made, queue, call, issued, asked, verdicts, trouble>>

(* encode() raises UnicodeEncodeError, which is no OSError, before         *)
(* anything is sent: a surrogate in the command, as in a file name.        *)
SendEscapes(t) ==
    /\ pc[t] = "send"
    /\ Return(t, "unencodable")
    /\ UNCHANGED <<clients, made, queue, call, issued, asked, verdicts, trouble>>

(* A refusal is no success; OK has no output. *)
VerdictText(reply) == reply                     \* mutant: output alone returned
VerdictAny(reply) == IF reply = "OK" THEN "true" ELSE "output"  \* mutant: no FAIL test
Verdict(reply) ==
    CASE reply = "OK" -> "true"
      [] reply = "data" -> "output"
      [] OTHER -> "false"

(* recv() removes the datagram it returns. *)
RestPeeked(waiting) == waiting                  \* mutant: recv(MSG_PEEK)
Rest(waiting) == Tail(waiting)

(* The next reply in the socket, whichever thread asked for it. *)
Receive(t) ==
    /\ pc[t] = "receive" /\ rx[mine[t]] # << >>
    /\ LET c == mine[t]
           kept == [rx EXCEPT ![c] = Rest(@)]
       IN  /\ pc' = [pc EXCEPT ![t] = "idle"]
           /\ told' = [told EXCEPT ![t] =
                          [no |-> call[t].no, result |-> Verdict(Head(rx[c]).reply)]]
           /\ mine' = [mine EXCEPT ![t] = None]
           /\ open' = open \cap Held(mine', clients)
           /\ rx' = [d \in Clients |-> IF d \in open' THEN kept[d] ELSE << >>]
    /\ UNCHANGED <<clients, made, queue, call, issued, asked, verdicts, trouble>>

(* No reply in time, or the socket closed under the thread.  The client    *)
(* stays in the dictionary, whatever is the matter with it.                *)
ReceiveFails(t) ==
    /\ pc[t] = "receive"
    /\ Return(t, "false")
    /\ Note("abandoned", TRUE)
    /\ UNCHANGED <<clients, made, queue, call, issued, asked, verdicts>>

(* Closed between _require_socket() and settimeout(), which no handler     *)
(* guards: an OSError the caller of execute_command() is not told to       *)
(* expect.                                                                 *)
ReceiveEscapes(t) ==
    /\ pc[t] = "receive" /\ mine[t] \notin open
    /\ Return(t, "cutoff")
    /\ Note("abandoned", TRUE)
    /\ UNCHANGED <<clients, made, queue, call, issued, asked, verdicts>>

-----------------------------------------------------------------------------
(* close_all() *)

CloseAll(t) ==
    /\ pc[t] = "idle"
    /\ pc' = [pc EXCEPT ![t] = "check"]
    /\ Note("rivals", \E u \in Threads : pc[u] \in {"check", "pop", "close"})
    /\ UNCHANGED <<clients, made, open, queue, rx, mine, call, issued, told,
                   asked, verdicts>>

Empty == \A i \in Ifnames : clients[i] = None

CheckNot(t) ==                                  \* mutant: while True
    /\ pc[t] = "check"
    /\ pc' = [pc EXCEPT ![t] = "pop"]
    /\ UNCHANGED <<clients, made, open, queue, rx, mine, call, issued, told,
                   asked, verdicts, trouble>>
Check(t) ==
    /\ pc[t] = "check"
    /\ pc' = [pc EXCEPT ![t] = IF Empty THEN "idle" ELSE "pop"]
    /\ UNCHANGED <<clients, made, open, queue, rx, mine, call, issued, told,
                   asked, verdicts, trouble>>

(* popitem() of a dictionary another thread has emptied raises KeyError.   *)
Pop(t) ==
    /\ pc[t] = "pop"
    /\ \/ /\ \E i \in Ifnames :
                /\ clients[i] # None
                /\ mine' = [mine EXCEPT ![t] = clients[i]]
                /\ clients' = [clients EXCEPT ![i] = None]
          /\ pc' = [pc EXCEPT ![t] = "close"]
          /\ Note("popped", TRUE)
       \/ /\ Empty
          /\ pc' = [pc EXCEPT ![t] = "idle"]
          /\ Note("missed", TRUE)
          /\ UNCHANGED <<clients, mine>>
    /\ UNCHANGED <<made, open, queue, rx, call, issued, told, asked, verdicts>>

Close(t) ==
    /\ pc[t] = "close"
    /\ mine' = [mine EXCEPT ![t] = None]
    /\ Sockets((open \ {mine[t]}) \cap Held(mine', clients))
    /\ pc' = [pc EXCEPT ![t] = "check"]
    /\ Note("closed", \E u \in Threads \ {t} : mine[u] = mine[t])
    /\ UNCHANGED <<clients, made, queue, call, issued, told, asked, verdicts>>

-----------------------------------------------------------------------------
(* The daemon serves a command and answers: external to the package.  The  *)
(* reply goes to the address the command came from, which may be gone, or  *)
(* be another client's by now.  A connected socket takes datagrams from    *)
(* its own daemon only.                                                    *)
Connected(c, i) ==
    /\ c \in open
    /\ \/ clients[i] = c
       \/ \E t \in Threads : Calling(t) /\ mine[t] = c /\ call[t].ifname = i

Serve(c, reply) ==
    /\ queue[c] # << >>
    /\ queue' = [queue EXCEPT ![c] = Tail(@)]
    /\ LET n == Head(queue[c])
       IN  /\ verdicts' = [verdicts EXCEPT ![n] = reply]
           /\ rx' = IF Connected(c, asked[n])
                    THEN [rx EXCEPT ![c] = Append(@, [to |-> n, reply |-> reply])]
                    ELSE rx
    /\ UNCHANGED <<clients, made, open, pc, mine, call, issued, told, asked,
                   trouble>>

Thread(t) ==
    \/ Create(t) \/ OpenClient(t) \/ OpenFails(t) \/ OpenEscapes(t)
    \/ Send(t) \/ SendFails(t) \/ SendEscapes(t)
    \/ Receive(t) \/ ReceiveFails(t) \/ ReceiveEscapes(t)
    \/ CloseAll(t) \/ Check(t) \/ Pop(t) \/ Close(t)
    \/ \E i \in Ifnames : Execute(t, i)

Next ==
    \/ \E t \in Threads : Thread(t)
    \/ \E c \in Clients, reply \in Replies : Serve(c, reply)

Spec == Init /\ [][Next]_vars

-----------------------------------------------------------------------------
(* Properties *)

(* One connection per interface, reused across calls (compat.py:23): no    *)
(* second client is made for one unless close_all() has dropped the first  *)
(* or two calls found none at the same time.                               *)
OneClientEach ==
    \A c, d \in DOMAIN made :
        c # d /\ made[c] = made[d] => trouble \cap {"raced", "popped"} # {}

(* As long as no two calls have been under way on one client and no        *)
(* request has timed out, a call succeeds exactly if the daemon did not    *)
(* refuse its own command (compat.py:63), and returns output exactly if    *)
(* the daemon gave some, whichever threads make and close clients          *)
(* meanwhile.                                                              *)
TellsOwnVerdict ==
    \A t \in Threads :
        /\ told[t].result \notin Escapes \cup {"nothing"}
        /\ trouble \cap {"shared", "abandoned"} = {}
        => /\ told[t].result = "false"
                <=> verdicts[told[t].no] \in {"unserved", "refusal"}
           /\ told[t].result = "output" <=> verdicts[told[t].no] = "data"

(* As long, too, nothing is under way on a client that is in no call's     *)
(* hands: no reply waits in its socket and no command of it at a daemon,   *)
(* so that the next call on it, or on a new client that gets its address,  *)
(* starts in step; whoever has closed it, or dropped it, and whatever has  *)
(* escaped.                                                                *)
InStepBetweenCalls ==
    \A c \in Clients :
        /\ trouble \cap {"shared", "abandoned"} = {}
        /\ \A t \in Threads : ~(Calling(t) /\ mine[t] = c)
        => queue[c] = << >> /\ rx[c] = << >>

(* Of the exceptions that leave this module two take a race: a socket is   *)
(* closed under a call by close_all() alone, and popitem() finds nothing   *)
(* only for two threads in close_all() at once.                            *)
RacesBehindEscapes ==
    /\ \A t \in Threads : told[t].result = "cutoff" => "closed" \in trouble
    /\ "missed" \in trouble => "rivals" \in trouble

-----------------------------------------------------------------------------
(* What the documentation says and the code does not do *)

(* compat.py:64: "(False, None) for FAIL or any error reaching the daemon" *)
(* - so none leaves execute_command() as an exception.                     *)
NothingEscapes == \A t \in Threads : told[t].result \notin Escapes
=============================================================================
