------------------------------ MODULE Address ------------------------------
(***************************************************************************)
(* The address a CtrlTransport gives its own socket (transport.py):        *)
(* open(), close() and _unlink(), one system call or assignment at a time, *)
(* in threads that may share a transport, with processes that are killed   *)
(* and transports that are dropped without close().                        *)
(*                                                                         *)
(* The daemon answers to the address a command came from, so a connection  *)
(* is of use only while its address leads to its own socket.  The other    *)
(* modules take that for granted; here it is what open() must establish.   *)
(***************************************************************************)
EXTENDS Naturals, FiniteSets

CONSTANTS
    Pids,      \* process identifiers
    Objects,   \* transports, each named by its process and its id() there
    Threads,   \* calls of open() and close() that may be under way at once
    MaxSockets \* bound: sockets that exist at once

ASSUME ObjectsAssumption == \A o \in Objects : o[1] \in Pids /\ o # <<0, 0>>
ASSUME ThreadsAssumption == IsFiniteSet(Threads)
ASSUME MaxSocketsAssumption == MaxSockets \in Nat \ {0}

VARIABLES
    host,    \* what the platform offers; never changes
    up,      \* the daemon's socket is bound
    names,   \* external: the socket bound to each abstract name, or None
    files,   \* external: the socket files in client_dir, by name
    inodes,  \* external: the socket that still listens at each file, or None
    socket,  \* _socket of each transport, or None
    path,    \* the transports whose _client_path is set
    pc,      \* where each thread stands
    on,      \* the transport it works on
    sock,    \* open()'s local of the same name
    bound,   \* the threads whose open() has set its local client_path
    raced,   \* history: the transports two threads have been in at once
    left     \* history: files whose transport is gone

kernel == <<names, files, inodes>>
object == <<socket, path>>
vars == <<host, up, kernel, object, pc, on, sock, bound, raced, left>>

None == 0
Sockets == 1 .. MaxSockets

(* Abstract names, a client_dir to put files in, or neither. *)
Hosts == {"abstract", "files", "neither"}

(* Where an idle thread is. *)
Nowhere == <<0, 0>>

Opening == {"bind", "unlink", "bindFile", "connect", "publish", "setPath"}
Failing == {"fail", "failUnlink"}
Closing == {"close", "forget", "closeUnlink", "forgetPath"}

(* Unique per process and per connection, among those that exist at once.  *)
(* Once a process is gone, or a transport dropped, another can come by its *)
(* name.                                                                   *)
NameByProcess(o) == CHOOSE n \in Objects : n[1] = o[1]   \* mutant: no id(self)
Name(o) == o

Busy(o) == {t \in Threads : on[t] = o}

TypeOK ==
    /\ host \in Hosts /\ up \in BOOLEAN
    /\ names \in [Objects -> Sockets \cup {None}]
    /\ files \subseteq Objects /\ inodes \in [Objects -> Sockets \cup {None}]
    /\ socket \in [Objects -> Sockets \cup {None}] /\ path \subseteq Objects
    /\ pc \in [Threads -> Opening \cup Failing \cup Closing \cup {"idle"}]
    /\ on \in [Threads -> Objects \cup {Nowhere}]
    /\ sock \in [Threads -> Sockets \cup {None}] /\ bound \subseteq Threads
    /\ raced \subseteq Objects /\ left \subseteq Objects

Init ==
    /\ host \in Hosts /\ up \in BOOLEAN
    /\ names = [o \in Objects |-> None]
    /\ files = {} /\ inodes = [o \in Objects |-> None]
    /\ socket = [o \in Objects |-> None] /\ path = {}
    /\ pc = [t \in Threads |-> "idle"] /\ on = [t \in Threads |-> Nowhere]
    /\ sock = [t \in Threads |-> None] /\ bound = {}
    /\ raced = {} /\ left = {}

-----------------------------------------------------------------------------
(* A socket is released when it is closed or nothing refers to it.  Its    *)
(* abstract name is free at once; its file stays, and leads nowhere.       *)
Referred(ref, local) == {ref[o] : o \in Objects} \cup {local[t] : t \in Threads}
Without(table, dead) == [o \in Objects |-> IF table[o] \in dead THEN None ELSE table[o]]

Released(dead) ==
    /\ names' = Without(names, dead)
    /\ inodes' = Without(inodes, dead)

Goto(t, label) == pc' = [pc EXCEPT ![t] = label]

(* The call ends; its locals go. *)
Return(t) ==
    /\ Goto(t, "idle")
    /\ on' = [on EXCEPT ![t] = Nowhere]
    /\ sock' = [sock EXCEPT ![t] = None]
    /\ bound' = bound \ {t}

Unlinked(n) ==
    /\ files' = files \ {n}
    /\ inodes' = [inodes EXCEPT ![n] = None]
    /\ left' = left \ {n}

Enter(t, o) ==
    /\ pc[t] = "idle"
    /\ on' = [on EXCEPT ![t] = o]
    /\ raced' = IF Busy(o) = {} THEN raced ELSE raced \cup {o}

-----------------------------------------------------------------------------
(* open() *)

(* socket() takes the lowest number free. *)
Free == Sockets \ Referred(socket, sock)
Fresh == CHOOSE s \in Free : \A r \in Free : s <= r

(* There is no _socket: make one.  With one, open() does nothing; nor does *)
(* it where socket() fails, for want of a descriptor: that raises before   *)
(* anything is bound or kept, so it is no step here.                       *)
Open(t, o) ==
    /\ Enter(t, o) /\ socket[o] = None /\ Free # {}
    /\ sock' = [sock EXCEPT ![t] = Fresh]
    /\ Goto(t, "bind")
    /\ UNCHANGED <<host, up, kernel, object, bound, left>>

(* bind() to the abstract name, where there are such and it is free. *)
Bind(t) ==
    /\ pc[t] = "bind"
    /\ IF host = "abstract" /\ names[Name(on[t])] = None
       THEN /\ names' = [names EXCEPT ![Name(on[t])] = sock[t]]
            /\ Goto(t, "connect")
            /\ UNCHANGED bound
       ELSE /\ bound' = bound \cup {t}
            /\ Goto(t, "unlink")
            /\ UNCHANGED names
    /\ UNCHANGED <<host, up, files, inodes, object, on, sock, raced, left>>

(* The leftover of a predecessor of this name goes, if there is one. *)
UnlinkNothing(t) ==                              \* mutant: no unlink before bind
    /\ pc[t] = "unlink"
    /\ Goto(t, "bindFile")
    /\ UNCHANGED <<host, up, kernel, object, on, sock, bound, raced, left>>
Unlink(t) ==
    /\ pc[t] = "unlink"
    /\ Unlinked(Name(on[t]))
    /\ Goto(t, "bindFile")
    /\ UNCHANGED <<host, up, names, object, on, sock, bound, raced>>

(* bind() to a file, which must not exist yet. *)
BindFile(t) ==
    /\ pc[t] = "bindFile"
    /\ IF host # "neither" /\ Name(on[t]) \notin files
       THEN /\ files' = files \cup {Name(on[t])}
            /\ inodes' = [inodes EXCEPT ![Name(on[t])] = sock[t]]
            /\ Goto(t, "connect")
       ELSE /\ Goto(t, "fail")
            /\ UNCHANGED <<files, inodes>>
    /\ UNCHANGED <<host, up, names, object, on, sock, bound, raced, left>>

Connect(t) ==
    /\ pc[t] = "connect"
    /\ Goto(t, IF up THEN "publish" ELSE "fail")
    /\ UNCHANGED <<host, up, kernel, object, on, sock, bound, raced, left>>

(* self._socket = sock.  A socket another thread put there since loses its *)
(* last reference, unless that thread is still inside open().              *)
Publish(t) ==
    /\ pc[t] = "publish"
    /\ socket' = [socket EXCEPT ![on[t]] = sock[t]]
    /\ Released({socket[on[t]]} \ Referred(socket', sock))
    /\ Goto(t, "setPath")
    /\ UNCHANGED <<host, up, files, path, on, sock, bound, raced, left>>

(* open()'s local client_path: its transport's name, or None. *)
ClientPathAlways(t) == {IF t \in bound THEN on[t] ELSE Nowhere}  \* mutant: None is a path
ClientPath(t) == IF t \in bound THEN {on[t]} ELSE {}

(* self._client_path = client_path, and open() is done. *)
SetPath(t) ==
    /\ pc[t] = "setPath"
    /\ path' = (path \ {on[t]}) \cup ClientPath(t)
    /\ Return(t)
    /\ Released({sock[t]} \ Referred(socket, sock'))
    /\ UNCHANGED <<host, up, files, socket, raced, left>>

(* except OSError: close the socket, ... *)
Fail(t) ==
    /\ pc[t] = "fail"
    /\ Released({sock[t]})
    /\ Goto(t, "failUnlink")
    /\ UNCHANGED <<host, up, files, object, on, sock, bound, raced, left>>

(* ... remove the file if open() got as far as one, and raise. *)
FailUnlinkNot(t) ==                              \* mutant: the file is kept
    /\ pc[t] = "failUnlink"
    /\ Return(t)
    /\ UNCHANGED <<host, up, kernel, object, raced, left>>
FailUnlink(t) ==
    /\ pc[t] = "failUnlink"
    /\ IF t \in bound THEN Unlinked(Name(on[t])) ELSE UNCHANGED <<files, inodes, left>>
    /\ Return(t)
    /\ UNCHANGED <<host, up, names, object, raced>>

-----------------------------------------------------------------------------
(* close() *)

Close(t, o) ==
    /\ Enter(t, o)
    /\ Goto(t, IF socket[o] = None THEN "closeUnlink" ELSE "close")
    /\ UNCHANGED <<host, up, kernel, object, sock, bound, left>>

(* self._socket.close(), on the _socket there is by now: None has no       *)
(* close(), and the AttributeError leaves close().                         *)
CloseSocket(t) ==
    /\ pc[t] = "close"
    /\ IF socket[on[t]] = None
       THEN Return(t) /\ UNCHANGED <<names, inodes>>
       ELSE /\ Released({socket[on[t]]})
            /\ Goto(t, "forget")
            /\ UNCHANGED <<on, sock, bound>>
    /\ UNCHANGED <<host, up, files, object, raced, left>>

Forget(t) ==
    /\ pc[t] = "forget"
    /\ socket' = [socket EXCEPT ![on[t]] = None]
    /\ Released({socket[on[t]]} \ Referred(socket', sock))
    /\ Goto(t, "closeUnlink")
    /\ UNCHANGED <<host, up, files, path, on, sock, bound, raced, left>>

CloseUnlink(t) ==
    /\ pc[t] = "closeUnlink"
    /\ IF on[t] \in path THEN Unlinked(Name(on[t])) ELSE UNCHANGED <<files, inodes, left>>
    /\ Goto(t, "forgetPath")
    /\ UNCHANGED <<host, up, names, object, on, sock, bound, raced>>

ForgetPath(t) ==
    /\ pc[t] = "forgetPath"
    /\ path' = path \ {on[t]}
    /\ Return(t)
    /\ UNCHANGED <<host, up, kernel, socket, raced, left>>

-----------------------------------------------------------------------------
(* What goes on around a transport *)

(* The transports O go, with the calls in them and their sockets.  Their   *)
(* files stay; others may come by their names.                             *)
Gone(O) ==
    LET T == {t \in Threads : on[t] \in O}
    IN  /\ socket' = [o \in Objects |-> IF o \in O THEN None ELSE socket[o]]
        /\ path' = path \ O
        /\ pc' = [t \in Threads |-> IF t \in T THEN "idle" ELSE pc[t]]
        /\ on' = [t \in Threads |-> IF t \in T THEN Nowhere ELSE on[t]]
        /\ sock' = [t \in Threads |-> IF t \in T THEN None ELSE sock[t]]
        /\ bound' = bound \ T
        /\ Released({socket[o] : o \in O} \cup {sock[t] : t \in T})
        /\ left' = left \cup {n \in files : \E o \in O : n = Name(o)}
        /\ raced' = raced \ O
        /\ UNCHANGED <<host, up, files>>

(* A process is killed, or exits without closing anything. *)
Kill(p) == Gone({o \in Objects : o[1] = p})

(* The last reference to a transport goes, and no one has closed it. *)
Drop(o) ==
    /\ Busy(o) = {}
    /\ Gone({o})

(* The daemon starts or stops. *)
Daemon ==
    /\ up' = ~up
    /\ UNCHANGED <<host, kernel, object, pc, on, sock, bound, raced, left>>

OpenStep(t) ==
    \/ Bind(t) \/ Unlink(t) \/ BindFile(t) \/ Connect(t) \/ Publish(t)
    \/ SetPath(t) \/ Fail(t) \/ FailUnlink(t)
CloseStep(t) == CloseSocket(t) \/ Forget(t) \/ CloseUnlink(t) \/ ForgetPath(t)

Next ==
    \/ \E t \in Threads :
           OpenStep(t) \/ CloseStep(t) \/ \E o \in Objects : Open(t, o) \/ Close(t, o)
    \/ \E p \in Pids : Kill(p)
    \/ \E o \in Objects : Drop(o)
    \/ Daemon

Spec == Init /\ [][Next]_vars

-----------------------------------------------------------------------------
(* Properties *)

(* A transport no two threads have been in at once, between its calls. *)
AtRest(o) == Busy(o) = {} /\ o \notin raced

(* An open connection is where the daemon's replies go: its address leads  *)
(* to its own socket, whatever other transports and processes open, close, *)
(* fail and leave behind meanwhile (transport.py:85).                      *)
ReachesItself ==
    \A o \in Objects :
        AtRest(o) /\ socket[o] # None =>
            IF o \in path THEN inodes[Name(o)] = socket[o]
            ELSE names[Name(o)] = socket[o]

(* A socket file belongs to a connection that is open, or was left by a    *)
(* transport that was never closed: close() and a failed open() leave      *)
(* none.  With abstract names a transport makes none at all, killed or not *)
(* (transport.py:89).                                                      *)
NoLitter ==
    \A o \in Objects :
        /\ AtRest(o) /\ Name(o) \in files
               => Name(o) \in left \/ (o \in path /\ socket[o] # None)
        /\ host = "abstract" /\ o \notin raced => o \notin path \cup {on[t] : t \in bound}

(* open() fails for want of a daemon or of a place for the address, and    *)
(* close() never raises: what a killed predecessor left under the same     *)
(* name (transport.py:109) is in nobody's way.  Threads that race in one   *)
(* transport may fail otherwise.                                           *)
FailsOnlyForCause ==
    [][\A t \in Threads :
          on[t] \notin raced =>
              /\ pc[t] # "fail" /\ pc'[t] = "fail" =>
                     ~up \/ host = "neither"
              /\ pc[t] = "close" => socket[on[t]] # None]_vars
=============================================================================
