--------------------------- MODULE AddressProofs ---------------------------
(***************************************************************************)
(* What holds of the addresses of transports (transport.py), for any       *)
(* number of processes, transports, threads and sockets.                   *)
(***************************************************************************)
EXTENDS Address, WellFoundedInduction, TLAPS

-----------------------------------------------------------------------------
(* The operators the model is built from *)

(* There is a lowest number among those free. *)
LEMMA FreshIsFree ==
  ASSUME Free # {}
  PROVE  Fresh \in Free
<1>1. Free \subseteq Nat /\ Free # {}
  BY MaxSocketsAssumption DEF Free, Sockets
<1>2. \E s \in Free : \A r \in Free : ~(r < s)
  <2>1. \E s \in Free : \A r \in Free : <<r, s>> \notin OpToRel(<, Nat)
    BY <1>1, NatLessThanWellFounded, WFMin
  <2> QED BY <1>1, <2>1 DEF OpToRel
<1>3. \E s \in Free : \A r \in Free : s <= r
  BY <1>1, <1>2
<1> QED BY <1>3 DEF Fresh

(* A socket taken for a new one is nobody's. *)
LEMMA FreshIsNew ==
  ASSUME Free # {}
  PROVE  /\ Fresh \in Sockets /\ Fresh # None
         /\ \A o \in Objects : socket[o] # Fresh
         /\ \A t \in Threads : sock[t] # Fresh
<1>1. Fresh \in Sockets \ Referred(socket, sock)
  BY FreshIsFree DEF Free
<1> QED BY <1>1, MaxSocketsAssumption DEF Sockets, None, Referred

LEMMA NobodyIsNoSocket == None \notin Sockets /\ Nowhere \notin Objects
BY ObjectsAssumption, MaxSocketsAssumption DEF Sockets, None, Nowhere

(* Releasing sockets takes the addresses of those, and only those. *)
LEMMA ReleasedSays ==
  ASSUME TypeOK, NEW dead, Released(dead)
  PROVE  /\ names' \in [Objects -> Sockets \cup {None}]
         /\ inodes' \in [Objects -> Sockets \cup {None}]
         /\ \A o \in Objects :
               /\ names[o] \in dead => names'[o] = None
               /\ names[o] \notin dead => names'[o] = names[o]
               /\ inodes[o] \in dead => inodes'[o] = None
               /\ inodes[o] \notin dead => inodes'[o] = inodes[o]
BY DEF TypeOK, Released, Without

-----------------------------------------------------------------------------
(* Type correctness *)

(* A thread is at work on a transport unless it is idle. *)
Located == \A t \in Threads : pc[t] = "idle" <=> on[t] = Nowhere

TypeInv == TypeOK /\ Located

LEMMA AtWork ==
  ASSUME TypeInv, NEW t \in Threads, pc[t] # "idle"
  PROVE  on[t] \in Objects /\ on[t] # Nowhere
BY NobodyIsNoSocket DEF TypeInv, TypeOK, Located

LEMMA OpenType == ASSUME TypeInv, NEW t \in Threads, OpenStep(t) PROVE TypeInv'
<1> USE DEF TypeInv, Located, TypeOK, kernel, object, Goto, Opening, Failing, Closing
<1>0. on[t] \in Objects /\ on[t] # Nowhere
  BY AtWork DEF OpenStep, Bind, Unlink, BindFile, Connect, Publish, SetPath, Fail, FailUnlink
<1>1. CASE Bind(t) BY <1>0, <1>1 DEF Bind, Name
<1>2. CASE Unlink(t) BY <1>0, <1>2 DEF Unlink, Unlinked, Name
<1>3. CASE BindFile(t) BY <1>0, <1>3 DEF BindFile, Name
<1>4. CASE Connect(t) BY <1>0, <1>4 DEF Connect
<1>5. CASE Publish(t) BY <1>0, <1>5, ReleasedSays DEF Publish
<1>6. CASE SetPath(t) BY <1>0, <1>6, ReleasedSays DEF SetPath, Return, ClientPath
<1>7. CASE Fail(t) BY <1>0, <1>7, ReleasedSays DEF Fail
<1>8. CASE FailUnlink(t) BY <1>0, <1>8 DEF FailUnlink, Return, Unlinked, Name
<1> QED BY <1>1, <1>2, <1>3, <1>4, <1>5, <1>6, <1>7, <1>8 DEF OpenStep

LEMMA CloseType == ASSUME TypeInv, NEW t \in Threads, CloseStep(t) PROVE TypeInv'
<1> USE DEF TypeInv, Located, TypeOK, kernel, object, Goto, Opening, Failing, Closing
<1>0. on[t] \in Objects /\ on[t] # Nowhere
  BY AtWork DEF CloseStep, CloseSocket, Forget, CloseUnlink, ForgetPath
<1>1. CASE CloseSocket(t) BY <1>0, <1>1, ReleasedSays DEF CloseSocket, Return
<1>2. CASE Forget(t) BY <1>0, <1>2, ReleasedSays DEF Forget
<1>3. CASE CloseUnlink(t) BY <1>0, <1>3 DEF CloseUnlink, Unlinked, Name
<1>4. CASE ForgetPath(t) BY <1>0, <1>4 DEF ForgetPath, Return
<1> QED BY <1>1, <1>2, <1>3, <1>4 DEF CloseStep

LEMMA EnterType ==
  ASSUME TypeInv, NEW t \in Threads, NEW o \in Objects, Open(t, o) \/ Close(t, o)
  PROVE  TypeInv'
<1> USE DEF TypeInv, Located, TypeOK, kernel, object, Goto, Enter, Opening, Closing
<1>1. CASE Open(t, o) BY <1>1, FreshIsNew, NobodyIsNoSocket DEF Open
<1>2. CASE Close(t, o) BY <1>2, NobodyIsNoSocket DEF Close
<1> QED BY <1>1, <1>2

LEMMA AroundType ==
  ASSUME TypeInv,
         \/ \E O \in SUBSET Objects : Gone(O)
         \/ Daemon
         \/ UNCHANGED vars
  PROVE  TypeInv'
<1> USE DEF TypeInv, Located, TypeOK, kernel, object
<1>1. ASSUME NEW O \in SUBSET Objects, Gone(O) PROVE TypeInv'
  BY <1>1, ReleasedSays DEF Gone
<1>2. CASE Daemon BY <1>2 DEF Daemon
<1>3. CASE UNCHANGED vars BY <1>3 DEF vars
<1> QED BY <1>1, <1>2, <1>3

(* A killed process and a dropped transport are the same thing to an       *)
(* address.                                                                *)
LEMMA StepKinds ==
  [Next]_vars =>
    \/ \E t \in Threads : OpenStep(t) \/ CloseStep(t)
    \/ \E t \in Threads, o \in Objects : Open(t, o) \/ Close(t, o)
    \/ \E O \in SUBSET Objects : Gone(O)
    \/ Daemon
    \/ UNCHANGED vars
BY DEF Next, Kill, Drop

LEMMA TypeHolds == Spec => []TypeInv
<1>1. Init => TypeInv
  BY DEF Init, TypeInv, TypeOK, Located
<1>2. TypeInv /\ [Next]_vars => TypeInv'
  BY StepKinds, OpenType, CloseType, EnterType, AroundType
<1> QED BY <1>1, <1>2, PTL DEF Spec

(* The types of a transport's state hold; in particular the socket a new   *)
(* connection takes is always a number that exists and no one has.         *)
THEOREM AddressTypeCorrect == Spec => []TypeOK
<1>1. TypeInv => TypeOK
  BY DEF TypeInv
<1> QED BY <1>1, TypeHolds, PTL

-----------------------------------------------------------------------------
(* Sockets and their addresses *)

(* A thread that is in open() beyond the first test. *)
InOpen(t) == pc[t] \in Opening \cup Failing

(* A socket is one transport's: its _socket, or the local of a thread in   *)
(* its open(), or both in the same.                                        *)
Exclusive ==
    /\ \A t \in Threads : sock[t] # None <=> InOpen(t)
    /\ \A t \in Threads : t \in bound => InOpen(t)
    /\ \A o, p \in Objects : socket[o] = socket[p] /\ socket[o] # None => o = p
    /\ \A t \in Threads, o \in Objects : sock[t] = socket[o] /\ sock[t] # None => on[t] = o
    /\ \A t, u \in Threads : sock[t] = sock[u] /\ sock[t] # None => t = u

Owns(o, s) == s = socket[o] \/ \E t \in Threads : on[t] = o /\ sock[t] = s

(* An address leads to a socket of the transport it is named for, or       *)
(* nowhere; a socket before bind(), or closed by a failed open(), has none.*)
Homes ==
    /\ \A o \in Objects : names[o] # None => Owns(o, names[o])
    /\ \A o \in Objects : inodes[o] # None => Owns(o, inodes[o])
    /\ \A t \in Threads, o \in Objects :
          pc[t] \in {"bind", "failUnlink"} => names[o] # sock[t] /\ inodes[o] # sock[t]

SocketInv == TypeInv /\ Exclusive /\ Homes

(* Releasing what no transport owns any more disturbs no address.          *)
LEMMA HomesKept ==
  ASSUME SocketInv, NEW dead, Released(dead),
         \A o \in Objects : \A s : s # None /\ s \notin dead /\ Owns(o, s) => Owns(o, s)',
         \A t \in Threads : pc'[t] \in {"bind", "failUnlink"} =>
                              pc'[t] = pc[t] /\ sock'[t] = sock[t]
  PROVE  Homes'
<1>1. \A o \in Objects :
         /\ names'[o] # None => names[o] \notin dead /\ names'[o] = names[o]
         /\ inodes'[o] # None => inodes[o] \notin dead /\ inodes'[o] = inodes[o]
  BY ReleasedSays DEF SocketInv, TypeInv
<1>2. (\A o \in Objects : names[o] # None => Owns(o, names[o]))'
  <2> SUFFICES ASSUME NEW o \in Objects, names'[o] # None
               PROVE  Owns(o, names[o])'
    OBVIOUS
  <2>1. names[o] \notin dead /\ names'[o] = names[o] /\ Owns(o, names[o])
    BY <1>1 DEF SocketInv, Homes
  <2>2. \A s : s # None /\ s \notin dead /\ Owns(o, s) => Owns(o, s)'
    OBVIOUS
  <2>3. names[o] # None
    BY <2>1
  <2> QED BY <2>1, <2>2, <2>3 DEF Owns
<1>3. (\A o \in Objects : inodes[o] # None => Owns(o, inodes[o]))'
  <2> SUFFICES ASSUME NEW o \in Objects, inodes'[o] # None
               PROVE  Owns(o, inodes[o])'
    OBVIOUS
  <2>1. inodes[o] \notin dead /\ inodes'[o] = inodes[o] /\ Owns(o, inodes[o])
    BY <1>1 DEF SocketInv, Homes
  <2>2. \A s : s # None /\ s \notin dead /\ Owns(o, s) => Owns(o, s)'
    OBVIOUS
  <2>3. inodes[o] # None
    BY <2>1
  <2> QED BY <2>1, <2>2, <2>3 DEF Owns
<1>4. ASSUME NEW t \in Threads, NEW o \in Objects, pc'[t] \in {"bind", "failUnlink"}
      PROVE  names'[o] # sock'[t] /\ inodes'[o] # sock'[t]
  <2>1. pc[t] \in {"bind", "failUnlink"} /\ sock'[t] = sock[t]
    BY <1>4
  <2>2. sock[t] # None
    BY <2>1 DEF SocketInv, Exclusive, InOpen, Opening, Failing
  <2> QED BY <1>1, <2>1, <2>2 DEF SocketInv, Homes
<1> QED BY <1>2, <1>3, <1>4 DEF Homes

LEMMA OpenSockets ==
  ASSUME SocketInv, NEW t \in Threads, OpenStep(t)
  PROVE  Exclusive' /\ Homes'
<1> USE DEF SocketInv, kernel, object, Goto, Opening, Failing, Closing, InOpen
<1>0. on[t] \in Objects /\ on[t] # Nowhere
  BY AtWork DEF OpenStep, Bind, Unlink, BindFile, Connect, Publish, SetPath, Fail, FailUnlink
<1>00. TypeOK
  BY DEF TypeInv
<1>1. CASE Bind(t)
  <2>1. Exclusive' BY <1>00, <1>1 DEF Bind, Exclusive, TypeOK
  <2>2. Homes' BY <1>0, <1>00, <1>1 DEF Bind, Exclusive, Homes, Owns, TypeOK, Name
  <2> QED BY <2>1, <2>2
<1>2. CASE Unlink(t)
  <2>1. Exclusive' BY <1>00, <1>2 DEF Unlink, Exclusive, TypeOK
  <2>2. Homes' BY <1>0, <1>00, <1>2 DEF Unlink, Unlinked, Exclusive, Homes, Owns, TypeOK, Name
  <2> QED BY <2>1, <2>2
<1>3. CASE BindFile(t)
  <2>1. Exclusive' BY <1>00, <1>3 DEF BindFile, Exclusive, TypeOK
  <2>2. Homes' BY <1>0, <1>00, <1>3 DEF BindFile, Exclusive, Homes, Owns, TypeOK, Name
  <2> QED BY <2>1, <2>2
<1>4. CASE Connect(t)
  <2>1. Exclusive' BY <1>00, <1>4 DEF Connect, Exclusive, TypeOK
  <2>2. Homes' BY <1>00, <1>4 DEF Connect, Homes, Owns, TypeOK
  <2> QED BY <2>1, <2>2
<1>5. CASE Publish(t)
  <2>1. Exclusive' BY <1>0, <1>00, <1>5 DEF Publish, Exclusive, TypeOK
  <2>2. Released({socket[on[t]]} \ Referred(socket', sock))
    BY <1>5 DEF Publish
  <2>3. ASSUME NEW s, s # None, NEW o \in Objects, Owns(o, s),
               s \notin {socket[on[t]]} \ Referred(socket', sock)
        PROVE  Owns(o, s)'
    BY <1>0, <1>00, <1>5, <2>3 DEF Publish, Exclusive, Owns, TypeOK, Referred
  <2>4. UNCHANGED <<on, sock>> /\ pc' = [pc EXCEPT ![t] = "setPath"]
    BY <1>5 DEF Publish
  <2>5. Homes'
    BY <1>00, <2>2, <2>3, <2>4, HomesKept DEF TypeOK
  <2> QED BY <2>1, <2>5
<1>6. CASE SetPath(t)
  <2>1. Exclusive' BY <1>0, <1>00, <1>6 DEF SetPath, Return, Exclusive, TypeOK
  <2>2. Released({sock[t]} \ Referred(socket, sock'))
    BY <1>6 DEF SetPath
  <2>3. ASSUME NEW s, s # None, NEW o \in Objects, Owns(o, s),
               s \notin {sock[t]} \ Referred(socket, sock')
        PROVE  Owns(o, s)'
    BY <1>0, <1>00, <1>6, <2>3 DEF SetPath, Return, Exclusive, Owns, TypeOK, Referred
  <2>4. /\ on' = [on EXCEPT ![t] = Nowhere] /\ sock' = [sock EXCEPT ![t] = None]
        /\ pc' = [pc EXCEPT ![t] = "idle"]
    BY <1>6 DEF SetPath, Return
  <2>5. Homes'
    BY <1>00, <2>2, <2>3, <2>4, HomesKept DEF TypeOK
  <2> QED BY <2>1, <2>5
<1>7. CASE Fail(t)
  <2>1. Exclusive' BY <1>00, <1>7 DEF Fail, Exclusive, TypeOK
  <2>2. /\ Released({sock[t]}) /\ UNCHANGED <<on, sock, socket>>
        /\ pc' = [pc EXCEPT ![t] = "failUnlink"]
    BY <1>7 DEF Fail
  <2>3. sock[t] # None
    BY <1>7 DEF Fail, Exclusive
  <2>4. Homes'
    BY <1>00, <2>2, <2>3, ReleasedSays DEF Homes, Owns, Exclusive, TypeOK
  <2> QED BY <2>1, <2>4
<1>8. CASE FailUnlink(t)
  <2>1. Exclusive' BY <1>0, <1>00, <1>8 DEF FailUnlink, Return, Exclusive, TypeOK
  <2>2. ASSUME NEW o \in Objects, NEW s, s # sock[t], Owns(o, s) PROVE Owns(o, s)'
    BY <1>00, <1>8, <2>2 DEF FailUnlink, Return, Owns, TypeOK
  <2>3. Homes'
    BY <1>0, <1>00, <1>8, <2>2 DEF FailUnlink, Return, Unlinked, Homes, Exclusive, TypeOK, Name
  <2> QED BY <2>1, <2>3
<1> QED BY <1>1, <1>2, <1>3, <1>4, <1>5, <1>6, <1>7, <1>8 DEF OpenStep

LEMMA CloseSockets ==
  ASSUME SocketInv, NEW t \in Threads, CloseStep(t)
  PROVE  Exclusive' /\ Homes'
<1> USE DEF SocketInv, kernel, object, Goto, Opening, Failing, Closing, InOpen
<1>0. on[t] \in Objects /\ on[t] # Nowhere /\ sock[t] = None /\ t \notin bound
  BY AtWork DEF CloseStep, CloseSocket, Forget, CloseUnlink, ForgetPath, Exclusive
<1>00. TypeOK
  BY DEF TypeInv
<1>1. CASE CloseSocket(t)
  <2>1. CASE socket[on[t]] = None
    <3>1. /\ Return(t) /\ UNCHANGED <<names, inodes, socket>>
      BY <1>1, <2>1 DEF CloseSocket
    <3>2. Exclusive' BY <1>0, <1>00, <3>1 DEF Return, Exclusive, TypeOK
    <3>3. ASSUME NEW o \in Objects, NEW s, s # None, Owns(o, s) PROVE Owns(o, s)'
      BY <1>0, <1>00, <3>1, <3>3 DEF Return, Owns, TypeOK
    <3>4. Homes' BY <1>0, <1>00, <3>1, <3>3 DEF Return, Homes, TypeOK
    <3> QED BY <3>2, <3>4
  <2>2. CASE socket[on[t]] # None
    <3>1. /\ Released({socket[on[t]]}) /\ UNCHANGED <<on, sock, bound, socket>>
          /\ pc' = [pc EXCEPT ![t] = "forget"]
      BY <1>1, <2>2 DEF CloseSocket
    <3>2. Exclusive' BY <1>0, <1>00, <1>1, <3>1 DEF CloseSocket, Exclusive, TypeOK
    <3>3. Homes' BY <1>00, <3>1, ReleasedSays DEF Homes, Owns, Exclusive, TypeOK
    <3> QED BY <3>2, <3>3
  <2> QED BY <2>1, <2>2
<1>2. CASE Forget(t)
  <2>1. Exclusive' BY <1>0, <1>00, <1>2 DEF Forget, Exclusive, TypeOK
  <2>2. Released({socket[on[t]]} \ Referred(socket', sock))
    BY <1>2 DEF Forget
  <2>3. ASSUME NEW s, s # None, NEW o \in Objects, Owns(o, s),
               s \notin {socket[on[t]]} \ Referred(socket', sock)
        PROVE  Owns(o, s)'
    BY <1>0, <1>00, <1>2, <2>3 DEF Forget, Exclusive, Owns, TypeOK, Referred
  <2>4. UNCHANGED <<on, sock>> /\ pc' = [pc EXCEPT ![t] = "closeUnlink"]
    BY <1>2 DEF Forget
  <2>5. Homes'
    BY <1>00, <2>2, <2>3, <2>4, HomesKept DEF TypeOK
  <2> QED BY <2>1, <2>5
<1>3. CASE CloseUnlink(t)
  <2>1. Exclusive' BY <1>00, <1>3 DEF CloseUnlink, Exclusive, TypeOK
  <2>2. Homes' BY <1>0, <1>00, <1>3 DEF CloseUnlink, Unlinked, Exclusive, Homes, Owns, TypeOK, Name
  <2> QED BY <2>1, <2>2
<1>4. CASE ForgetPath(t)
  <2>1. Exclusive' BY <1>0, <1>00, <1>4 DEF ForgetPath, Return, Exclusive, TypeOK
  <2>2. ASSUME NEW o \in Objects, NEW s, s # None, Owns(o, s) PROVE Owns(o, s)'
    BY <1>0, <1>00, <1>4, <2>2 DEF ForgetPath, Return, Owns, TypeOK
  <2>3. Homes' BY <1>0, <1>00, <1>4, <2>2 DEF ForgetPath, Return, Homes, TypeOK
  <2> QED BY <2>1, <2>3
<1> QED BY <1>1, <1>2, <1>3, <1>4 DEF CloseStep

LEMMA EnterSockets ==
  ASSUME SocketInv, NEW t \in Threads, NEW o \in Objects, Open(t, o) \/ Close(t, o)
  PROVE  Exclusive' /\ Homes'
<1> USE DEF SocketInv, kernel, object, Goto, Opening, Failing, Closing, InOpen
<1>0. TypeOK /\ on[t] = Nowhere /\ sock[t] = None /\ t \notin bound /\ pc[t] = "idle"
  BY DEF TypeInv, Located, Open, Close, Enter, Exclusive
<1>1. ASSUME NEW p \in Objects, NEW s, s # None, Owns(p, s) PROVE Owns(p, s)'
  BY <1>0, <1>1, NobodyIsNoSocket DEF Open, Close, Enter, Owns, TypeOK
<1>2. CASE Open(t, o)
  <2>1. \A p \in Objects : names[p] # Fresh /\ inodes[p] # Fresh
    BY <1>2, FreshIsNew DEF Open, Homes, Owns
  <2>2. Exclusive'
    BY <1>0, <1>2, FreshIsNew DEF Open, Enter, Exclusive, TypeOK
  <2>3. Homes'
    BY <1>0, <1>1, <1>2, <2>1 DEF Open, Enter, Homes, TypeOK
  <2> QED BY <2>2, <2>3
<1>3. CASE Close(t, o)
  <2>1. Exclusive'
    BY <1>0, <1>3 DEF Close, Enter, Exclusive, TypeOK
  <2>2. Homes'
    BY <1>0, <1>1, <1>3 DEF Close, Enter, Homes, TypeOK
  <2> QED BY <2>1, <2>2
<1> QED BY <1>2, <1>3

LEMMA GoneSockets ==
  ASSUME SocketInv, NEW O \in SUBSET Objects, Gone(O)
  PROVE  Exclusive' /\ Homes'
<1> DEFINE T == {t \in Threads : on[t] \in O}
           dead == {socket[o] : o \in O} \cup {sock[t] : t \in T}
<1> USE DEF SocketInv, kernel, object, Goto, Opening, Failing, Closing, InOpen
<1>1. TypeOK /\ Located
  BY DEF TypeInv
<1>2. /\ socket' = [o \in Objects |-> IF o \in O THEN None ELSE socket[o]]
      /\ pc' = [t \in Threads |-> IF t \in T THEN "idle" ELSE pc[t]]
      /\ on' = [t \in Threads |-> IF t \in T THEN Nowhere ELSE on[t]]
      /\ sock' = [t \in Threads |-> IF t \in T THEN None ELSE sock[t]]
      /\ bound' = bound \ T
      /\ Released(dead)
  BY DEF Gone
<1>3. Exclusive'
  BY <1>1, <1>2 DEF Exclusive, TypeOK
<1>4. ASSUME NEW o \in Objects, NEW s, s # None, s \notin dead, Owns(o, s)
      PROVE  Owns(o, s)'
  BY <1>1, <1>2, <1>4 DEF Owns, TypeOK
<1>5. Homes'
  BY <1>1, <1>2, <1>4, ReleasedSays DEF Homes, Exclusive, TypeOK
<1> QED BY <1>3, <1>5

LEMMA SocketsHold == Spec => []SocketInv
<1>1. Init => Exclusive /\ Homes
  BY DEF Init, Exclusive, Homes, InOpen, Opening, Failing
<1>2. SocketInv /\ (Daemon \/ UNCHANGED vars) => Exclusive' /\ Homes'
  <2> USE DEF SocketInv, Exclusive, Homes, Owns, InOpen, kernel, object
  <2>1. ASSUME SocketInv, Daemon PROVE Exclusive' /\ Homes'
    BY <2>1 DEF Daemon
  <2>2. ASSUME SocketInv, UNCHANGED vars PROVE Exclusive' /\ Homes'
    BY <2>2 DEF vars
  <2> QED BY <2>1, <2>2
<1>3. SocketInv /\ [Next]_vars => Exclusive' /\ Homes'
  BY <1>2, StepKinds, OpenSockets, CloseSockets, EnterSockets, GoneSockets
<1> QED BY <1>1, <1>3, TypeHolds, PTL DEF Spec, SocketInv

-----------------------------------------------------------------------------
(* Order: what a thread finds when it is alone in its transport *)

Addressed(o, byFile, s) == IF byFile THEN inodes[o] = s ELSE names[o] = s

(* Between calls: an open transport has its address, and a file that has   *)
(* none open is a predecessor's.                                           *)
Quiet(o) ==
    /\ o \in path => socket[o] # None
    /\ socket[o] # None => Addressed(o, o \in path, socket[o])
    /\ o \in files => o \in left \/ o \in path

(* In a call: what the code before pc has established. *)
InCall(o, t) ==
    /\ InOpen(t) => o \notin path
    /\ InOpen(t) /\ pc[t] # "setPath" => socket[o] = None
    /\ pc[t] = "setPath" => socket[o] = sock[t]
    /\ pc[t] \in {"connect", "publish", "setPath"} => Addressed(o, t \in bound, sock[t])
    /\ pc[t] = "bind" => t \notin bound
    /\ pc[t] \in {"unlink", "bindFile"} => t \in bound
    /\ pc[t] = "bindFile" => o \notin files
    /\ pc[t] \in {"close", "forget"} => socket[o] # None
    /\ pc[t] \in {"closeUnlink", "forgetPath"} => socket[o] = None
    /\ o \in files => o \in left \/ t \in bound \/ (o \in path /\ pc[t] # "forgetPath")
    /\ host = "abstract" => t \notin bound

Alone(o) == \A t, u \in Threads : on[t] = o /\ on[u] = o => t = u

OrderlyIn(o) ==
    o \notin raced =>
        /\ Alone(o)
        /\ host = "abstract" => o \notin path
        /\ (\A t \in Threads : on[t] # o) => Quiet(o)
        /\ \A t \in Threads : on[t] = o => InCall(o, t)

Orderly == \A o \in Objects : OrderlyIn(o)

AddressInv == SocketInv /\ Orderly

(* Nothing of the transport o changes. *)
Same(o) ==
    /\ host' = host
    /\ socket'[o] = socket[o] /\ names'[o] = names[o] /\ inodes'[o] = inodes[o]
    /\ o \in path' <=> o \in path
    /\ o \in files' <=> o \in files
    /\ o \in left' <=> o \in left
    /\ o \in raced' <=> o \in raced
    /\ \A t \in Threads : on'[t] = o <=> on[t] = o
    /\ \A t \in Threads : on[t] = o =>
           pc'[t] = pc[t] /\ sock'[t] = sock[t] /\ (t \in bound' <=> t \in bound)

LEMMA SameIsOrderly ==
  ASSUME NEW o \in Objects, OrderlyIn(o), Same(o)
  PROVE  OrderlyIn(o)'
<1> SUFFICES ASSUME o \notin raced'
             PROVE  /\ Alone(o)'
                    /\ host' = "abstract" => o \notin path'
                    /\ (\A t \in Threads : on'[t] # o) => Quiet(o)'
                    /\ \A t \in Threads : on'[t] = o => InCall(o, t)'
  BY DEF OrderlyIn
<1>1. Alone(o)'
  BY DEF Same, OrderlyIn, Alone
<1>2. host' = "abstract" => o \notin path'
  BY DEF Same, OrderlyIn
<1>3. (\A t \in Threads : on'[t] # o) => Quiet(o)'
  BY DEF Same, OrderlyIn, Quiet, Addressed
<1>4. ASSUME NEW t \in Threads, on'[t] = o PROVE InCall(o, t)'
  <2>1. InCall(o, t) /\ pc'[t] = pc[t] /\ sock'[t] = sock[t] /\ (t \in bound' <=> t \in bound)
    BY <1>4 DEF Same, OrderlyIn
  <2> QED BY <2>1 DEF Same, InCall, InOpen, Addressed
<1> QED BY <1>1, <1>2, <1>3, <1>4

(* Two transports own no socket in common. *)
LEMMA OwnersDiffer ==
  ASSUME SocketInv, NEW o \in Objects, NEW p \in Objects, o # p,
         NEW s, s # None, Owns(o, s)
  PROVE  ~Owns(p, s)
BY DEF SocketInv, Exclusive, Owns

(* Releasing another's sockets keeps the addresses of o. *)
LEMMA ReleasedElsewhere ==
  ASSUME SocketInv, NEW o \in Objects, NEW dead, Released(dead),
         \A s \in dead : s # None => ~Owns(o, s)
  PROVE  names'[o] = names[o] /\ inodes'[o] = inodes[o]
<1>1. names[o] \in dead => names[o] = None
  BY DEF SocketInv, Homes
<1>2. inodes[o] \in dead => inodes[o] = None
  BY DEF SocketInv, Homes
<1> QED BY <1>1, <1>2, ReleasedSays DEF SocketInv, TypeInv

(* A thread's step is a step of the transport it works on. *)
LEMMA StepsElsewhere ==
  ASSUME SocketInv, NEW t \in Threads, OpenStep(t) \/ CloseStep(t),
         NEW o \in Objects, o # on[t]
  PROVE  Same(o)
<1> USE DEF kernel, object, Goto
<1>0. /\ TypeOK /\ on[t] \in Objects /\ on[t] # Nowhere /\ o # Nowhere
      /\ sock[t] # None => Owns(on[t], sock[t])
      /\ Owns(on[t], socket[on[t]])
  BY AtWork, NobodyIsNoSocket
     DEF OpenStep, Bind, Unlink, BindFile, Connect, Publish, SetPath, Fail, FailUnlink,
     CloseStep, CloseSocket, Forget, CloseUnlink, ForgetPath, SocketInv, TypeInv, Owns
<1>1. CASE Bind(t) BY <1>0, <1>1 DEF Bind, Same, TypeOK, Name
<1>2. CASE Unlink(t) BY <1>0, <1>2 DEF Unlink, Unlinked, Same, TypeOK, Name
<1>3. CASE BindFile(t) BY <1>0, <1>3 DEF BindFile, Same, TypeOK, Name
<1>4. CASE Connect(t) BY <1>0, <1>4 DEF Connect, Same, TypeOK
<1>5. CASE Publish(t)
  <2>1. names'[o] = names[o] /\ inodes'[o] = inodes[o]
    BY <1>0, <1>5, OwnersDiffer, ReleasedElsewhere DEF Publish
  <2> QED BY <1>0, <1>5, <2>1 DEF Publish, Same, TypeOK
<1>6. CASE SetPath(t)
  <2>1. names'[o] = names[o] /\ inodes'[o] = inodes[o]
    BY <1>0, <1>6, OwnersDiffer, ReleasedElsewhere DEF SetPath
  <2> QED BY <1>0, <1>6, <2>1 DEF SetPath, Return, ClientPath, Same, TypeOK
<1>7. CASE Fail(t)
  <2>1. names'[o] = names[o] /\ inodes'[o] = inodes[o]
    BY <1>0, <1>7, OwnersDiffer, ReleasedElsewhere DEF Fail
  <2> QED BY <1>0, <1>7, <2>1 DEF Fail, Same, TypeOK
<1>8. CASE FailUnlink(t) BY <1>0, <1>8 DEF FailUnlink, Return, Unlinked, Same, TypeOK, Name
<1>9. CASE CloseSocket(t)
  <2>1. CASE socket[on[t]] = None
    BY <1>0, <1>9, <2>1 DEF CloseSocket, Return, Same, TypeOK
  <2>2. CASE socket[on[t]] # None
    <3>1. names'[o] = names[o] /\ inodes'[o] = inodes[o]
      BY <1>0, <1>9, <2>2, OwnersDiffer, ReleasedElsewhere DEF CloseSocket
    <3> QED BY <1>0, <1>9, <2>2, <3>1 DEF CloseSocket, Same, TypeOK
  <2> QED BY <2>1, <2>2
<1>10. CASE Forget(t)
  <2>1. names'[o] = names[o] /\ inodes'[o] = inodes[o]
    BY <1>0, <1>10, OwnersDiffer, ReleasedElsewhere DEF Forget
  <2> QED BY <1>0, <1>10, <2>1 DEF Forget, Same, TypeOK
<1>11. CASE CloseUnlink(t) BY <1>0, <1>11 DEF CloseUnlink, Unlinked, Same, TypeOK, Name
<1>12. CASE ForgetPath(t) BY <1>0, <1>12 DEF ForgetPath, Return, Same, TypeOK
<1> QED BY <1>1, <1>2, <1>3, <1>4, <1>5, <1>6, <1>7, <1>8, <1>9, <1>10, <1>11, <1>12
       DEF OpenStep, CloseStep

(* A thread that is alone and goes on ... *)
LEMMA StaysOrderly ==
  ASSUME AddressInv, NEW t \in Threads, NEW o \in Objects, on[t] = o,
         on' = on, host' = host, raced' = raced,
         o \notin raced => /\ host = "abstract" => o \notin path'
                           /\ InCall(o, t)'
  PROVE  OrderlyIn(o)'
BY DEF AddressInv, Orderly, OrderlyIn, Alone

(* ... and one that returns. *)
LEMMA LeavesOrderly ==
  ASSUME AddressInv, NEW t \in Threads, NEW o \in Objects, on[t] = o,
         on' = [on EXCEPT ![t] = Nowhere], host' = host, raced' = raced,
         o \notin raced => /\ host = "abstract" => o \notin path'
                           /\ Quiet(o)'
  PROVE  OrderlyIn(o)'
<1>1. \A u \in Threads : on'[u] = o => u # t /\ on[u] = o
  BY NobodyIsNoSocket DEF AddressInv, SocketInv, TypeInv, TypeOK
<1>2. o \notin raced => Alone(o)
  BY DEF AddressInv, Orderly, OrderlyIn
<1>3. o \notin raced => \A u \in Threads : on'[u] # o
  BY <1>1, <1>2 DEF Alone
<1> QED BY <1>3 DEF OrderlyIn, Alone

LEMMA OpenHere ==
  ASSUME AddressInv, NEW t \in Threads, OpenStep(t), NEW o \in Objects, o = on[t]
  PROVE  OrderlyIn(o)'
<1> USE DEF kernel, object, Goto
<1>1. SocketInv /\ TypeOK
  BY DEF AddressInv, SocketInv, TypeInv
<1>2. /\ sock[t] # None /\ sock[t] \in Sockets
      /\ o \notin raced => /\ InCall(o, t) /\ o \notin path
                           /\ pc[t] # "setPath" => socket[o] = None
                           /\ Alone(o)
  <2>1. InOpen(t)
    BY DEF OpenStep, Bind, Unlink, BindFile, Connect, Publish, SetPath, Fail, FailUnlink,
       InOpen, Opening, Failing
  <2> QED BY <1>1, <2>1 DEF AddressInv, Orderly, OrderlyIn, InCall, SocketInv, Exclusive, TypeOK
<1>3. CASE Bind(t)
  <2>1. /\ on' = on /\ host' = host /\ raced' = raced /\ path' = path /\ socket' = socket
        /\ sock' = sock /\ files' = files /\ left' = left /\ inodes' = inodes /\ pc[t] = "bind"
    BY <1>3 DEF Bind
  <2>2. o \notin raced => names[o] = None
    <3> SUFFICES ASSUME o \notin raced, names[o] # None PROVE FALSE
      OBVIOUS
    <3>1. Owns(o, names[o])
      BY <1>1 DEF SocketInv, Homes
    <3>2. names[o] = sock[t]
      BY <1>2, <2>1, <3>1 DEF Owns, Alone
    <3> QED BY <1>1, <2>1, <3>2 DEF SocketInv, Homes
  <2>3. o \notin raced => InCall(o, t)'
    <3>1. CASE host = "abstract" /\ names[o] = None
      <4>1. /\ names' = [names EXCEPT ![o] = sock[t]] /\ bound' = bound
            /\ pc' = [pc EXCEPT ![t] = "connect"]
        BY <1>3, <3>1 DEF Bind, Name
      <4> QED BY <1>1, <1>2, <2>1, <4>1 DEF InCall, InOpen, Opening, Failing, Addressed, TypeOK
    <3>2. CASE ~(host = "abstract" /\ names[o] = None)
      <4>1. /\ names' = names /\ bound' = bound \cup {t}
            /\ pc' = [pc EXCEPT ![t] = "unlink"]
        BY <1>3, <3>2 DEF Bind, Name
      <4> QED BY <1>1, <1>2, <2>1, <2>2, <3>2, <4>1
             DEF InCall, InOpen, Opening, Failing, Addressed, TypeOK
    <3> QED BY <3>1, <3>2
  <2> QED BY <1>2, <2>1, <2>3, StaysOrderly
<1>4. CASE Unlink(t)
  <2>1. o \notin raced => InCall(o, t)'
    BY <1>1, <1>2, <1>4
       DEF Unlink, Unlinked, Name, InCall, InOpen, Opening, Failing, Addressed, TypeOK
  <2> QED BY <1>2, <1>4, <2>1, StaysOrderly DEF Unlink
<1>5. CASE BindFile(t)
  <2>1. o \notin raced => InCall(o, t)'
    BY <1>1, <1>2, <1>5
       DEF BindFile, Name, InCall, InOpen, Opening, Failing, Addressed, TypeOK
  <2> QED BY <1>2, <1>5, <2>1, StaysOrderly DEF BindFile
<1>6. CASE Connect(t)
  <2>1. o \notin raced => InCall(o, t)'
    BY <1>1, <1>2, <1>6 DEF Connect, InCall, InOpen, Opening, Failing, Addressed, TypeOK
  <2> QED BY <1>2, <1>6, <2>1, StaysOrderly DEF Connect
<1>7. CASE Publish(t)
  <2>1. /\ on' = on /\ host' = host /\ raced' = raced /\ path' = path /\ bound' = bound
        /\ sock' = sock /\ files' = files /\ left' = left /\ pc[t] = "publish"
        /\ socket' = [socket EXCEPT ![o] = sock[t]] /\ pc' = [pc EXCEPT ![t] = "setPath"]
        /\ Released({socket[o]} \ Referred(socket', sock))
    BY <1>7 DEF Publish
  <2>2. o \notin raced => names'[o] = names[o] /\ inodes'[o] = inodes[o]
    BY <1>1, <1>2, <2>1, ReleasedElsewhere
  <2>3. o \notin raced => InCall(o, t)'
    BY <1>1, <1>2, <2>1, <2>2 DEF InCall, InOpen, Opening, Failing, Addressed, TypeOK
  <2> QED BY <1>2, <2>1, <2>3, StaysOrderly
<1>8. CASE SetPath(t)
  <2>1. /\ on' = [on EXCEPT ![t] = Nowhere] /\ host' = host /\ raced' = raced
        /\ path' = (path \ {o}) \cup ClientPath(t) /\ socket' = socket
        /\ files' = files /\ left' = left /\ pc[t] = "setPath"
        /\ Released({sock[t]} \ Referred(socket, sock'))
    BY <1>8 DEF SetPath, Return
  <2>2. o \in path' <=> t \in bound
    BY <2>1 DEF ClientPath
  <2>3. o \notin raced => names'[o] = names[o] /\ inodes'[o] = inodes[o]
    <3> SUFFICES ASSUME o \notin raced
                 PROVE  names'[o] = names[o] /\ inodes'[o] = inodes[o]
      OBVIOUS
    <3>1. socket[o] = sock[t]
      BY <1>2, <2>1 DEF InCall
    <3>2. \A s : s \notin {sock[t]} \ Referred(socket, sock')
      BY <3>1 DEF Referred
    <3> QED BY <1>1, <2>1, <3>2, ReleasedSays
  <2>4. o \notin raced => Quiet(o)'
    BY <1>1, <1>2, <2>1, <2>2, <2>3 DEF Quiet, InCall, Addressed, TypeOK
  <2>5. o \notin raced => (host = "abstract" => o \notin path')
    BY <1>2, <2>2 DEF InCall
  <2> QED BY <2>1, <2>4, <2>5, LeavesOrderly
<1>9. CASE Fail(t)
  <2>1. /\ on' = on /\ host' = host /\ raced' = raced /\ path' = path /\ bound' = bound
        /\ sock' = sock /\ files' = files /\ left' = left /\ pc[t] = "fail"
        /\ socket' = socket /\ pc' = [pc EXCEPT ![t] = "failUnlink"]
    BY <1>9 DEF Fail
  <2>2. o \notin raced => InCall(o, t)'
    BY <1>1, <1>2, <2>1 DEF InCall, InOpen, Opening, Failing, TypeOK
  <2> QED BY <1>2, <2>1, <2>2, StaysOrderly
<1>10. CASE FailUnlink(t)
  <2>1. o \notin raced => Quiet(o)'
    BY <1>1, <1>2, <1>10 DEF FailUnlink, Unlinked, Name, Quiet, InCall, TypeOK
  <2> QED BY <1>2, <1>10, <2>1, LeavesOrderly DEF FailUnlink, Return
<1> QED BY <1>3, <1>4, <1>5, <1>6, <1>7, <1>8, <1>9, <1>10 DEF OpenStep

LEMMA CloseHere ==
  ASSUME AddressInv, NEW t \in Threads, CloseStep(t), NEW o \in Objects, o = on[t]
  PROVE  OrderlyIn(o)'
<1> USE DEF kernel, object, Goto
<1>1. SocketInv /\ TypeOK
  BY DEF AddressInv, SocketInv, TypeInv
<1>2. o \notin raced => /\ InCall(o, t)
                        /\ host = "abstract" => o \notin path
  BY DEF AddressInv, Orderly, OrderlyIn
<1>3. ~InOpen(t) /\ t \notin bound
  BY <1>1 DEF CloseStep, CloseSocket, Forget, CloseUnlink, ForgetPath,
     InOpen, Opening, Failing, SocketInv, Exclusive
<1>4. CASE CloseSocket(t)
  <2>1. CASE socket[o] = None
    <3>1. o \in raced
      BY <1>2, <1>4, <2>1 DEF CloseSocket, InCall
    <3>2. OrderlyIn(o)'
      BY <1>4, <3>1 DEF CloseSocket, OrderlyIn
    <3> QED BY <3>2
  <2>2. CASE socket[o] # None
    <3>1. /\ on' = on /\ host' = host /\ raced' = raced /\ path' = path /\ bound' = bound
          /\ files' = files /\ left' = left /\ socket' = socket
          /\ pc' = [pc EXCEPT ![t] = "forget"]
      BY <1>4, <2>2 DEF CloseSocket
    <3>2. o \notin raced => InCall(o, t)'
      BY <1>1, <1>2, <1>3, <1>4, <2>2, <3>1
         DEF CloseSocket, InCall, InOpen, Opening, Failing, TypeOK
    <3> QED BY <1>2, <3>1, <3>2, StaysOrderly
  <2> QED BY <2>1, <2>2
<1>5. CASE Forget(t)
  <2>1. /\ on' = on /\ host' = host /\ raced' = raced /\ path' = path /\ bound' = bound
        /\ files' = files /\ left' = left /\ pc[t] = "forget"
        /\ socket' = [socket EXCEPT ![o] = None] /\ pc' = [pc EXCEPT ![t] = "closeUnlink"]
    BY <1>5 DEF Forget
  <2>2. o \notin raced => InCall(o, t)'
    BY <1>1, <1>2, <1>3, <2>1 DEF InCall, InOpen, Opening, Failing, TypeOK
  <2> QED BY <1>2, <2>1, <2>2, StaysOrderly
<1>6. CASE CloseUnlink(t)
  <2>1. o \notin raced => InCall(o, t)'
    BY <1>1, <1>2, <1>3, <1>6
       DEF CloseUnlink, Unlinked, Name, InCall, InOpen, Opening, Failing, TypeOK
  <2> QED BY <1>2, <1>6, <2>1, StaysOrderly DEF CloseUnlink
<1>7. CASE ForgetPath(t)
  <2>1. o \notin raced => Quiet(o)'
    BY <1>1, <1>2, <1>3, <1>7 DEF ForgetPath, Return, Quiet, InCall, TypeOK
  <2> QED BY <1>2, <1>7, <2>1, LeavesOrderly DEF ForgetPath, Return
<1> QED BY <1>4, <1>5, <1>6, <1>7 DEF CloseStep

LEMMA StepOrderly ==
  ASSUME AddressInv, NEW t \in Threads, OpenStep(t) \/ CloseStep(t)
  PROVE  Orderly'
<1> SUFFICES ASSUME NEW o \in Objects PROVE OrderlyIn(o)'
  BY DEF Orderly
<1>1. CASE o = on[t]
  BY <1>1, OpenHere, CloseHere
<1>2. CASE o # on[t]
  BY <1>2, StepsElsewhere, SameIsOrderly DEF AddressInv, Orderly
<1> QED BY <1>1, <1>2

LEMMA EnterOrderly ==
  ASSUME AddressInv, NEW t \in Threads, NEW o \in Objects, Open(t, o) \/ Close(t, o)
  PROVE  Orderly'
<1> USE DEF kernel, object, Goto
<1>1. /\ TypeOK /\ SocketInv /\ on[t] = Nowhere /\ t \notin bound /\ o # Nowhere
  BY NobodyIsNoSocket
     DEF AddressInv, SocketInv, TypeInv, Located, Open, Close, Enter, Exclusive, InOpen,
     Opening, Failing
<1>2. /\ on' = [on EXCEPT ![t] = o] /\ bound' = bound
      /\ UNCHANGED <<host, names, files, inodes, socket, path, left>>
      /\ raced' = IF Busy(o) = {} THEN raced ELSE raced \cup {o}
  BY DEF Open, Close, Enter
<1> SUFFICES ASSUME NEW p \in Objects PROVE OrderlyIn(p)'
  BY DEF Orderly
<1>3. CASE p # o
  <2>1. Same(p)
    BY <1>1, <1>2, <1>3, NobodyIsNoSocket DEF Same, TypeOK, Open, Close
  <2> QED BY <2>1, SameIsOrderly DEF AddressInv, Orderly
<1>4. CASE p = o
  <2> SUFFICES ASSUME o \notin raced' PROVE OrderlyIn(o)'
    BY <1>4 DEF OrderlyIn
  <2>1. o \notin raced /\ \A u \in Threads : on[u] # o
    BY <1>2 DEF Busy
  <2>2. Quiet(o) /\ (host = "abstract" => o \notin path)
    BY <2>1 DEF AddressInv, Orderly, OrderlyIn
  <2>3. on'[t] = o /\ \A u \in Threads : on'[u] = o => u = t
    BY <1>1, <1>2, <2>1 DEF TypeOK
  <2>4. InCall(o, t)'
    <3>1. CASE Open(t, o)
      BY <1>1, <1>2, <2>2, <3>1
         DEF Open, InCall, Quiet, InOpen, Opening, Failing, TypeOK
    <3>2. CASE Close(t, o)
      BY <1>1, <1>2, <2>2, <3>2
         DEF Close, InCall, Quiet, InOpen, Opening, Failing, TypeOK
    <3> QED BY <3>1, <3>2
  <2> QED BY <1>2, <2>2, <2>3, <2>4 DEF OrderlyIn, Alone
<1> QED BY <1>3, <1>4

LEMMA GoneOrderly ==
  ASSUME AddressInv, NEW O \in SUBSET Objects, Gone(O)
  PROVE  Orderly'
<1> DEFINE T == {t \in Threads : on[t] \in O}
           dead == {socket[o] : o \in O} \cup {sock[t] : t \in T}
<1>1. TypeOK /\ SocketInv
  BY DEF AddressInv, SocketInv, TypeInv
<1>2. /\ host' = host /\ files' = files /\ path' = path \ O /\ raced' = raced \ O
      /\ socket' = [o \in Objects |-> IF o \in O THEN None ELSE socket[o]]
      /\ pc' = [t \in Threads |-> IF t \in T THEN "idle" ELSE pc[t]]
      /\ on' = [t \in Threads |-> IF t \in T THEN Nowhere ELSE on[t]]
      /\ sock' = [t \in Threads |-> IF t \in T THEN None ELSE sock[t]]
      /\ bound' = bound \ T
      /\ left' = left \cup (files \cap O)
      /\ Released(dead)
  BY DEF Gone, Name
<1> SUFFICES ASSUME NEW o \in Objects PROVE OrderlyIn(o)'
  BY DEF Orderly
<1>3. CASE o \in O
  <2>1. \A t \in Threads : on'[t] # o
    BY <1>2, <1>3, NobodyIsNoSocket
  <2>2. Quiet(o)'
    BY <1>2, <1>3 DEF Quiet
  <2> QED BY <1>2, <1>3, <2>1, <2>2 DEF OrderlyIn, Alone
<1>4. CASE o \notin O
  <2>1. \A s \in dead : s # None => ~Owns(o, s)
    BY <1>1, <1>4 DEF SocketInv, Exclusive, Owns
  <2>2. names'[o] = names[o] /\ inodes'[o] = inodes[o]
    BY <1>1, <1>2, <2>1, ReleasedElsewhere
  <2>3. Same(o)
    BY <1>1, <1>2, <1>4, <2>2, NobodyIsNoSocket DEF Same, TypeOK
  <2> QED BY <2>3, SameIsOrderly DEF AddressInv, Orderly
<1> QED BY <1>3, <1>4

LEMMA AddressHolds == Spec => []AddressInv
<1>1. Init => Orderly
  BY NobodyIsNoSocket DEF Init, Orderly, OrderlyIn, Alone, Quiet
<1>2. AddressInv /\ [Next]_vars => Orderly'
  <2>1. ASSUME AddressInv, Daemon \/ UNCHANGED vars PROVE Orderly'
    <3>1. \A o \in Objects : Same(o)
      BY <2>1 DEF Daemon, vars, kernel, object, Same
    <3> QED BY <2>1, <3>1, SameIsOrderly DEF AddressInv, Orderly
  <2> QED BY <2>1, StepKinds, StepOrderly, EnterOrderly, GoneOrderly
<1> QED BY <1>1, <1>2, SocketsHold, PTL DEF Spec, AddressInv

-----------------------------------------------------------------------------
(* The properties *)

(* An open connection's address leads to its own socket, whatever other    *)
(* transports and processes do and leave behind (transport.py:85).         *)
THEOREM AddressReaches == Spec => []ReachesItself
<1>1. AddressInv => ReachesItself
  BY DEF AddressInv, Orderly, OrderlyIn, Quiet, Addressed, ReachesItself, AtRest, Busy, Name
<1> QED BY <1>1, AddressHolds, PTL

(* close() and a failed open() leave no file, and with abstract names      *)
(* there is never one (transport.py:89).                                   *)
THEOREM AddressNoLitter == Spec => []NoLitter
<1>1. AddressInv => NoLitter
  <2> SUFFICES ASSUME AddressInv, NEW o \in Objects
               PROVE  /\ AtRest(o) /\ Name(o) \in files
                             => Name(o) \in left \/ (o \in path /\ socket[o] # None)
                      /\ host = "abstract" /\ o \notin raced
                             => o \notin path \cup {on[t] : t \in bound}
    BY DEF NoLitter
  <2>1. AtRest(o) => Quiet(o)
    BY DEF AtRest, Busy, AddressInv, Orderly, OrderlyIn
  <2>2. ASSUME host = "abstract", o \notin raced, NEW t \in bound, on[t] = o PROVE FALSE
    <3>1. t \in Threads
      BY DEF AddressInv, SocketInv, TypeInv, TypeOK
    <3> QED BY <2>2, <3>1 DEF AddressInv, Orderly, OrderlyIn, InCall
  <2>3. host = "abstract" /\ o \notin raced => o \notin path
    BY DEF AddressInv, Orderly, OrderlyIn
  <2> QED BY <2>1, <2>2, <2>3 DEF Quiet, Name
<1> QED BY <1>1, AddressHolds, PTL

(* A call that is alone in its transport fails for want of a daemon or of  *)
(* a place for its address, never for what others left (transport.py:109). *)
THEOREM AddressFails == Spec => FailsOnlyForCause
<1>1. AddressInv /\ [Next]_vars =>
        [\A t \in Threads :
          on[t] \notin raced =>
              /\ pc[t] # "fail" /\ pc'[t] = "fail" => ~up \/ host = "neither"
              /\ pc[t] = "close" => socket[on[t]] # None]_vars
  <2> SUFFICES ASSUME AddressInv, [Next]_vars, NEW t \in Threads, on[t] \notin raced
               PROVE  /\ pc[t] # "fail" /\ pc'[t] = "fail" => ~up \/ host = "neither"
                      /\ pc[t] = "close" => socket[on[t]] # None
    OBVIOUS
  <2>1. TypeOK /\ TypeInv
    BY DEF AddressInv, SocketInv, TypeInv
  <2>2. pc[t] # "idle" => on[t] \in Objects /\ InCall(on[t], t)
    BY <2>1, AtWork DEF AddressInv, Orderly, OrderlyIn
  <2>3. pc[t] = "close" => socket[on[t]] # None
    BY <2>2 DEF InCall
  <2>4. ASSUME pc[t] # "fail", pc'[t] = "fail" PROVE ~up \/ host = "neither"
    <3>1. \A u \in Threads : OpenStep(u) \/ CloseStep(u) =>
             u = t /\ (BindFile(u) \/ Connect(u))
      BY <2>1, <2>4
         DEF OpenStep, CloseStep, Bind, Unlink, BindFile, Connect, Publish, SetPath, Fail,
         FailUnlink, CloseSocket, Forget, CloseUnlink, ForgetPath, Return, Goto, TypeOK, object
    <3>2. ASSUME BindFile(t) PROVE host = "neither"
      BY <2>1, <2>2, <2>4, <3>2 DEF BindFile, Goto, InCall, Name, TypeOK
    <3>3. ASSUME Connect(t) PROVE ~up
      BY <2>1, <2>4, <3>3 DEF Connect, Goto, TypeOK
    <3>4. \A u \in Threads, o \in Objects : ~(Open(u, o) \/ Close(u, o))
      BY <2>1, <2>4 DEF Open, Close, Goto, TypeOK
    <3>5. \A O \in SUBSET Objects : ~Gone(O)
      BY <2>1, <2>4 DEF Gone, TypeOK
    <3>6. ~Daemon /\ ~UNCHANGED vars
      BY <2>4 DEF Daemon, vars
    <3> QED BY <3>1, <3>2, <3>3, <3>4, <3>5, <3>6, StepKinds
  <2> QED BY <2>3, <2>4
<1> QED BY <1>1, AddressHolds, PTL DEF Spec, FailsOnlyForCause
=============================================================================
