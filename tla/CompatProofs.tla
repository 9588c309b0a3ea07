---------------------------- MODULE CompatProofs ----------------------------
(***************************************************************************)
(* What execute_command() and close_all() of compat.py keep to, for any    *)
(* number of threads, interfaces, clients and calls.                       *)
(***************************************************************************)
EXTENDS Compat, TLAPS

-----------------------------------------------------------------------------
(* The operators the model is built from *)

(* Writing one element of a sequence. *)
LEMMA WrittenSeq ==
  ASSUME NEW S, NEW s \in Seq(S), NEW n, NEW x \in S
  PROVE  [s EXCEPT ![n] = x] \in Seq(S)
<1>1. DOMAIN s = 1 .. Len(s) /\ Len(s) \in Nat /\ \A i \in DOMAIN s : s[i] \in S
  OBVIOUS
<1>2. [s EXCEPT ![n] = x] \in [1 .. Len(s) -> S]
  BY <1>1
<1> QED BY <1>1, <1>2

(* What waits in a client's socket. *)
Answer == [to : Nat, reply : Replies]

Elements(q) == {q[k] : k \in DOMAIN q}

LEMMA ElementsOfTail ==
  ASSUME NEW S, NEW q \in Seq(S), q # << >>
  PROVE  /\ Head(q) \in Elements(q) /\ Head(q) \in S /\ Tail(q) \in Seq(S)
         /\ Elements(Tail(q)) \subseteq Elements(q)
<1>1. /\ Len(q) \in Nat /\ Len(q) >= 1 /\ DOMAIN q = 1 .. Len(q)
      /\ DOMAIN Tail(q) = 1 .. (Len(q) - 1) /\ Head(q) = q[1]
      /\ \A k \in DOMAIN Tail(q) : Tail(q)[k] = q[k + 1]
  OBVIOUS
<1>2. Head(q) \in Elements(q)
  BY <1>1 DEF Elements
<1>3. ASSUME NEW k \in DOMAIN Tail(q) PROVE Tail(q)[k] \in Elements(q)
  <2>1. k + 1 \in DOMAIN q /\ Tail(q)[k] = q[k + 1]
    BY <1>1
  <2> QED BY <2>1 DEF Elements
<1> QED BY <1>2, <1>3 DEF Elements

LEMMA ElementsOfOne == \A n : Elements(<<n>>) = {n} /\ Elements(<< >>) = {}
BY DEF Elements

(* A thread in close_all(); one in a call, with a client or without.       *)
ClosingAll(t) == pc[t] \in {"check", "pop", "close"}
Active(t) == pc[t] = "create" \/ Calling(t)

(* A call ends, well or badly: seven actions of execute_command(). *)
Leaving(t) ==
  \/ OpenFails(t) \/ OpenEscapes(t) \/ SendFails(t) \/ SendEscapes(t)
  \/ Receive(t) \/ ReceiveFails(t) \/ ReceiveEscapes(t)

(* The sockets and what waits in them, after a client was let go. *)
LEMMA SocketsSay ==
  ASSUME TypeOK, NEW still, Sockets(still), still \subseteq Clients
  PROVE  /\ open' \subseteq Clients /\ open' = still
         /\ rx' \in [Clients -> Seq(Answer)]
         /\ \A c \in Clients : rx'[c] = rx[c] \/ rx'[c] = << >>
<1>0. << >> \in Seq(Answer)
  OBVIOUS
<1>1. << >> \in Seq(Answer) /\ rx \in [Clients -> Seq(Answer)]
  BY <1>0 DEF TypeOK, Answer
<1>2. rx' = [c \in Clients |-> IF c \in still THEN rx[c] ELSE << >>] /\ open' = still
  BY DEF Sockets
<1>3. rx' \in [Clients -> Seq(Answer)]
  BY <1>1, <1>2
<1> QED BY <1>2, <1>3

LEMMA LeavingSays ==
  ASSUME TypeOK, NEW t \in Threads, Leaving(t)
  PROVE  /\ Calling(t)
         /\ pc' = [pc EXCEPT ![t] = "idle"] /\ mine' = [mine EXCEPT ![t] = None]
         /\ open' = open \cap Held(mine', clients)
         /\ UNCHANGED <<clients, made, queue, call, issued, asked, verdicts>>
         /\ rx' \in [Clients -> Seq(Answer)]
         /\ \A c \in Clients :
               \/ rx'[c] = rx[c] \/ rx'[c] = << >>
               \/ Receive(t) /\ c = mine[t] /\ rx'[c] = Tail(rx[c])
         /\ \E result \in Results :
               told' = [told EXCEPT ![t] = [no |-> call[t].no, result |-> result]]
         /\ trouble \subseteq trouble' /\ trouble' \subseteq trouble \cup {"abandoned"}
<1> USE DEF Calling, Results, Escapes
<1>1. open \cap Held(mine', clients) \subseteq Clients
  BY DEF TypeOK
<1>2. CASE OpenFails(t) \/ OpenEscapes(t)
  BY <1>1, <1>2, SocketsSay DEF OpenFails, OpenEscapes, Return, Release
<1>3. CASE SendFails(t) \/ SendEscapes(t)
  BY <1>1, <1>3, SocketsSay DEF SendFails, SendEscapes, Return, Release
<1>4. CASE Receive(t)
  <2> DEFINE kept == [rx EXCEPT ![mine[t]] = Tail(@)]
  <2>1. /\ pc[t] = "receive" /\ rx[mine[t]] # << >>
        /\ pc' = [pc EXCEPT ![t] = "idle"] /\ mine' = [mine EXCEPT ![t] = None]
        /\ open' = open \cap Held(mine', clients)
        /\ rx' = [d \in Clients |-> IF d \in open' THEN kept[d] ELSE << >>]
        /\ told' = [told EXCEPT ![t] = [no |-> call[t].no,
                                        result |-> Verdict(Head(rx[mine[t]]).reply)]]
        /\ UNCHANGED <<clients, made, queue, call, issued, asked, verdicts, trouble>>
    BY <1>4 DEF Receive, Rest
  <2>2. \A d \in Clients :
          /\ kept[d] \in Seq(Answer)
          /\ d = mine[t] => kept[d] = Tail(rx[d])
          /\ d # mine[t] => kept[d] = rx[d]
    BY <2>1, ElementsOfTail DEF TypeOK, Answer
  <2> HIDE DEF kept
  <2>3. Verdict(Head(rx[mine[t]]).reply) \in Results
    BY DEF Verdict
  <2>5. << >> \in Seq(Answer)
    OBVIOUS
  <2>4. /\ rx' \in [Clients -> Seq(Answer)]
        /\ \A c \in Clients : \/ rx'[c] = rx[c] \/ rx'[c] = << >>
                              \/ c = mine[t] /\ rx'[c] = Tail(rx[c])
    BY <2>1, <2>2, <2>5
  <2> QED BY <1>4, <2>1, <2>3, <2>4
<1>5. CASE ReceiveFails(t)
  BY <1>1, <1>5, SocketsSay DEF ReceiveFails, Return, Release, Note
<1>6. CASE ReceiveEscapes(t)
  BY <1>1, <1>6, SocketsSay DEF ReceiveEscapes, Return, Release, Note
<1> QED BY <1>2, <1>3, <1>4, <1>5, <1>6 DEF Leaving

(* The kinds of steps. *)
LEMMA StepKinds ==
  [Next]_vars =>
    \/ \E t \in Threads : \/ Leaving(t) \/ Create(t) \/ OpenClient(t) \/ Send(t)
                          \/ CloseAll(t) \/ Check(t) \/ Pop(t) \/ Close(t)
                          \/ \E i \in Ifnames : Execute(t, i)
    \/ \E c \in Clients, reply \in Replies : Serve(c, reply)
    \/ UNCHANGED vars
BY DEF Next, Thread, Leaving

-----------------------------------------------------------------------------
(* Type correctness *)

(* A thread holds a client in a call or while it closes one; the           *)
(* dictionary has no client twice.                                         *)
HoldInv ==
  /\ \A t \in Threads : mine[t] # None <=> Calling(t) \/ pc[t] = "close"
  /\ \A i, j \in Ifnames : clients[i] # None /\ clients[i] = clients[j] => i = j

TypeInv == TypeOK /\ HoldInv

LEMMA NoneIsNoClient == None \notin Clients /\ \A c \in Clients : c # None
BY NoneAssumption

(* The client a thread makes is nobody's: no thread holds it, and it is    *)
(* not in the dictionary.                                                  *)
Nobodys(c) == /\ c \in Clients /\ c # None
              /\ \A u \in Threads : mine[u] # c
              /\ \A i \in Ifnames : clients[i] # c

LEMMA MadeAnother ==
  ASSUME TypeOK, NEW t \in Threads, Create(t)
  PROVE  /\ made' = Append(made, call[t].ifname) /\ made' \in Seq(Ifnames)
         /\ pc' = [pc EXCEPT ![t] = "open"] /\ pc[t] = "create"
         /\ call[t].ifname \in Ifnames
         /\ \E c \in Clients : /\ Nobodys(c)
                               /\ clients' = [clients EXCEPT ![call[t].ifname] = c]
                               /\ mine' = [mine EXCEPT ![t] = c]
         /\ rx' \in [Clients -> Seq(Answer)]
         /\ \A d \in Clients : rx'[d] = rx[d] \/ rx'[d] = << >>
         /\ open' \subseteq Clients /\ open' = open \cap Held(mine', clients')
         /\ UNCHANGED <<queue, call, issued, told, asked, verdicts, trouble>>
<1>1. made \in Seq(Ifnames) /\ call[t].ifname \in Ifnames
  BY DEF TypeOK
<1>2. made' = Append(made, call[t].ifname) /\ made' \in Seq(Ifnames)
  BY <1>1 DEF Create
<1>3. /\ Sockets(open \cap Held(mine', clients')) /\ open \subseteq Clients
      /\ pc' = [pc EXCEPT ![t] = "open"] /\ pc[t] = "create"
      /\ UNCHANGED <<queue, call, issued, told, asked, verdicts, trouble>>
  BY DEF Create, TypeOK
<1>4. PICK c \in Clients \ Held(mine, clients) :
         clients' = [clients EXCEPT ![call[t].ifname] = c] /\ mine' = [mine EXCEPT ![t] = c]
  BY DEF Create, Stored
<1>5. Nobodys(c)
  BY <1>4, NoneIsNoClient DEF Nobodys, Held
<1>6. /\ rx' \in [Clients -> Seq(Answer)]
      /\ \A d \in Clients : rx'[d] = rx[d] \/ rx'[d] = << >>
      /\ open' \subseteq Clients /\ open' = open \cap Held(mine', clients')
  BY <1>3, SocketsSay
<1> QED BY <1>1, <1>2, <1>3, <1>4, <1>5, <1>6

LEMMA ThreadType ==
  ASSUME TypeInv, NEW t \in Threads,
         \/ Leaving(t) \/ Create(t) \/ OpenClient(t) \/ Send(t)
         \/ CloseAll(t) \/ Check(t) \/ Pop(t) \/ Close(t)
  PROVE  TypeInv'
<1> USE NoneIsNoClient DEF TypeInv, HoldInv, Calling, PCs
<1>0. TypeOK OBVIOUS
<1>1. CASE Leaving(t)
  <2>0. /\ pc' = [pc EXCEPT ![t] = "idle"] /\ mine' = [mine EXCEPT ![t] = None]
        /\ open' \subseteq open /\ rx' \in [Clients -> Seq(Answer)]
        /\ UNCHANGED <<clients, made, queue, call, issued, asked, verdicts>>
        /\ \E result \in Results :
              told' = [told EXCEPT ![t] = [no |-> call[t].no, result |-> result]]
        /\ trouble' \subseteq trouble \cup {"abandoned"}
    BY <1>0, <1>1, LeavingSays
  <2>00. told' \in [Threads -> [no : Nat, result : Results]]
    <3>1. \A result \in Results : [no |-> call[t].no, result |-> result] \in [no : Nat, result : Results]
      BY <1>0 DEF TypeOK
    <3>2. told \in [Threads -> [no : Nat, result : Results]]
      BY <1>0 DEF TypeOK
    <3>3. ASSUME NEW record \in [no : Nat, result : Results], told' = [told EXCEPT ![t] = record]
          PROVE  told' \in [Threads -> [no : Nat, result : Results]]
      BY <3>2, <3>3
    <3> QED BY <2>0, <3>1, <3>2, <3>3
  <2>1. TypeOK' BY <1>0, <2>0, <2>00 DEF TypeOK, Troubles, Answer
  <2>2. HoldInv' BY <1>0, <2>0 DEF TypeOK
  <2> QED BY <2>1, <2>2
<1>2. CASE Create(t)
  <2>1. /\ made' \in Seq(Ifnames) /\ pc' = [pc EXCEPT ![t] = "open"]
        /\ call[t].ifname \in Ifnames
        /\ rx' \in [Clients -> Seq(Answer)] /\ open' \subseteq Clients
        /\ UNCHANGED <<queue, call, issued, told, asked, verdicts, trouble>>
    BY <1>0, <1>2, MadeAnother
  <2>2. PICK c \in Clients : /\ Nobodys(c)
                            /\ clients' = [clients EXCEPT ![call[t].ifname] = c]
                            /\ mine' = [mine EXCEPT ![t] = c]
    BY <1>0, <1>2, MadeAnother
  <2>3. TypeOK' BY <1>0, <2>1, <2>2 DEF TypeOK, Answer
  <2>4. HoldInv' BY <1>0, <2>1, <2>2 DEF TypeOK, Nobodys
  <2> QED BY <2>3, <2>4
<1>3. CASE OpenClient(t)
  <2>1. mine[t] \in Clients BY <1>0, <1>3 DEF OpenClient, TypeOK
  <2> QED BY <1>0, <1>3, <2>1 DEF OpenClient, TypeOK
<1>4. CASE Send(t)
  <2>1. mine[t] \in Clients /\ call[t].no \in Nat
    BY <1>0, <1>4 DEF Send, TypeOK
  <2>2. queue' = [queue EXCEPT ![mine[t]] = Append(queue[mine[t]], call[t].no)]
    BY <1>4 DEF Send
  <2>3. queue' \in [Clients -> Seq(Nat)]
    BY <1>0, <2>1, <2>2 DEF TypeOK
  <2> QED BY <1>0, <1>4, <2>1, <2>2, <2>3 DEF Send, TypeOK
<1>5. CASE CloseAll(t) BY <1>0, <1>5 DEF CloseAll, Note, TypeOK, Troubles
<1>6. CASE Check(t) BY <1>0, <1>6 DEF Check, TypeOK
<1>7. CASE Pop(t)
  <2>1. /\ UNCHANGED <<made, open, queue, rx, call, issued, told, asked, verdicts>>
        /\ pc[t] = "pop" /\ trouble' \subseteq trouble \cup {"popped", "missed"}
    BY <1>7 DEF Pop, Note
  <2>2. CASE UNCHANGED <<clients, mine>> /\ pc' = [pc EXCEPT ![t] = "idle"]
    BY <1>0, <2>1, <2>2 DEF TypeOK, Troubles
  <2>3. ASSUME NEW i \in Ifnames, clients[i] # None, mine' = [mine EXCEPT ![t] = clients[i]],
               clients' = [clients EXCEPT ![i] = None], pc' = [pc EXCEPT ![t] = "close"]
        PROVE  TypeInv'
    <3>1. TypeOK' BY <1>0, <2>1, <2>3 DEF TypeOK, Troubles
    <3>2. HoldInv' BY <1>0, <2>1, <2>3 DEF TypeOK
    <3> QED BY <3>1, <3>2
  <2> QED BY <1>7, <2>2, <2>3 DEF Pop
<1>8. CASE Close(t)
  <2>1. (open \ {mine[t]}) \cap Held(mine', clients) \subseteq Clients
    BY <1>0 DEF TypeOK
  <2> QED BY <1>0, <1>8, <2>1, SocketsSay DEF Close, Note, TypeOK, Troubles, Answer
<1> QED BY <1>1, <1>2, <1>3, <1>4, <1>5, <1>6, <1>7, <1>8

LEMMA ExecuteType ==
  ASSUME TypeInv, NEW t \in Threads, NEW i \in Ifnames, Execute(t, i)
  PROVE  TypeInv'
<1> USE NoneIsNoClient DEF TypeInv, HoldInv, Calling, PCs
<1>1. /\ pc[t] = "idle" /\ issued' = issued + 1
      /\ call' = [call EXCEPT ![t] = [no |-> issued + 1, ifname |-> i]]
      /\ mine' = [mine EXCEPT ![t] = clients[i]]
      /\ pc' = [pc EXCEPT ![t] = IF clients[i] = None THEN "create" ELSE "open"]
      /\ trouble' \subseteq trouble \cup {"shared", "raced"}
      /\ UNCHANGED <<clients, made, open, queue, rx, told>>
  BY DEF Execute
<1>2. verdicts' \in Seq(Replies \cup {"unserved"}) /\ asked' \in Seq(Ifnames)
  BY DEF Execute, TypeOK
<1>3. TypeOK'
  <2>1. [no |-> issued + 1, ifname |-> i] \in [no : Nat, ifname : Ifnames]
    BY DEF TypeOK
  <2>2. call' \in [Threads -> [no : Nat, ifname : Ifnames]]
    BY <1>1, <2>1 DEF TypeOK
  <2> QED BY <1>1, <1>2, <2>2 DEF TypeOK, Troubles
<1>4. HoldInv'
  BY <1>1 DEF TypeOK
<1> QED BY <1>3, <1>4

LEMMA ServeType ==
  ASSUME TypeInv, NEW c \in Clients, NEW reply \in Replies, Serve(c, reply)
  PROVE  TypeInv'
<1> DEFINE n == Head(queue[c])
<1>1. queue[c] \in Seq(Nat) /\ queue[c] # << >>
  BY DEF Serve, TypeInv, HoldInv, TypeOK
<1>2. n \in Nat /\ Tail(queue[c]) \in Seq(Nat)
  BY <1>1, ElementsOfTail
<1>3. /\ queue' = [queue EXCEPT ![c] = Tail(queue[c])]
      /\ verdicts' = [verdicts EXCEPT ![n] = reply]
      /\ rx' = IF Connected(c, asked[n])
               THEN [rx EXCEPT ![c] = Append(rx[c], [to |-> n, reply |-> reply])] ELSE rx
      /\ UNCHANGED <<clients, made, open, pc, mine, call, issued, told, asked, trouble>>
  BY DEF Serve
<1> HIDE DEF n
<1>4. verdicts' \in Seq(Replies \cup {"unserved"})
  BY <1>3, WrittenSeq DEF TypeInv, TypeOK
<1>5. Append(rx[c], [to |-> n, reply |-> reply]) \in Seq(Answer)
  <2>1. [to |-> n, reply |-> reply] \in Answer /\ rx[c] \in Seq(Answer)
    BY <1>2 DEF TypeInv, TypeOK, Answer
  <2> QED BY <2>1
<1>6. TypeOK'
  BY <1>2, <1>3, <1>4, <1>5 DEF TypeInv, TypeOK, Answer
<1>7. HoldInv'
  BY <1>1, <1>3 DEF TypeInv, HoldInv, Calling, TypeOK
<1> QED BY <1>6, <1>7 DEF TypeInv

LEMMA StepType == TypeInv /\ [Next]_vars => TypeInv'
<1> SUFFICES ASSUME TypeInv, [Next]_vars PROVE TypeInv'
  OBVIOUS
<1>1. CASE UNCHANGED vars
  BY <1>1 DEF vars, TypeInv, TypeOK, HoldInv, Calling
<1> QED BY <1>1, StepKinds, ThreadType, ExecuteType, ServeType

LEMMA TypeHolds == Spec => []TypeInv
<1>1. Init => TypeInv
  <2> SUFFICES ASSUME Init PROVE TypeInv
    OBVIOUS
  <2>1. << >> \in Seq(Ifnames) /\ DOMAIN << >> = {}
    OBVIOUS
  <2> QED BY <2>1 DEF Init, TypeInv, TypeOK, HoldInv, Calling, PCs, Results
<1> QED BY <1>1, StepType, PTL DEF Spec

(* Every variable keeps its type; in particular a thread that is in a call *)
(* or closes a client always has one.                                      *)
THEOREM CompatTypeCorrect == Spec => []TypeOK
<1>1. TypeInv => TypeOK
  BY DEF TypeInv
<1> QED BY <1>1, TypeHolds, PTL

-----------------------------------------------------------------------------
(* One client for each interface *)

(* Until two calls have found no client at once, or close_all() has        *)
(* dropped one: every interface a client was made for has one in the       *)
(* dictionary, none had a second, and a thread that is to make one is      *)
(* alone in that and right.                                                *)
OneInv ==
  trouble \cap {"raced", "popped"} = {} =>
    /\ \A c \in DOMAIN made : clients[made[c]] # None
    /\ \A c, d \in DOMAIN made : made[c] = made[d] => c = d
    /\ \A t, u \in Threads :
          pc[t] = "create" /\ pc[u] = "create" /\ call[t].ifname = call[u].ifname => t = u
    /\ \A t \in Threads : pc[t] = "create" => clients[call[t].ifname] = None

LEMMA OneUntouched ==
  ASSUME OneInv, UNCHANGED <<clients, made, call>>, trouble \subseteq trouble',
         \A t \in Threads : pc'[t] = "create" => pc[t] = "create"
  PROVE  OneInv'
BY DEF OneInv

LEMMA StepOne == TypeInv /\ OneInv /\ [Next]_vars => OneInv'
<1> SUFFICES ASSUME TypeInv, OneInv, [Next]_vars PROVE OneInv'
  OBVIOUS
<1>0. TypeOK /\ HoldInv
  BY DEF TypeInv
<1>1. ASSUME NEW t \in Threads, Leaving(t) PROVE OneInv'
  <2>1. /\ pc' = [pc EXCEPT ![t] = "idle"] /\ UNCHANGED <<clients, made, call>>
        /\ trouble \subseteq trouble'
    BY <1>0, <1>1, LeavingSays
  <2> QED BY <1>0, <2>1, OneUntouched DEF TypeOK
<1>2. ASSUME NEW t \in Threads, Create(t), trouble' \cap {"raced", "popped"} = {} PROVE OneInv'
  <2> DEFINE i == call[t].ifname
             k == Len(made) + 1
  <2>1. /\ made' = Append(made, i) /\ i \in Ifnames
        /\ pc' = [pc EXCEPT ![t] = "open"] /\ pc[t] = "create"
        /\ UNCHANGED <<call, trouble>>
    BY <1>0, <1>2, MadeAnother
  <2>2. PICK c \in Clients : Nobodys(c) /\ clients' = [clients EXCEPT ![i] = c]
    BY <1>0, <1>2, MadeAnother
  <2>3. made \in Seq(Ifnames)
    BY <1>0 DEF TypeOK
  <2>4. /\ DOMAIN made' = DOMAIN made \cup {k} /\ k \notin DOMAIN made /\ made'[k] = i
        /\ \A d \in DOMAIN made : made'[d] = made[d] /\ made[d] \in Ifnames
    BY <2>1, <2>3
  <2> HIDE DEF i, k
  <2>5. /\ \A d \in DOMAIN made : clients[made[d]] # None
        /\ \A d, e \in DOMAIN made : made[d] = made[e] => d = e
        /\ \A u \in Threads : pc[u] = "create" /\ call[u].ifname = i => u = t
        /\ \A u \in Threads : pc[u] = "create" => clients[call[u].ifname] = None
        /\ clients[i] = None
    BY <1>2, <2>1 DEF OneInv, i
  <2>6. \A j \in Ifnames : clients'[j] = IF j = i THEN c ELSE clients[j]
    BY <1>0, <2>2 DEF TypeOK
  <2>7. \A d \in DOMAIN made' : clients'[made'[d]] # None
    BY <2>1, <2>2, <2>4, <2>5, <2>6 DEF Nobodys
  <2>8. \A d, e \in DOMAIN made' : made'[d] = made'[e] => d = e
    BY <2>4, <2>5
  <2>9. ASSUME NEW u \in Threads, pc'[u] = "create"
        PROVE  pc[u] = "create" /\ call[u].ifname # i /\ clients'[call[u].ifname] = None
    <3>1. u # t /\ pc[u] = "create" /\ call[u].ifname \in Ifnames
      BY <1>0, <2>1, <2>9 DEF TypeOK
    <3> QED BY <2>5, <2>6, <3>1
  <2>10. \A u, v \in Threads :
           pc'[u] = "create" /\ pc'[v] = "create" /\ call[u].ifname = call[v].ifname => u = v
    BY <1>2, <2>1, <2>9 DEF OneInv
  <2> QED BY <2>1, <2>7, <2>8, <2>9, <2>10 DEF OneInv
<1>3. ASSUME NEW t \in Threads, OpenClient(t) \/ Send(t) \/ CloseAll(t) \/ Check(t) PROVE OneInv'
  BY <1>0, <1>3, OneUntouched DEF OpenClient, Send, CloseAll, Check, Note, TypeOK
<1>4. ASSUME NEW t \in Threads, Close(t) PROVE OneInv'
  BY <1>0, <1>4, OneUntouched DEF Close, Note, TypeOK
<1>5. ASSUME NEW t \in Threads, Pop(t) PROVE OneInv'
  <2>1. CASE "popped" \in trouble'
    BY <2>1 DEF OneInv
  <2>2. CASE "popped" \notin trouble'
    BY <1>0, <1>5, <2>2, OneUntouched DEF Pop, Note, TypeOK
  <2> QED BY <2>1, <2>2
<1>6. ASSUME NEW t \in Threads, NEW i \in Ifnames, Execute(t, i) PROVE OneInv'
  <2>1. /\ pc' = [pc EXCEPT ![t] = IF clients[i] = None THEN "create" ELSE "open"]
        /\ call' = [call EXCEPT ![t] = [no |-> issued + 1, ifname |-> i]]
        /\ UNCHANGED <<clients, made>> /\ trouble \subseteq trouble'
        /\ BeingMade(i) => "raced" \in trouble'
    BY <1>6 DEF Execute
  <2>2. /\ call'[t].ifname = i /\ \A u \in Threads \ {t} : call'[u] = call[u] /\ pc'[u] = pc[u]
        /\ pc'[t] = "create" => clients[i] = None
    BY <1>0, <2>1 DEF TypeOK
  <2>3. ASSUME "raced" \notin trouble', pc'[t] = "create", NEW u \in Threads \ {t}, pc[u] = "create"
        PROVE  call[u].ifname # i
    BY <2>1, <2>2, <2>3 DEF BeingMade
  <2> QED BY <2>1, <2>2, <2>3 DEF OneInv
<1>7. ASSUME NEW c \in Clients, NEW reply \in Replies, Serve(c, reply) PROVE OneInv'
  BY <1>7, OneUntouched DEF Serve
<1>8. CASE UNCHANGED vars BY <1>8, OneUntouched DEF vars
<1> QED BY <1>1, <1>2, <1>3, <1>4, <1>5, <1>6, <1>7, <1>8, StepKinds DEF OneInv

(* One connection for each interface, reused across calls (compat.py:23),  *)
(* until close_all() has dropped one or two calls have made one each.      *)
THEOREM CompatOneClient == Spec => []OneClientEach
<1>1. Init => OneInv
  <2>1. DOMAIN << >> = {}
    OBVIOUS
  <2> QED BY <2>1 DEF Init, OneInv
<1>2. OneInv => OneClientEach
  BY DEF OneInv, OneClientEach
<1> QED BY <1>1, <1>2, StepOne, TypeHolds, PTL DEF Spec

-----------------------------------------------------------------------------
(* Exceptions that escape *)

InDict(c) == \E i \in Ifnames : clients[i] = c

(* What close_all() has dropped is nowhere in the dictionary; a call finds *)
(* its client's socket open until close_all() has closed it; and one       *)
(* thread in close_all() alone finds in the dictionary what it saw there.  *)
CloseInv ==
  /\ \A t \in Threads : pc[t] = "close" => ~InDict(mine[t])
  /\ \A t \in Threads : pc[t] \in {"send", "receive"} =>
        mine[t] \in open \/ ("closed" \in trouble /\ ~InDict(mine[t]))
  /\ "rivals" \notin trouble =>
        /\ \A t, u \in Threads : ClosingAll(t) /\ ClosingAll(u) => t = u
        /\ \A t \in Threads : pc[t] = "pop" => ~Empty
  /\ RacesBehindEscapes

(* A thread that only moves on, and is not at a place CloseInv speaks of.  *)
LEMMA CloseUntouched ==
  ASSUME TypeInv, CloseInv, NEW t \in Threads, UNCHANGED clients,
         \A u \in Threads \ {t} : pc'[u] = pc[u] /\ mine'[u] = mine[u],
         pc'[t] \notin {"close", "send", "receive", "check", "pop"},
         \A u \in Threads \ {t} : mine[u] \in open => mine[u] \in open',
         trouble \subseteq trouble',
         "missed" \in trouble' => "missed" \in trouble \/ "rivals" \in trouble',
         \A u \in Threads : told'[u].result = "cutoff" =>
                            told[u].result = "cutoff" \/ "closed" \in trouble
  PROVE  CloseInv'
BY DEF CloseInv, InDict, ClosingAll, Empty, RacesBehindEscapes

LEMMA StepClose == TypeInv /\ CloseInv /\ [Next]_vars => CloseInv'
<1> SUFFICES ASSUME TypeInv, CloseInv, [Next]_vars PROVE CloseInv'
  OBVIOUS
<1>0. TypeOK /\ HoldInv
  BY DEF TypeInv
<1>1. ASSUME NEW t \in Threads, Leaving(t) PROVE CloseInv'
  <2>1. /\ pc' = [pc EXCEPT ![t] = "idle"] /\ mine' = [mine EXCEPT ![t] = None]
        /\ open' = open \cap Held(mine', clients) /\ UNCHANGED clients
        /\ trouble \subseteq trouble' /\ trouble' \subseteq trouble \cup {"abandoned"}
    BY <1>0, <1>1, LeavingSays
  <2>2. \A u \in Threads : told'[u].result = "cutoff" =>
                             told[u].result = "cutoff" \/ "closed" \in trouble
    <3>1. CASE ReceiveEscapes(t)
      BY <3>1 DEF ReceiveEscapes, CloseInv
    <3>2. CASE Receive(t)
      <4>1. Verdict(Head(rx[mine[t]]).reply) # "cutoff"
        BY DEF Verdict
      <4> QED BY <1>0, <3>2, <4>1 DEF Receive, TypeOK
    <3>3. CASE OpenFails(t) \/ OpenEscapes(t) \/ SendFails(t) \/ SendEscapes(t) \/ ReceiveFails(t)
      <4>1. PICK result \in {"false", "exhausted", "unencodable"} :
               told' = [told EXCEPT ![t] = [no |-> call[t].no, result |-> result]]
        BY <3>3 DEF OpenFails, OpenEscapes, SendFails, SendEscapes, ReceiveFails, Return
      <4> QED BY <1>0, <4>1 DEF TypeOK
    <3> QED BY <1>1, <3>1, <3>2, <3>3 DEF Leaving
  <2>3. \A u \in Threads \ {t} : pc'[u] = pc[u] /\ mine'[u] = mine[u]
    BY <1>0, <2>1 DEF TypeOK
  <2>4. \A u \in Threads \ {t} : mine[u] \in open => mine[u] \in open'
    BY <2>1, <2>3 DEF Held
  <2>5. pc'[t] = "idle"
    BY <1>0, <2>1 DEF TypeOK
  <2> QED BY <2>1, <2>2, <2>3, <2>4, <2>5, CloseUntouched
<1>2. ASSUME NEW t \in Threads, Create(t) PROVE CloseInv'
  <2>0. PICK c \in Clients : /\ Nobodys(c)
                            /\ clients' = [clients EXCEPT ![call[t].ifname] = c]
                            /\ mine' = [mine EXCEPT ![t] = c]
    BY <1>0, <1>2, MadeAnother
  <2>1. /\ clients' = [clients EXCEPT ![call[t].ifname] = c] /\ c # None
        /\ mine' = [mine EXCEPT ![t] = c] /\ pc' = [pc EXCEPT ![t] = "open"]
        /\ open' = open \cap Held(mine', clients') /\ trouble' = trouble
        /\ call[t].ifname \in Ifnames /\ told' = told
    BY <1>0, <1>2, <2>0, MadeAnother DEF Nobodys
  <2>2. \A u \in Threads \ {t} : pc'[u] = pc[u] /\ mine'[u] = mine[u] /\ mine[u] # c
    BY <1>0, <2>0, <2>1 DEF TypeOK, Nobodys
  <2>3. pc'[t] = "open"
    BY <1>0, <2>1 DEF TypeOK
  <2>4. \A u \in Threads \ {t} : InDict(mine[u])' => InDict(mine[u])
    BY <1>0, <2>1, <2>2 DEF InDict, TypeOK
  <2>5. \A u \in Threads \ {t} : mine[u] \in open => mine[u] \in open'
    BY <2>1, <2>2 DEF Held
  <2>6. ~Empty'
    BY <1>0, <2>1 DEF Empty, TypeOK
  <2>7. \A u \in Threads : pc'[u] = "close" => ~InDict(mine[u])' /\ mine'[u] = mine[u]
    BY <2>2, <2>3, <2>4 DEF CloseInv
  <2>8. \A u \in Threads : pc'[u] \in {"send", "receive"} =>
           /\ mine'[u] = mine[u]
           /\ mine[u] \in open' \/ ("closed" \in trouble /\ ~InDict(mine[u])')
    BY <2>2, <2>3, <2>4, <2>5 DEF CloseInv
  <2>9. \A u \in Threads : ClosingAll(u)' => ClosingAll(u)
    BY <2>2, <2>3 DEF ClosingAll
  <2> QED BY <2>1, <2>6, <2>7, <2>8, <2>9 DEF CloseInv, InDict, RacesBehindEscapes
<1>3. ASSUME NEW t \in Threads, OpenClient(t) PROVE CloseInv'
  BY <1>0, <1>3 DEF OpenClient, CloseInv, InDict, ClosingAll, Empty, RacesBehindEscapes, TypeOK
<1>4. ASSUME NEW t \in Threads, Send(t) PROVE CloseInv'
  BY <1>0, <1>4 DEF Send, CloseInv, InDict, ClosingAll, Empty, RacesBehindEscapes, TypeOK
<1>5. ASSUME NEW t \in Threads, CloseAll(t) PROVE CloseInv'
  <2>1. /\ pc' = [pc EXCEPT ![t] = "check"] /\ UNCHANGED <<clients, open, mine, told>>
        /\ trouble' = IF \E u \in Threads : ClosingAll(u) THEN trouble \cup {"rivals"} ELSE trouble
    BY <1>5 DEF CloseAll, Note, ClosingAll
  <2> QED BY <1>0, <2>1 DEF CloseInv, InDict, ClosingAll, Empty, RacesBehindEscapes, TypeOK
<1>6. ASSUME NEW t \in Threads, Check(t) PROVE CloseInv'
  <2>1. /\ pc[t] = "check" /\ pc' = [pc EXCEPT ![t] = IF Empty THEN "idle" ELSE "pop"]
        /\ UNCHANGED <<clients, open, mine, told, trouble>>
    BY <1>6 DEF Check
  <2>2. /\ Empty' <=> Empty
        /\ \A u \in Threads : ClosingAll(u)' => ClosingAll(u)
        /\ \A u \in Threads : pc'[u] = "pop" => pc[u] = "pop" \/ ~Empty
        /\ \A u \in Threads : pc'[u] \in {"close", "send", "receive"} => pc'[u] = pc[u]
    BY <1>0, <2>1 DEF Empty, ClosingAll, TypeOK
  <2> QED BY <2>1, <2>2 DEF CloseInv, InDict, RacesBehindEscapes
<1>7. ASSUME NEW t \in Threads, Pop(t) PROVE CloseInv'
  <2>1. pc[t] = "pop" /\ open' = open /\ told' = told /\ \A u \in Threads \ {t} : pc'[u] = pc[u]
    BY <1>0, <1>7 DEF Pop, TypeOK
  <2>2. \A u \in Threads \ {t} : "rivals" \notin trouble => ~ClosingAll(u)
    BY <2>1 DEF CloseInv, ClosingAll
  <2>3. CASE /\ Empty /\ pc' = [pc EXCEPT ![t] = "idle"] /\ trouble' = trouble \cup {"missed"}
             /\ UNCHANGED <<clients, mine>>
    <3>1. "rivals" \in trouble
      BY <2>1, <2>3 DEF CloseInv
    <3>2. pc'[t] = "idle"
      BY <1>0, <2>3 DEF TypeOK
    <3> QED BY <2>1, <2>3, <3>1, <3>2, CloseUntouched
  <2>4. ASSUME NEW i \in Ifnames, clients[i] # None, mine' = [mine EXCEPT ![t] = clients[i]],
               clients' = [clients EXCEPT ![i] = None], pc' = [pc EXCEPT ![t] = "close"],
               trouble' = trouble \cup {"popped"}
        PROVE  CloseInv'
    <3>1. /\ mine'[t] = clients[i] /\ pc'[t] = "close"
          /\ \A u \in Threads \ {t} : mine'[u] = mine[u]
      BY <1>0, <2>4 DEF TypeOK
    <3>2. \A d \in Clients : InDict(d)' => InDict(d) /\ d # clients[i]
      <4>1. \A j \in Ifnames : clients'[j] = IF j = i THEN None ELSE clients[j]
        BY <1>0, <2>4 DEF TypeOK
      <4> QED BY <1>0, <2>4, <4>1, NoneIsNoClient DEF HoldInv, InDict
    <3>3. \A u \in Threads : pc[u] \in {"close", "send", "receive"} => mine[u] \in Clients
      BY <1>0 DEF HoldInv, TypeOK, Calling
    <3>4. clients[i] \in Clients
      BY <1>0, <2>4 DEF TypeOK
    <3>5. \A u \in Threads : pc'[u] = "close" => ~InDict(mine[u])'
      BY <2>1, <3>1, <3>2, <3>3, <3>4 DEF CloseInv, InDict
    <3>6. \A u \in Threads : pc'[u] \in {"send", "receive"} =>
             mine'[u] \in open \/ ("closed" \in trouble /\ ~InDict(mine[u])')
      BY <2>1, <3>1, <3>2, <3>3 DEF CloseInv, InDict
    <3>7. "rivals" \notin trouble => \A u \in Threads : ClosingAll(u)' => u = t
      BY <2>1, <2>2 DEF ClosingAll
    <3>8. \A u \in Threads : pc'[u] = "pop" => u # t /\ ClosingAll(u)
      BY <2>1, <3>1 DEF ClosingAll
    <3> QED BY <2>1, <2>2, <2>4, <3>1, <3>5, <3>6, <3>7, <3>8
           DEF CloseInv, InDict, RacesBehindEscapes
  <2> QED BY <1>7, <2>3, <2>4 DEF Pop, Note
<1>8. ASSUME NEW t \in Threads, Close(t) PROVE CloseInv'
  <2>1. /\ pc[t] = "close" /\ pc' = [pc EXCEPT ![t] = "check"] /\ mine' = [mine EXCEPT ![t] = None]
        /\ open' = (open \ {mine[t]}) \cap Held(mine', clients) /\ UNCHANGED <<clients, told>>
        /\ trouble' = IF \E u \in Threads \ {t} : mine[u] = mine[t]
                      THEN trouble \cup {"closed"} ELSE trouble
    BY <1>8 DEF Close, Sockets, Note
  <2>2. /\ pc'[t] = "check" /\ \A u \in Threads \ {t} : pc'[u] = pc[u] /\ mine'[u] = mine[u]
    BY <1>0, <2>1 DEF TypeOK
  <2>3. ~InDict(mine[t])
    BY <2>1 DEF CloseInv
  <2>4. \A u \in Threads \ {t} : mine[u] \in open =>
           mine[u] \in open' \/ ("closed" \in trouble' /\ mine[u] = mine[t])
    BY <2>1, <2>2 DEF Held
  <2>5. \A u \in Threads : pc'[u] \in {"send", "receive"} =>
           mine'[u] \in open' \/ ("closed" \in trouble' /\ ~InDict(mine[u])')
    <3> SUFFICES ASSUME NEW u \in Threads, pc'[u] \in {"send", "receive"}
                 PROVE  mine'[u] \in open' \/ ("closed" \in trouble' /\ ~InDict(mine[u])')
      OBVIOUS
    <3>1. u \in Threads \ {t} /\ pc[u] \in {"send", "receive"} /\ mine'[u] = mine[u]
      BY <2>2
    <3>2. InDict(mine[u])' <=> InDict(mine[u])
      BY <2>1, <3>1 DEF InDict
    <3>3. trouble \subseteq trouble'
      BY <2>1
    <3>4. CASE mine[u] \in open
      BY <2>3, <2>4, <3>1, <3>2, <3>4
    <3>5. CASE "closed" \in trouble /\ ~InDict(mine[u])
      BY <3>2, <3>3, <3>5
    <3> QED BY <3>1, <3>4, <3>5 DEF CloseInv
  <2>6. \A u \in Threads : ClosingAll(u)' => ClosingAll(u)
    BY <2>1, <2>2 DEF ClosingAll
  <2>7. Empty' <=> Empty
    BY <2>1 DEF Empty
  <2>8. \A u \in Threads : pc'[u] = "close" => ~InDict(mine[u])'
    BY <2>1, <2>2 DEF CloseInv, InDict
  <2>9. RacesBehindEscapes'
    BY <2>1 DEF CloseInv, RacesBehindEscapes
  <2>10. "rivals" \notin trouble' =>
           /\ \A u, v \in Threads : ClosingAll(u)' /\ ClosingAll(v)' => u = v
           /\ \A u \in Threads : pc'[u] = "pop" => ~Empty'
    <3>1. \A u \in Threads : pc'[u] = "pop" => pc[u] = "pop"
      BY <2>2
    <3> QED BY <2>1, <2>6, <2>7, <3>1 DEF CloseInv
  <2> QED BY <2>5, <2>8, <2>9, <2>10 DEF CloseInv
<1>9. ASSUME NEW t \in Threads, NEW i \in Ifnames, Execute(t, i) PROVE CloseInv'
  <2>1. /\ pc' = [pc EXCEPT ![t] = IF clients[i] = None THEN "create" ELSE "open"]
        /\ mine' = [mine EXCEPT ![t] = clients[i]] /\ UNCHANGED <<clients, open>>
        /\ trouble' = trouble \cup {kind \in {"shared", "raced"} :
                               IF kind = "shared" THEN UnderWay(i) ELSE BeingMade(i)}
    BY <1>9 DEF Execute
  <2>2. /\ told' = told
        /\ trouble \subseteq trouble' /\ trouble' \subseteq trouble \cup {"shared", "raced"}
        /\ pc'[t] \in {"create", "open"}
        /\ \A u \in Threads \ {t} : pc'[u] = pc[u] /\ mine'[u] = mine[u]
    BY <1>0, <1>9, <2>1 DEF TypeOK, Execute
  <2> QED BY <2>1, <2>2, CloseUntouched
<1>10. ASSUME NEW c \in Clients, NEW reply \in Replies, Serve(c, reply) PROVE CloseInv'
  BY <1>10 DEF Serve, CloseInv, InDict, ClosingAll, Empty, RacesBehindEscapes
<1>11. CASE UNCHANGED vars
  BY <1>11 DEF vars, CloseInv, InDict, ClosingAll, Empty, RacesBehindEscapes
<1> QED BY <1>1, <1>2, <1>3, <1>4, <1>5, <1>6, <1>7, <1>8, <1>9, <1>10, <1>11, StepKinds

LEMMA InitClose == Init => CloseInv
BY DEF Init, CloseInv, ClosingAll, RacesBehindEscapes

(* Of the exceptions that leave this module besides those of socket() and  *)
(* encode(), a socket closed under a call takes a close_all() that found   *)
(* another thread's client in its hands, and a KeyError of popitem()       *)
(* (compat.py:43) two threads in close_all() at once.                      *)
THEOREM CompatEscapes == Spec => []RacesBehindEscapes
<1>1. CloseInv => RacesBehindEscapes
  BY DEF CloseInv
<1> QED BY <1>1, InitClose, StepClose, TypeHolds, PTL DEF Spec

-----------------------------------------------------------------------------
(* Verdicts *)

(* The numbers of calls: those under way differ, and from those that have  *)
(* ended; a command that is queued is of a call that waits at that client, *)
(* or of none any more; one not sent yet has no verdict.                   *)
Numbers ==
  /\ Len(verdicts) = issued
  /\ \A t \in Threads : Active(t) => call[t].no \in 1 .. issued
  /\ \A t \in Threads : /\ told[t].no \in 0 .. issued
                        /\ told[t].result # "nothing" => told[t].no # 0
  /\ \A c \in Clients, n \in Nat : n \in Elements(queue[c]) => n \in 1 .. issued
  /\ \A t, u \in Threads : Active(t) /\ Active(u) /\ call[t].no = call[u].no => t = u
  /\ \A t, u \in Threads : Active(t) => told[u].no # call[t].no
  /\ \A t \in Threads, c \in Clients : told[t].no \notin Elements(queue[c])
  /\ \A t \in Threads, c \in Clients :
        Active(t) /\ call[t].no \in Elements(queue[c]) => pc[t] = "receive" /\ mine[t] = c
  /\ \A t \in Threads : Active(t) /\ pc[t] # "receive" => verdicts[call[t].no] = "unserved"

Idle(c) == queue[c] = << >> /\ rx[c] = << >>

(* In no call's hands. *)
Unheld(c) == \A t \in Threads : ~(Calling(t) /\ mine[t] = c)

(* The command waits at the daemon, or it is served and its reply waits at *)
(* the client, or has gone with the socket.                                *)
Waits(t) ==
  LET c == mine[t]
      n == call[t].no
  IN  \/ queue[c] = <<n>> /\ rx[c] = << >>
      \/ queue[c] = << >> /\ rx[c] \in {<< >>, <<[to |-> n, reply |-> verdicts[n]]>>}

(* Each client has one call at most, and nothing is under way on a client  *)
(* but that call's command.                                                *)
Apart ==
  /\ \A t, u \in Threads : Calling(t) /\ Calling(u) /\ mine[t] = mine[u] => t = u
  /\ \A c \in Clients : Unheld(c) => Idle(c)
  /\ \A t \in Threads : pc[t] \in {"open", "send"} => Idle(mine[t])
  /\ \A t \in Threads : pc[t] = "receive" => Waits(t)

Truthful(t) ==
  told[t].result \notin Escapes \cup {"nothing"} =>
    /\ told[t].result = "false" <=> verdicts[told[t].no] \in {"unserved", "refusal"}
    /\ told[t].result = "output" <=> verdicts[told[t].no] = "data"

Body == Numbers /\ Apart /\ \A t \in Threads : Truthful(t)

Settled == trouble \cap {"shared", "abandoned"} = {}
VerdictInv == Settled => Body

(* What a call holds exists. *)
LEMMA CallHolds ==
  ASSUME TypeInv, NEW t \in Threads, Calling(t)
  PROVE  mine[t] \in Clients /\ call[t].no \in Nat
BY NoneIsNoClient DEF TypeInv, TypeOK, HoldInv

(* Steps that send, serve and tell nothing, and make no client free. *)
LEMMA BodyKept ==
  ASSUME TypeInv, Body, UNCHANGED <<queue, call, issued, told, verdicts>>,
         \A c \in Clients : rx'[c] = rx[c] \/ rx'[c] = << >>,
         \A t \in Threads : Active(t)' =>
            /\ Active(t) /\ (pc'[t] = "receive" <=> pc[t] = "receive")
            /\ Calling(t)' => Calling(t) /\ mine'[t] = mine[t],
         \A c \in Clients : Unheld(c)' => Unheld(c)
  PROVE  Body'
<1>1. Numbers'
  <2>1. \A t \in Threads : Active(t)' =>
          /\ Active(t) /\ (pc'[t] = "receive" <=> pc[t] = "receive")
          /\ pc'[t] = "receive" => mine'[t] = mine[t]
    BY DEF Calling
  <2>2. \A t, u \in Threads : Active(t)' /\ Active(u)' /\ call'[t].no = call'[u].no => t = u
    BY <2>1 DEF Body, Numbers
  <2>3. \A t, u \in Threads : Active(t)' => told'[u].no # call'[t].no
    BY <2>1 DEF Body, Numbers
  <2>4. \A t \in Threads, c \in Clients :
          Active(t)' /\ call'[t].no \in Elements(queue'[c]) => pc'[t] = "receive" /\ mine'[t] = c
    BY <2>1 DEF Body, Numbers
  <2>5. \A t \in Threads : Active(t)' /\ pc'[t] # "receive" => verdicts'[call'[t].no] = "unserved"
    BY <2>1 DEF Body, Numbers
  <2>6. \A t \in Threads : Active(t)' => call'[t].no \in 1 .. issued'
    BY <2>1 DEF Body, Numbers
  <2>7. /\ Len(verdicts') = issued'
        /\ \A t \in Threads : /\ told'[t].no \in 0 .. issued'
                              /\ told'[t].result # "nothing" => told'[t].no # 0
        /\ \A c \in Clients, n \in Nat : n \in Elements(queue'[c]) => n \in 1 .. issued'
        /\ \A t \in Threads, c \in Clients : told'[t].no \notin Elements(queue'[c])
    BY DEF Body, Numbers
  <2> QED BY <2>2, <2>3, <2>4, <2>5, <2>6, <2>7 DEF Numbers
<1>2. \A t \in Threads : Calling(t)' => Calling(t) /\ mine'[t] = mine[t] /\ mine[t] \in Clients
  BY CallHolds DEF Active
<1>3. \A t \in Threads : pc'[t] \in {"open", "send"} => pc[t] \in {"open", "send"}
  BY DEF Active, Calling
<1>4. \A t \in Threads : pc'[t] = "receive" => pc[t] = "receive"
  BY DEF Active, Calling
<1>5. Apart'
  <2>1. \A t, u \in Threads : Calling(t)' /\ Calling(u)' /\ mine'[t] = mine'[u] => t = u
    BY <1>2 DEF Body, Apart
  <2>2. \A c \in Clients : Unheld(c)' => Idle(c)'
    BY DEF Body, Apart, Idle
  <2>3. ASSUME NEW t \in Threads, pc'[t] \in {"open", "send"} PROVE Idle(mine[t])'
    <3>1. mine'[t] = mine[t] /\ mine[t] \in Clients
      BY <1>2, <2>3 DEF Calling
    <3>2. Idle(mine[t])
      BY <1>3, <2>3 DEF Body, Apart
    <3> QED BY <3>1, <3>2 DEF Idle
  <2>4. ASSUME NEW t \in Threads, pc'[t] = "receive" PROVE Waits(t)'
    <3>1. mine'[t] = mine[t] /\ mine[t] \in Clients
      BY <1>2, <2>4 DEF Calling
    <3>2. Waits(t)
      BY <1>4, <2>4 DEF Body, Apart
    <3> QED BY <3>1, <3>2 DEF Waits
  <2> QED BY <2>1, <2>2, <2>3, <2>4 DEF Apart
<1>6. \A t \in Threads : Truthful(t)'
  BY DEF Body, Truthful
<1> QED BY <1>1, <1>5, <1>6 DEF Body

(* A thread finds a client in the dictionary, or none. *)
LEMMA ExecuteBody ==
  ASSUME TypeInv, Body, NEW t \in Threads, NEW i \in Ifnames, Execute(t, i), Settled'
  PROVE  Body'
<1>0. TypeOK
  BY DEF TypeInv
<1>1. /\ pc[t] = "idle" /\ issued' = issued + 1 /\ verdicts' = Append(verdicts, "unserved")
      /\ call' = [call EXCEPT ![t] = [no |-> issued + 1, ifname |-> i]]
      /\ mine' = [mine EXCEPT ![t] = clients[i]]
      /\ pc' = [pc EXCEPT ![t] = IF clients[i] = None THEN "create" ELSE "open"]
      /\ ~UnderWay(i) /\ UNCHANGED <<clients, made, open, queue, rx, told>>
  BY DEF Execute, Settled
<1>2. /\ call'[t].no = issued + 1 /\ mine'[t] = clients[i]
      /\ pc'[t] = IF clients[i] = None THEN "create" ELSE "open"
      /\ \A u \in Threads \ {t} : call'[u] = call[u] /\ mine'[u] = mine[u] /\ pc'[u] = pc[u]
  BY <1>0, <1>1 DEF TypeOK
<1>3. /\ issued \in Nat /\ Len(verdicts) = issued /\ Len(verdicts') = issued + 1
      /\ verdicts'[issued + 1] = "unserved"
      /\ \A n \in 1 .. issued : verdicts'[n] = verdicts[n]
  BY <1>0, <1>1 DEF TypeOK, Body, Numbers
<1>4. /\ \A u \in Threads \ {t} : (Active(u)' <=> Active(u)) /\ (Calling(u)' <=> Calling(u))
      /\ Active(t)' /\ pc'[t] # "receive" /\ (Calling(t)' <=> clients[i] # None)
      /\ ~Calling(t)
  BY <1>1, <1>2 DEF Active, Calling
<1>5. \A c \in Clients : \A n \in Elements(queue[c]) : n \in 1 .. issued
  <2>1. \A c \in Clients : \A n \in Elements(queue[c]) : n \in Nat
    BY <1>0 DEF TypeOK, Elements
  <2> QED BY <2>1 DEF Body, Numbers
<1>6. Numbers'
  <2>1. \A u \in Threads : Active(u) => call[u].no \in 1 .. issued
    BY DEF Body, Numbers
  <2>2. \A u \in Threads : told[u].no \in 0 .. issued
    BY DEF Body, Numbers
  <2>3. \A u, v \in Threads : Active(u)' /\ Active(v)' /\ call'[u].no = call'[v].no => u = v
    BY <1>2, <1>3, <1>4, <2>1 DEF Body, Numbers
  <2>4. \A u, v \in Threads : Active(u)' => told'[v].no # call'[u].no
    BY <1>1, <1>2, <1>3, <1>4, <2>2 DEF Body, Numbers
  <2>5. \A u \in Threads, c \in Clients :
          Active(u)' /\ call'[u].no \in Elements(queue'[c]) => pc'[u] = "receive" /\ mine'[u] = c
    BY <1>1, <1>2, <1>3, <1>4, <1>5 DEF Body, Numbers
  <2>6. \A u \in Threads : Active(u)' /\ pc'[u] # "receive" => verdicts'[call'[u].no] = "unserved"
    BY <1>2, <1>3, <1>4, <2>1 DEF Body, Numbers
  <2>7. \A u \in Threads : Active(u)' => call'[u].no \in 1 .. issued'
    BY <1>1, <1>2, <1>3, <1>4, <2>1
  <2>8. \A u \in Threads : /\ told'[u].no \in 0 .. issued'
                           /\ told'[u].result # "nothing" => told'[u].no # 0
    BY <1>1, <1>3, <2>2 DEF Body, Numbers
  <2>9. \A c \in Clients, n \in Nat : n \in Elements(queue'[c]) => n \in 1 .. issued'
    BY <1>1, <1>3, <1>5
  <2>10. \A u \in Threads, c \in Clients : told'[u].no \notin Elements(queue'[c])
    BY <1>1 DEF Body, Numbers
  <2>11. Len(verdicts') = issued'
    BY <1>1, <1>3
  <2> QED BY <2>3, <2>4, <2>5, <2>6, <2>7, <2>8, <2>9, <2>10, <2>11 DEF Numbers
<1>7. Apart'
  <2>1. clients[i] # None => \A u \in Threads : mine[u] # clients[i]
    BY <1>1 DEF UnderWay
  <2>2. \A u, v \in Threads : Calling(u)' /\ Calling(v)' /\ mine'[u] = mine'[v] => u = v
    BY <1>2, <1>4, <2>1 DEF Body, Apart
  <2>3. clients[i] # None => clients[i] \in Clients /\ Unheld(clients[i])
    BY <1>0, <2>1 DEF TypeOK, Unheld
  <2>4. \A c \in Clients : Unheld(c)' => Unheld(c)
    BY <1>1, <1>2, <1>4 DEF Unheld
  <2>5. \A c \in Clients : Unheld(c)' => Idle(c)'
    BY <1>1, <2>4 DEF Body, Apart, Idle
  <2>6. ASSUME NEW u \in Threads, pc'[u] \in {"open", "send"} PROVE Idle(mine[u])'
    <3>1. CASE u = t
      BY <1>1, <1>2, <2>3, <2>6, <3>1 DEF Body, Apart, Idle
    <3>2. CASE u # t
      BY <1>1, <1>2, <2>6, <3>2 DEF Body, Apart, Idle
    <3> QED BY <3>1, <3>2
  <2>7. ASSUME NEW u \in Threads, pc'[u] = "receive" PROVE Waits(u)'
    <3>1. u # t /\ pc[u] = "receive"
      BY <1>2, <1>4, <2>7
    <3>2. Waits(u) /\ call[u].no \in 1 .. issued
      BY <3>1 DEF Body, Apart, Numbers, Active, Calling
    <3> QED BY <1>1, <1>2, <1>3, <3>1, <3>2 DEF Waits
  <2> QED BY <2>2, <2>5, <2>6, <2>7 DEF Apart
<1>8. \A u \in Threads : Truthful(u)'
  <2>1. \A u \in Threads : told[u].result # "nothing" => told[u].no \in 1 .. issued
    BY <1>3 DEF Body, Numbers
  <2> QED BY <1>1, <1>3, <2>1 DEF Body, Truthful
<1> QED BY <1>6, <1>7, <1>8 DEF Body

(* A thread makes a client: one nobody has, so that there is nothing under *)
(* way on it, though one before it may have had its address.               *)
LEMMA CreateBody ==
  ASSUME TypeInv, Body, NEW t \in Threads, Create(t)
  PROVE  Body'
<1>0. TypeOK
  BY DEF TypeInv
<1>a. PICK new \in Clients : Nobodys(new) /\ mine' = [mine EXCEPT ![t] = new]
  BY <1>0, MadeAnother
<1>1. /\ mine' = [mine EXCEPT ![t] = new] /\ pc' = [pc EXCEPT ![t] = "open"] /\ pc[t] = "create"
      /\ \A c \in Clients : rx'[c] = rx[c] \/ rx'[c] = << >>
      /\ UNCHANGED <<queue, call, issued, told, verdicts>>
  BY <1>0, <1>a, MadeAnother
<1>2. /\ mine'[t] = new /\ pc'[t] = "open"
      /\ \A u \in Threads \ {t} : mine'[u] = mine[u] /\ pc'[u] = pc[u]
  BY <1>0, <1>1 DEF TypeOK
<1>3. /\ \A u \in Threads : Active(u)' <=> Active(u)
      /\ \A u \in Threads \ {t} : (Calling(u)' <=> Calling(u)) /\ (Calling(u) => mine[u] # new)
      /\ Calling(t)' /\ ~Calling(t)
      /\ \A u \in Threads : pc'[u] = "receive" => u # t
  BY <1>a, <1>1, <1>2 DEF Active, Calling, Nobodys
<1>4. Idle(new)
  BY <1>a DEF Body, Apart, Unheld, Nobodys
<1>5. Numbers'
  <2>1. \A u \in Threads, c \in Clients :
          Active(u)' /\ call'[u].no \in Elements(queue'[c]) => pc'[u] = "receive" /\ mine'[u] = c
    BY <1>1, <1>2, <1>3 DEF Body, Numbers
  <2>2. \A u \in Threads : Active(u)' /\ pc'[u] # "receive" => verdicts'[call'[u].no] = "unserved"
    BY <1>1, <1>2, <1>3 DEF Body, Numbers
  <2>3. /\ \A u, v \in Threads : Active(u)' /\ Active(v)' /\ call'[u].no = call'[v].no => u = v
        /\ \A u, v \in Threads : Active(u)' => told'[v].no # call'[u].no
        /\ \A u \in Threads : Active(u)' => call'[u].no \in 1 .. issued'
    BY <1>1, <1>3 DEF Body, Numbers
  <2>4. /\ Len(verdicts') = issued'
        /\ \A u \in Threads : /\ told'[u].no \in 0 .. issued'
                              /\ told'[u].result # "nothing" => told'[u].no # 0
        /\ \A c \in Clients, n \in Nat : n \in Elements(queue'[c]) => n \in 1 .. issued'
        /\ \A u \in Threads, c \in Clients : told'[u].no \notin Elements(queue'[c])
    BY <1>1 DEF Body, Numbers
  <2> QED BY <2>1, <2>2, <2>3, <2>4 DEF Numbers
<1>6. Apart'
  <2>1. \A u, v \in Threads : Calling(u)' /\ Calling(v)' /\ mine'[u] = mine'[v] => u = v
    BY <1>2, <1>3 DEF Body, Apart
  <2>2. \A c \in Clients : Unheld(c)' => Unheld(c)
    <3> SUFFICES ASSUME NEW c \in Clients, Unheld(c)' PROVE Unheld(c)
      OBVIOUS
    <3>2. \A u \in Threads : ~(Calling(u) /\ mine[u] = c)
      BY <1>2, <1>3 DEF Unheld
    <3> QED BY <3>2 DEF Unheld
  <2>3. \A c \in Clients : Unheld(c)' => Idle(c)'
    BY <1>1, <2>2 DEF Body, Apart, Idle
  <2>4. ASSUME NEW u \in Threads, pc'[u] \in {"open", "send"} PROVE Idle(mine[u])'
    <3>1. CASE u = t
      BY <1>1, <1>2, <1>4, <3>1 DEF Idle
    <3>2. CASE u # t
      BY <1>1, <1>2, <2>4, <3>2, CallHolds DEF Body, Apart, Idle, Calling
    <3> QED BY <3>1, <3>2
  <2>5. ASSUME NEW u \in Threads, pc'[u] = "receive" PROVE Waits(u)'
    <3>1. u # t /\ pc[u] = "receive" /\ mine'[u] = mine[u] /\ mine[u] \in Clients
      BY <1>2, <1>3, <2>5, CallHolds DEF Calling
    <3>2. Waits(u)
      BY <3>1 DEF Body, Apart
    <3> QED BY <1>1, <3>1, <3>2 DEF Waits
  <2> QED BY <2>1, <2>3, <2>4, <2>5 DEF Apart
<1>7. \A u \in Threads : Truthful(u)'
  BY <1>1 DEF Body, Truthful
<1> QED BY <1>5, <1>6, <1>7 DEF Body

(* A thread sends: its command is all there is on its client. *)
LEMMA SendBody ==
  ASSUME TypeInv, Body, NEW t \in Threads, Send(t)
  PROVE  Body'
<1> DEFINE c == mine[t]
           n == call[t].no
<1>0. TypeOK
  BY DEF TypeInv
<1>1. /\ pc[t] = "send" /\ queue' = [queue EXCEPT ![c] = Append(queue[c], n)]
      /\ pc' = [pc EXCEPT ![t] = "receive"]
      /\ UNCHANGED <<clients, made, rx, mine, call, issued, told, verdicts>>
  BY DEF Send
<1>2. c \in Clients /\ Idle(c) /\ n \in 1 .. issued /\ Active(t) /\ Calling(t)
  BY <1>1, CallHolds DEF Body, Apart, Numbers, Active, Calling
<1>3. queue[c] = << >> /\ rx[c] = << >>
  BY <1>2 DEF Idle
<1>4. queue'[c] = <<n>> /\ \A d \in Clients \ {c} : queue'[d] = queue[d]
  BY <1>0, <1>1, <1>2, <1>3 DEF TypeOK
<1>5. /\ pc'[t] = "receive" /\ \A u \in Threads \ {t} : pc'[u] = pc[u]
      /\ \A u \in Threads : (Active(u)' <=> Active(u)) /\ (Calling(u)' <=> Calling(u))
  BY <1>0, <1>1, <1>2 DEF TypeOK, Active, Calling
<1>6. Elements(queue'[c]) = {n} /\ \A d \in Clients \ {c} : Elements(queue'[d]) = Elements(queue[d])
  BY <1>4, ElementsOfOne
<1>7. Numbers'
  <2>1. \A u \in Threads, d \in Clients :
          Active(u)' /\ call'[u].no \in Elements(queue'[d]) => pc'[u] = "receive" /\ mine'[u] = d
    <3> SUFFICES ASSUME NEW u \in Threads, NEW d \in Clients, Active(u),
                        call[u].no \in Elements(queue'[d])
                 PROVE  pc'[u] = "receive" /\ mine[u] = d
      BY <1>1, <1>5
    <3>1. CASE d = c
      BY <1>2, <1>5, <1>6, <3>1 DEF Body, Numbers
    <3>2. CASE d # c
      BY <1>5, <1>6, <3>2 DEF Body, Numbers
    <3> QED BY <3>1, <3>2
  <2>2. \A u \in Threads : Active(u)' /\ pc'[u] # "receive" => verdicts'[call'[u].no] = "unserved"
    BY <1>1, <1>5 DEF Body, Numbers
  <2>3. /\ \A u, v \in Threads : Active(u)' /\ Active(v)' /\ call'[u].no = call'[v].no => u = v
        /\ \A u, v \in Threads : Active(u)' => told'[v].no # call'[u].no
        /\ \A u \in Threads : Active(u)' => call'[u].no \in 1 .. issued'
    BY <1>1, <1>5 DEF Body, Numbers
  <2>4. /\ Len(verdicts') = issued'
        /\ \A u \in Threads : /\ told'[u].no \in 0 .. issued'
                              /\ told'[u].result # "nothing" => told'[u].no # 0
    BY <1>1 DEF Body, Numbers
  <2>5. ASSUME NEW d \in Clients, NEW k \in Nat, k \in Elements(queue'[d]) PROVE k \in 1 .. issued'
    <3>1. CASE d = c BY <1>1, <1>2, <1>6, <2>5, <3>1
    <3>2. CASE d # c BY <1>1, <1>6, <2>5, <3>2 DEF Body, Numbers
    <3> QED BY <3>1, <3>2
  <2>6. ASSUME NEW u \in Threads, NEW d \in Clients PROVE told'[u].no \notin Elements(queue'[d])
    <3>1. told[u].no # n
      BY <1>2 DEF Body, Numbers
    <3>2. CASE d = c BY <1>1, <1>6, <3>1, <3>2
    <3>3. CASE d # c BY <1>1, <1>6, <3>3 DEF Body, Numbers
    <3> QED BY <3>2, <3>3
  <2> QED BY <2>1, <2>2, <2>3, <2>4, <2>5, <2>6 DEF Numbers
<1>8. Apart'
  <2>1. \A u \in Threads \ {t} : Calling(u) => mine[u] # c /\ mine[u] \in Clients
    BY <1>2, CallHolds DEF Body, Apart
  <2>2. \A u, v \in Threads : Calling(u)' /\ Calling(v)' /\ mine'[u] = mine'[v] => u = v
    BY <1>1, <1>5 DEF Body, Apart
  <2>3. \A d \in Clients : Unheld(d)' => Unheld(d) /\ d # c
    BY <1>1, <1>2, <1>5 DEF Unheld
  <2>4. \A d \in Clients : Unheld(d)' => Idle(d)'
    BY <1>1, <1>4, <2>3 DEF Body, Apart, Idle
  <2>5. ASSUME NEW u \in Threads, pc'[u] \in {"open", "send"} PROVE Idle(mine[u])'
    <3>1. u # t /\ pc[u] \in {"open", "send"} /\ mine[u] # c /\ mine[u] \in Clients
      BY <1>5, <2>1, <2>5 DEF Calling
    <3> QED BY <1>1, <1>4, <3>1 DEF Body, Apart, Idle
  <2>6. ASSUME NEW u \in Threads, pc'[u] = "receive" PROVE Waits(u)'
    <3>1. CASE u = t
      BY <1>1, <1>3, <1>4, <3>1 DEF Waits
    <3>2. CASE u # t
      <4>1. pc[u] = "receive" /\ mine[u] # c /\ mine[u] \in Clients
        BY <1>5, <2>1, <2>6, <3>2 DEF Calling
      <4>2. Waits(u)
        BY <4>1 DEF Body, Apart
      <4> QED BY <1>1, <1>4, <4>1, <4>2 DEF Waits
    <3> QED BY <3>1, <3>2
  <2> QED BY <2>2, <2>4, <2>5, <2>6 DEF Apart
<1>9. \A u \in Threads : Truthful(u)'
  BY <1>1 DEF Body, Truthful
<1> QED BY <1>7, <1>8, <1>9 DEF Body

(* A call ends with a word to its caller that is true, or an exception,    *)
(* and leaves nothing of its own behind.                                   *)
LEMMA ToldBody ==
  ASSUME TypeInv, Body, NEW t \in Threads, NEW result \in Results, Calling(t),
         NEW c \in Clients, c = mine[t], queue[c] = << >>, rx'[c] = << >>,
         pc' = [pc EXCEPT ![t] = "idle"], mine' = [mine EXCEPT ![t] = None],
         told' = [told EXCEPT ![t] = [no |-> call[t].no, result |-> result]],
         UNCHANGED <<clients, queue, call, issued, verdicts>>,
         \A d \in Clients : rx'[d] = rx[d] \/ rx'[d] = << >>,
         \/ result \in Escapes
         \/ /\ result = "false" <=> verdicts[call[t].no] \in {"unserved", "refusal"}
            /\ result = "output" <=> verdicts[call[t].no] = "data"
  PROVE  Body'
<1> DEFINE n == call[t].no
<1>0. TypeOK
  BY DEF TypeInv
<1>1. n \in 1 .. issued /\ Active(t) /\ Idle(c)'
  BY DEF Idle, Body, Numbers, Active
<1>2. /\ pc'[t] = "idle" /\ told'[t].no = n /\ told'[t].result = result
      /\ \A u \in Threads \ {t} : pc'[u] = pc[u] /\ mine'[u] = mine[u] /\ told'[u] = told[u]
  BY <1>0 DEF TypeOK
<1>3. /\ ~Active(t)' /\ ~Calling(t)'
      /\ \A u \in Threads \ {t} : (Active(u)' <=> Active(u)) /\ (Calling(u)' <=> Calling(u))
  BY <1>2 DEF Active, Calling
<1>4. \A d \in Clients : n \notin Elements(queue[d])
  BY <1>1, ElementsOfOne DEF Body, Numbers
<1>5. Numbers'
  <2>1. \A u \in Threads, d \in Clients :
          Active(u)' /\ call'[u].no \in Elements(queue'[d]) => pc'[u] = "receive" /\ mine'[u] = d
    BY <1>2, <1>3 DEF Body, Numbers
  <2>2. \A u \in Threads : Active(u)' /\ pc'[u] # "receive" => verdicts'[call'[u].no] = "unserved"
    BY <1>2, <1>3 DEF Body, Numbers
  <2>3. /\ \A u, v \in Threads : Active(u)' /\ Active(v)' /\ call'[u].no = call'[v].no => u = v
        /\ \A u, v \in Threads : Active(u)' => told'[v].no # call'[u].no
        /\ \A u \in Threads : Active(u)' => call'[u].no \in 1 .. issued'
    BY <1>1, <1>2, <1>3 DEF Body, Numbers
  <2>4. /\ Len(verdicts') = issued'
        /\ \A u \in Threads : /\ told'[u].no \in 0 .. issued'
                              /\ told'[u].result # "nothing" => told'[u].no # 0
    BY <1>0, <1>1, <1>2 DEF Body, Numbers, TypeOK
  <2>5. \A d \in Clients, k \in Nat : k \in Elements(queue'[d]) => k \in 1 .. issued'
    BY DEF Body, Numbers
  <2>6. \A u \in Threads, d \in Clients : told'[u].no \notin Elements(queue'[d])
    BY <1>2, <1>4 DEF Body, Numbers
  <2> QED BY <2>1, <2>2, <2>3, <2>4, <2>5, <2>6 DEF Numbers
<1>6. Apart'
  <2>1. \A u \in Threads \ {t} : Calling(u) => mine[u] # c /\ mine[u] \in Clients
    BY CallHolds DEF Body, Apart
  <2>2. \A u, v \in Threads : Calling(u)' /\ Calling(v)' /\ mine'[u] = mine'[v] => u = v
    BY <1>2, <1>3 DEF Body, Apart
  <2>3. \A d \in Clients \ {c} : Unheld(d)' => Unheld(d)
    BY <1>2, <1>3 DEF Unheld
  <2>4. \A d \in Clients : Unheld(d)' => Idle(d)'
    <3> SUFFICES ASSUME NEW d \in Clients, d # c, Unheld(d)' PROVE Idle(d)'
      BY <1>1
    <3>1. Idle(d)
      BY <2>3 DEF Body, Apart
    <3> QED BY <3>1 DEF Idle
  <2>5. ASSUME NEW u \in Threads, pc'[u] \in {"open", "send"} PROVE Idle(mine[u])'
    <3>1. u # t /\ pc[u] \in {"open", "send"} /\ mine[u] # c /\ mine[u] \in Clients /\ mine'[u] = mine[u]
      BY <1>2, <2>1, <2>5 DEF Calling
    <3>2. Idle(mine[u])
      BY <3>1 DEF Body, Apart
    <3> QED BY <3>1, <3>2 DEF Idle
  <2>6. ASSUME NEW u \in Threads, pc'[u] = "receive" PROVE Waits(u)'
    <3>1. u # t /\ pc[u] = "receive" /\ mine[u] # c /\ mine[u] \in Clients /\ mine'[u] = mine[u]
      BY <1>2, <2>1, <2>6 DEF Calling
    <3>2. Waits(u)
      BY <3>1 DEF Body, Apart
    <3> QED BY <3>1, <3>2 DEF Waits
  <2> QED BY <2>2, <2>4, <2>5, <2>6 DEF Apart
<1>7. ASSUME NEW u \in Threads PROVE Truthful(u)'
  <2>1. CASE u = t BY <1>2, <2>1 DEF Truthful
  <2>2. CASE u # t BY <1>2, <2>2 DEF Body, Truthful
  <2> QED BY <2>1, <2>2
<1> QED BY <1>5, <1>6, <1>7 DEF Body

(* The seven ways a call ends. *)
LEMMA LeavingBody ==
  ASSUME TypeInv, Body, NEW t \in Threads, Leaving(t), Settled'
  PROVE  Body'
<1>0. TypeOK
  BY DEF TypeInv
<1>1. /\ Calling(t) /\ pc' = [pc EXCEPT ![t] = "idle"] /\ mine' = [mine EXCEPT ![t] = None]
      /\ UNCHANGED <<clients, made, queue, call, issued, verdicts>>
      /\ \A c \in Clients :
               \/ rx'[c] = rx[c] \/ rx'[c] = << >>
               \/ Receive(t) /\ c = mine[t] /\ rx'[c] = Tail(rx[c])
  BY <1>0, LeavingSays
<1>2. mine[t] \in Clients /\ Active(t)
  BY <1>1, CallHolds DEF Active
<1>3. CASE OpenFails(t) \/ SendFails(t) \/ OpenEscapes(t) \/ SendEscapes(t)
  <2>1. /\ pc[t] \in {"open", "send"}
        /\ \E result \in {"false"} \cup Escapes :
              told' = [told EXCEPT ![t] = [no |-> call[t].no, result |-> result]]
    BY <1>3 DEF OpenFails, SendFails, OpenEscapes, SendEscapes, Return, Escapes
  <2>2. Idle(mine[t]) /\ verdicts[call[t].no] = "unserved"
    BY <1>2, <2>1 DEF Body, Apart, Numbers
  <2>3. \A c \in Clients : rx'[c] = rx[c] \/ rx'[c] = << >>
    BY <1>1, <2>1 DEF Receive
  <2>4. queue[mine[t]] = << >> /\ rx'[mine[t]] = << >>
    BY <1>2, <2>2, <2>3 DEF Idle
  <2>5. PICK result \in {"false"} \cup Escapes :
           told' = [told EXCEPT ![t] = [no |-> call[t].no, result |-> result]]
    BY <2>1
  <2>6. /\ result \in Results
        /\ \/ result \in Escapes
           \/ /\ result = "false" <=> verdicts[call[t].no] \in {"unserved", "refusal"}
              /\ result = "output" <=> verdicts[call[t].no] = "data"
    BY <2>2 DEF Results, Escapes
  <2> QED BY <1>1, <1>2, <2>2, <2>3, <2>4, <2>5, <2>6, ToldBody
<1>4. CASE Receive(t)
  <2> DEFINE c == mine[t]
             n == call[t].no
             v == verdicts[n]
  <2>1. /\ pc[t] = "receive" /\ rx[c] # << >>
        /\ told' = [told EXCEPT ![t] = [no |-> n, result |-> Verdict(Head(rx[c]).reply)]]
    BY <1>4 DEF Receive
  <2>2. Waits(t)
    BY <2>1 DEF Body, Apart
  <2>3. queue[c] = << >> /\ rx[c] = <<[to |-> n, reply |-> v]>>
    BY <2>1, <2>2 DEF Waits
  <2>4. Head(rx[c]).reply = v /\ Tail(rx[c]) = << >>
    BY <2>3
  <2>5. v \in Replies
    <3>1. rx[c] \in Seq([to : Nat, reply : Replies])
      BY <1>0, <1>2 DEF TypeOK
    <3>2. Head(rx[c]) \in [to : Nat, reply : Replies]
      BY <2>1, <3>1, ElementsOfTail
    <3> QED BY <2>4, <3>2
  <2>6. /\ Verdict(v) \in Results
        /\ Verdict(v) = "false" <=> v \in {"unserved", "refusal"}
        /\ Verdict(v) = "output" <=> v = "data"
    BY <2>5 DEF Verdict, Results, Replies
  <2>7. rx'[c] = << >>
    <3>1. pc'[t] = "idle" /\ open' = open \cap Held(mine', clients)
      BY <1>0, <1>1, <1>4, LeavingSays DEF TypeOK
    <3>2. rx' = [d \in Clients |-> IF d \in open' THEN [rx EXCEPT ![c] = Tail(@)][d] ELSE << >>]
      BY <1>4 DEF Receive, Rest
    <3> QED BY <1>0, <1>2, <2>4, <3>2 DEF TypeOK
  <2>8. \A d \in Clients : rx'[d] = rx[d] \/ rx'[d] = << >>
    BY <1>1, <2>7
  <2> QED BY <1>1, <1>2, <2>1, <2>3, <2>4, <2>6, <2>7, <2>8, ToldBody
<1>5. CASE ReceiveFails(t) \/ ReceiveEscapes(t)
  BY <1>5 DEF ReceiveFails, ReceiveEscapes, Note, Settled
<1> QED BY <1>3, <1>4, <1>5 DEF Leaving

(* The daemon serves a command: it is of the call that waits at that       *)
(* client, or of one that has left; the reply is that call's.              *)
LEMMA ServeBody ==
  ASSUME TypeInv, Body, NEW c \in Clients, NEW reply \in Replies, Serve(c, reply)
  PROVE  Body'
<1> DEFINE n == Head(queue[c])
           answer == [to |-> n, reply |-> reply]
<1>0. TypeOK
  BY DEF TypeInv
<1>1. /\ queue[c] # << >> /\ queue' = [queue EXCEPT ![c] = Tail(queue[c])]
      /\ verdicts' = [verdicts EXCEPT ![n] = reply]
      /\ rx' = [rx EXCEPT ![c] = Append(rx[c], answer)] \/ rx' = rx
      /\ UNCHANGED <<clients, made, open, pc, mine, call, issued, told, trouble>>
  BY DEF Serve
<1>2. /\ n \in Nat /\ n \in Elements(queue[c])
      /\ Elements(Tail(queue[c])) \subseteq Elements(queue[c])
  <2>1. queue[c] \in Seq(Nat)
    BY <1>0 DEF TypeOK
  <2> QED BY <1>1, <2>1, ElementsOfTail
<1> HIDE DEF n
<1>3. n \in 1 .. issued
  BY <1>2 DEF Body, Numbers
<1>4. /\ Len(verdicts') = Len(verdicts) /\ verdicts'[n] = reply
      /\ \A k \in 1 .. issued : k # n => verdicts'[k] = verdicts[k]
  <2>1. verdicts \in Seq(Replies \cup {"unserved"}) /\ Len(verdicts) = issued
    BY <1>0 DEF TypeOK, Body, Numbers
  <2>2. DOMAIN verdicts = 1 .. issued
    BY <2>1
  <2>3. verdicts' \in Seq(Replies \cup {"unserved"}) /\ DOMAIN verdicts' = DOMAIN verdicts
    BY <1>1, <2>1, WrittenSeq
  <2>4. Len(verdicts') = Len(verdicts)
    BY <2>1, <2>2, <2>3
  <2> QED BY <1>1, <1>3, <2>2, <2>4
<1>5. /\ queue'[c] = Tail(queue[c])
      /\ \A d \in Clients \ {c} : queue'[d] = queue[d] /\ rx'[d] = rx[d]
  BY <1>0, <1>1 DEF TypeOK
<1>6. \A d \in Clients : Elements(queue'[d]) \subseteq Elements(queue[d])
  BY <1>2, <1>5
<1>7. \A t \in Threads : (Active(t)' <=> Active(t)) /\ (Calling(t)' <=> Calling(t))
  BY <1>1 DEF Active, Calling
<1>8. \A t \in Threads : Active(t) /\ call[t].no = n => pc[t] = "receive" /\ mine[t] = c
  BY <1>2 DEF Body, Numbers
<1>9. \A t \in Threads : told[t].no # n
  BY <1>2 DEF Body, Numbers
<1>10. Numbers'
  <2>1. \A t \in Threads : Active(t)' => call'[t].no \in 1 .. issued'
    BY <1>1, <1>7 DEF Body, Numbers
  <2>2. \A t \in Threads : Active(t)' /\ pc'[t] # "receive" => verdicts'[call'[t].no] = "unserved"
    <3> SUFFICES ASSUME NEW t \in Threads, Active(t), pc[t] # "receive"
                 PROVE  verdicts'[call[t].no] = "unserved"
      BY <1>1, <1>7
    <3>1. call[t].no # n /\ call[t].no \in 1 .. issued /\ verdicts[call[t].no] = "unserved"
      BY <1>8 DEF Body, Numbers
    <3> QED BY <1>4, <3>1
  <2>3. \A t \in Threads, d \in Clients :
          Active(t)' /\ call'[t].no \in Elements(queue'[d]) => pc'[t] = "receive" /\ mine'[t] = d
    BY <1>1, <1>6, <1>7 DEF Body, Numbers
  <2>4. /\ \A t, u \in Threads : Active(t)' /\ Active(u)' /\ call'[t].no = call'[u].no => t = u
        /\ \A t, u \in Threads : Active(t)' => told'[u].no # call'[t].no
    BY <1>1, <1>7 DEF Body, Numbers
  <2>5. /\ Len(verdicts') = issued'
        /\ \A t \in Threads : /\ told'[t].no \in 0 .. issued'
                              /\ told'[t].result # "nothing" => told'[t].no # 0
    BY <1>1, <1>4 DEF Body, Numbers
  <2>6. \A d \in Clients, k \in Nat : k \in Elements(queue'[d]) => k \in 1 .. issued'
    BY <1>1, <1>6 DEF Body, Numbers
  <2>7. \A t \in Threads, d \in Clients : told'[t].no \notin Elements(queue'[d])
    BY <1>1, <1>6 DEF Body, Numbers
  <2> QED BY <2>1, <2>2, <2>3, <2>4, <2>5, <2>6, <2>7 DEF Numbers
<1>11. Apart'
  <2>1. \A t, u \in Threads : Calling(t)' /\ Calling(u)' /\ mine'[t] = mine'[u] => t = u
    BY <1>1, <1>7 DEF Body, Apart
  <2>2. \A d \in Clients : Unheld(d)' => Unheld(d) /\ d # c
    <3>1. ~Idle(c)
      BY <1>1 DEF Idle
    <3>2. \A d \in Clients : Unheld(d)' => Unheld(d)
      BY <1>1, <1>7 DEF Unheld
    <3> QED BY <3>1, <3>2 DEF Body, Apart
  <2>3. \A d \in Clients : Unheld(d)' => Idle(d)'
    BY <1>5, <2>2 DEF Body, Apart, Idle
  <2>4. ASSUME NEW t \in Threads, pc'[t] \in {"open", "send"} PROVE Idle(mine[t])'
    <3>1. pc[t] \in {"open", "send"} /\ mine'[t] = mine[t] /\ mine[t] \in Clients
      BY <1>1, <2>4, CallHolds DEF Calling
    <3>2. Idle(mine[t]) /\ mine[t] # c
      BY <1>1, <3>1 DEF Body, Apart, Idle
    <3> QED BY <1>5, <3>1, <3>2 DEF Idle
  <2>5. ASSUME NEW t \in Threads, pc'[t] = "receive" PROVE Waits(t)'
    <3>1. /\ pc[t] = "receive" /\ mine'[t] = mine[t] /\ mine[t] \in Clients /\ Active(t)
          /\ call' = call
      BY <1>1, <2>5, CallHolds DEF Calling, Active
    <3>2. Waits(t) /\ call[t].no \in 1 .. issued
      BY <3>1 DEF Body, Apart, Numbers
    <3>3. CASE mine[t] = c
      <4>1. queue[c] = <<call[t].no>> /\ rx[c] = << >>
        BY <1>1, <3>2, <3>3 DEF Waits
      <4>2. n = call[t].no /\ queue'[c] = << >>
        BY <1>5, <4>1 DEF n
      <4>3. rx'[c] \in {<< >>, <<answer>>}
        BY <1>0, <1>1, <4>1 DEF TypeOK
      <4> QED BY <1>4, <3>1, <3>3, <4>2, <4>3 DEF Waits
    <3>4. CASE mine[t] # c
      <4>1. call[t].no # n
        BY <1>8, <3>1, <3>4
      <4> QED BY <1>4, <1>5, <3>1, <3>2, <3>4, <4>1 DEF Waits
    <3> QED BY <3>3, <3>4
  <2> QED BY <2>1, <2>3, <2>4, <2>5 DEF Apart
<1>12. ASSUME NEW t \in Threads PROVE Truthful(t)'
  <2>1. told[t].result # "nothing" => told[t].no \in 1 .. issued
    BY <1>0 DEF Body, Numbers, TypeOK
  <2> QED BY <1>1, <1>4, <1>9, <2>1 DEF Body, Truthful
<1> QED BY <1>10, <1>11, <1>12 DEF Body

(* The steps in which a thread opens its client, or is in close_all(). *)
LEMMA AsideBody ==
  ASSUME TypeInv, Body, NEW t \in Threads,
         OpenClient(t) \/ CloseAll(t) \/ Check(t) \/ Pop(t) \/ Close(t)
  PROVE  Body'
<1>0. TypeOK
  BY DEF TypeInv
<1>1. CASE OpenClient(t)
  BY <1>0, <1>1, BodyKept DEF OpenClient, TypeOK, Active, Calling, Unheld
<1>2. CASE CloseAll(t)
  BY <1>0, <1>2, BodyKept DEF CloseAll, TypeOK, Active, Calling, Unheld
<1>3. CASE Check(t)
  BY <1>0, <1>3, BodyKept DEF Check, TypeOK, Active, Calling, Unheld
<1>4. CASE Pop(t)
  <2>1. /\ pc[t] = "pop" /\ UNCHANGED <<queue, rx, call, issued, told, verdicts>>
        /\ pc'[t] \in {"close", "idle"}
        /\ \A u \in Threads \ {t} : pc'[u] = pc[u] /\ mine'[u] = mine[u]
        /\ \A i \in Ifnames : clients'[i] = clients[i] \/ clients'[i] = None
    BY <1>0, <1>4 DEF Pop, TypeOK
  <2>2. \A u \in Threads : Active(u)' =>
          /\ Active(u) /\ (pc'[u] = "receive" <=> pc[u] = "receive")
          /\ Calling(u)' => Calling(u) /\ mine'[u] = mine[u]
    BY <2>1 DEF Active, Calling
  <2>3. \A c \in Clients : Unheld(c)' => Unheld(c)
    BY <2>1, NoneIsNoClient DEF Unheld, Calling
  <2> QED BY <2>1, <2>2, <2>3, BodyKept
<1>5. CASE Close(t)
  <2>1. /\ pc[t] = "close" /\ UNCHANGED <<clients, queue, call, issued, told, verdicts>>
        /\ pc'[t] = "check" /\ \A u \in Threads \ {t} : pc'[u] = pc[u] /\ mine'[u] = mine[u]
    BY <1>0, <1>5 DEF Close, TypeOK
  <2>2. \A u \in Threads : Active(u)' =>
          /\ Active(u) /\ (pc'[u] = "receive" <=> pc[u] = "receive")
          /\ Calling(u)' => Calling(u) /\ mine'[u] = mine[u]
    BY <2>1 DEF Active, Calling
  <2>3. \A c \in Clients : Unheld(c)' => Unheld(c)
    BY <2>1 DEF Unheld, Calling
  <2>4. (open \ {mine[t]}) \cap Held(mine', clients) \subseteq Clients
    BY <1>0 DEF TypeOK
  <2>5. \A c \in Clients : rx'[c] = rx[c] \/ rx'[c] = << >>
    BY <1>0, <1>5, <2>4, SocketsSay DEF Close
  <2> QED BY <2>1, <2>2, <2>3, <2>5, BodyKept
<1> QED BY <1>1, <1>2, <1>3, <1>4, <1>5

(* What has happened is not forgotten. *)
LEMMA TroubleStays ==
  ASSUME TypeInv, [Next]_vars
  PROVE  Settled' => Settled
<1>1. TypeOK
  BY DEF TypeInv
<1>2. trouble \subseteq trouble'
  <2>1. ASSUME NEW t \in Threads, Leaving(t) PROVE trouble \subseteq trouble'
    BY <1>1, <2>1, LeavingSays
  <2>2. ASSUME NEW t \in Threads,
               \/ Create(t) \/ OpenClient(t) \/ Send(t)
               \/ CloseAll(t) \/ Check(t) \/ Pop(t) \/ Close(t)
        PROVE  trouble \subseteq trouble'
    BY <2>2 DEF Create, OpenClient, Send, CloseAll, Check, Pop, Close, Note
  <2>3. ASSUME NEW t \in Threads, NEW i \in Ifnames, Execute(t, i) PROVE trouble \subseteq trouble'
    BY <2>3 DEF Execute
  <2>4. ASSUME NEW c \in Clients, NEW reply \in Replies, Serve(c, reply)
        PROVE  trouble \subseteq trouble'
    BY <2>4 DEF Serve
  <2> QED BY <2>1, <2>2, <2>3, <2>4, StepKinds DEF vars
<1> QED BY <1>2 DEF Settled

LEMMA StepVerdict == TypeInv /\ VerdictInv /\ [Next]_vars => VerdictInv'
<1> SUFFICES ASSUME TypeInv, VerdictInv, [Next]_vars, Settled' PROVE Body'
  BY DEF VerdictInv
<1>1. Body
  BY TroubleStays DEF VerdictInv
<1>2. CASE UNCHANGED vars
  <2>1. UNCHANGED <<clients, queue, rx, pc, mine, call, issued, told, verdicts>>
    BY <1>2 DEF vars
  <2> QED BY <1>1, <2>1, BodyKept DEF Active, Calling, Unheld
<1> QED BY <1>1, <1>2, StepKinds, LeavingBody, CreateBody, SendBody, AsideBody, ExecuteBody, ServeBody

LEMMA InitVerdict == Init => VerdictInv
<1> SUFFICES ASSUME Init PROVE Body
  BY DEF VerdictInv
<1>1. Len(verdicts) = 0 /\ issued = 0
  BY DEF Init
<1>2. \A t \in Threads : ~Active(t) /\ ~Calling(t) /\ pc[t] = "idle"
  BY DEF Init, Active, Calling
<1>3. \A c \in Clients : Idle(c) /\ Elements(queue[c]) = {}
  BY ElementsOfOne DEF Init, Idle
<1>4. \A t \in Threads : told[t].no = 0 /\ told[t].result = "nothing"
  BY DEF Init
<1>5. Numbers
  <2>1. \A t \in Threads : told[t].no \in 0 .. issued
    BY <1>1, <1>4
  <2>2. \A t \in Threads, c \in Clients : told[t].no \notin Elements(queue[c])
    BY <1>3
  <2>3. \A c \in Clients, n \in Nat : n \in Elements(queue[c]) => n \in 1 .. issued
    BY <1>3
  <2> QED BY <1>1, <1>2, <1>4, <2>1, <2>2, <2>3 DEF Numbers
<1>6. Apart
  BY <1>2, <1>3 DEF Apart
<1> QED BY <1>4, <1>5, <1>6 DEF Body, Truthful

(* As long as no two calls were under way on one client and no request     *)
(* timed out, a call succeeds exactly if the daemon did not refuse its own *)
(* command (compat.py:63), and returns output exactly if the daemon gave   *)
(* some, whichever threads make and close clients meanwhile.               *)
THEOREM CompatVerdicts == Spec => []TellsOwnVerdict
<1>1. VerdictInv => TellsOwnVerdict
  BY DEF VerdictInv, Settled, Body, Truthful, TellsOwnVerdict
<1> QED BY <1>1, InitVerdict, StepVerdict, TypeHolds, PTL DEF Spec

(* As long, nothing is under way on a client that is in no call's hands:   *)
(* no reply waits in its socket and no command of it at a daemon.  The     *)
(* next call on it (compat.py:33), or on a new client with its id() and    *)
(* hence its address (compat.py:35, transport.py:100), starts in step.     *)
THEOREM CompatInStep == Spec => []InStepBetweenCalls
<1>1. VerdictInv => InStepBetweenCalls
  BY DEF VerdictInv, Settled, Body, Apart, Unheld, Idle, InStepBetweenCalls
<1> QED BY <1>1, InitVerdict, StepVerdict, TypeHolds, PTL DEF Spec
=============================================================================
