--------------------------- MODULE WpaCtrlProofs ---------------------------
(***************************************************************************)
(* What holds of every WpaCtrl connection, for all queue sizes and any     *)
(* number of calls and events.                                             *)
(***************************************************************************)
EXTENDS WpaCtrl, TLAPS

-----------------------------------------------------------------------------
(* The operators the model is built from *)

(* Taking the first datagram off a queue of them. *)
LEMMA FirstMessage ==
  ASSUME NEW q \in Seq(Message), q # << >>
  PROVE  /\ Head(q) \in Message /\ Head(q).id \in Nat
         /\ Tail(q) \in Seq(Message)
<1>1. Head(q) \in Message /\ Tail(q) \in Seq(Message)
  OBVIOUS
<1> QED BY <1>1 DEF Message

(* Taking the first command off the daemon's queue. *)
LEMMA FirstCommand ==
  ASSUME NEW q \in Seq(Command), q # << >>
  PROVE  /\ Head(q) \in Command /\ Head(q).id \in Nat
         /\ Tail(q) \in Seq(Command)
<1>1. Head(q) \in Command /\ Tail(q) \in Seq(Command)
  OBVIOUS
<1> QED BY <1>1 DEF Command

(* The numbers read off a queue are numbers. *)
LEMMA IdsAreNumbers ==
  /\ \A q \in Seq(Message) : \A kind : Ids(q, kind) \subseteq Nat
  /\ \A q \in Seq(Nat) : Members(q) \subseteq Nat
<1>1. ASSUME NEW q \in Seq(Message), NEW kind PROVE Ids(q, kind) \subseteq Nat
  <2>1. \A i \in DOMAIN q : q[i] \in Message
    OBVIOUS
  <2> QED BY <2>1 DEF Ids, Message
<1>2. ASSUME NEW q \in Seq(Nat) PROVE Members(q) \subseteq Nat
  BY <1>2 DEF Members
<1> QED BY <1>1, <1>2

LEMMA EmptyQueue == \A S : << >> \in Seq(S)
OBVIOUS

LEMMA OutcomeType ==
  ASSUME NEW kind \in Outcomes, NEW re \in Nat
  PROVE  [kind |-> kind, re |-> re] \in Outcome
BY DEF Outcome

-----------------------------------------------------------------------------
(* Type correctness *)

(* A step of the call in progress keeps every variable in its type. *)
LEMMA CallStepType == ASSUME TypeOK, CallStep PROVE TypeOK'
<1> USE DEF TypeOK, daemonVars, Return, GiveUp, Troubles
<1>0. \A kind \in Outcomes, re \in Nat : [kind |-> kind, re |-> re] \in Outcome
  BY OutcomeType
<1>1. CASE RequestSend BY <1>1 DEF RequestSend
<1>2. CASE SendTimesOut BY <1>0, <1>2 DEF SendTimesOut, Outcomes
<1>3. CASE SendRefused
  BY <1>0, <1>3, IdsAreNumbers, EmptyQueue DEF SendRefused, RxEvents, Outcomes
<1>4. CASE EnterReceive BY <1>4 DEF EnterReceive
<1>5. CASE ReceiveReply
  <2>1. Tail(rx) \in Seq(Message) /\ Head(rx).id \in Nat
    BY <1>5, FirstMessage DEF ReceiveReply, Receiving
  <2>2. Verdict(cmd.verb, Head(rx).text) \in Outcomes
    BY DEF Verdict, Outcomes
  <2>3. AttachedAfter(cmd.verb, Head(rx).text) \in BOOLEAN
    BY DEF AttachedAfter
  <2> QED BY <1>0, <1>5, <2>1, <2>2, <2>3 DEF ReceiveReply, Rest
<1>6. CASE ReceiveEvent
  <2>1. Tail(rx) \in Seq(Message) /\ Head(rx).id \in Nat
    BY <1>6, FirstMessage DEF ReceiveEvent, LookAtDeadline, Receiving
  <2>2. SetAside(Head(rx)) \in Seq(Nat)
    BY <2>1 DEF SetAside
  <2>3. out' \in Outcome /\ trouble' \in SUBSET Troubles
    BY <1>0, <1>6 DEF ReceiveEvent, LookAtDeadline, Outcomes
  <2> QED BY <1>6, <2>1, <2>2, <2>3 DEF ReceiveEvent, LookAtDeadline, Rest
<1>7. CASE ReceiveTimesOut BY <1>0, <1>7 DEF ReceiveTimesOut, Outcomes
<1>8. CASE ReceiveWouldBlock BY <1>0, <1>8 DEF ReceiveWouldBlock, Outcomes
<1>9. CASE NextTake
  BY <1>0, <1>9, FirstMessage DEF NextTake, Rest, Outcomes
<1>10. CASE NextDiscard
  BY <1>0, <1>10, FirstMessage DEF NextDiscard, Rest, Outcomes
<1>11. CASE NextNone BY <1>0, <1>11 DEF NextNone, Outcomes
<1> QED
  BY <1>1, <1>2, <1>3, <1>4, <1>5, <1>6, <1>7, <1>8, <1>9, <1>10, <1>11
  DEF CallStep

(* So does a step the caller takes between calls. *)
LEMMA CallerType == ASSUME TypeOK, Caller PROVE TypeOK'
<1> USE DEF TypeOK, daemonVars, Return, Troubles
<1>0. \A kind \in Outcomes, re \in Nat : [kind |-> kind, re |-> re] \in Outcome
  BY OutcomeType
<1>1. CASE Open BY <1>1 DEF Open, Opened
<1>2. CASE Close
  BY <1>2, IdsAreNumbers, EmptyQueue DEF Close, Buffered, RxEvents
<1>3. CASE RequestUnopened BY <1>0, <1>3 DEF RequestUnopened, Outcomes
<1>4. CASE NextBuffered
  <2>1. Head(events) \in Nat /\ Tail(events) \in Seq(Nat)
    BY <1>4 DEF NextBuffered
  <2> QED BY <1>0, <1>4, <2>1 DEF NextBuffered, Outcomes
<1>5. ASSUME NEW verb \in Verbs, NEW timeout \in Timeouts,
             RequestStart(verb, timeout)
      PROVE TypeOK'
  <2>1. CommandMsg(issued + 1, verb) \in Command
    BY DEF Command, CommandMsg
  <2>2. (timeout = "zero") \in BOOLEAN
    OBVIOUS
  <2>3. expired' \in BOOLEAN
    BY <1>5, <2>2 DEF RequestStart
  <2>4. sock' \in BOOLEAN /\ linked' \in BOOLEAN
    BY <1>5 DEF RequestStart, Opened
  <2> QED BY <1>5, <2>1, <2>3, <2>4 DEF RequestStart
<1>6. ASSUME NEW timeout \in Timeouts, NextStart(timeout)
      PROVE TypeOK'
  BY <1>0, <1>6 DEF NextStart, Outcomes
<1> QED BY <1>1, <1>2, <1>3, <1>4, <1>5, <1>6 DEF Caller

(* So does a step of the daemon. *)
LEMMA DaemonType == ASSUME TypeOK, Daemon PROVE TypeOK'
<1> USE DEF TypeOK, clientVars, Troubles
<1>1. CASE Emit
  <2>1. EventMsg(accepted + 1) \in Message
    BY DEF EventMsg, Message
  <2> QED BY <1>1, <2>1 DEF Emit, daemonVars
<1>2. CASE EmitFails BY <1>2 DEF EmitFails
<1>3. CASE Stop BY <1>3, EmptyQueue DEF Stop
<1>4. CASE Start BY <1>4 DEF Start
<1>5. ASSUME NEW text \in Texts, Serve(text) PROVE TypeOK'
  <2>1. Tail(dq) \in Seq(Command) /\ Head(dq).id \in Nat
    BY <1>5, FirstCommand DEF Serve
  <2>2. Reply(Head(dq).id, text) \in Message
    BY <2>1 DEF Reply, Message
  <2>3. rx' \in Seq(Message)
    <3>1. Append(rx, Reply(Head(dq).id, text)) \in Seq(Message)
      BY <2>2
    <3> QED BY <1>5, <3>1, Zenon DEF Serve
  <2>5. trouble' \in SUBSET Troubles
    BY <1>5 DEF Serve
  <2>4. monitors' \in BOOLEAN
    BY <1>5 DEF Serve
  <2> QED BY <1>5, <2>1, <2>3, <2>4, <2>5 DEF Serve
<1> QED BY <1>1, <1>2, <1>3, <1>4, <1>5 DEF Daemon

LEMMA StepType == TypeOK /\ [Next]_vars => TypeOK'
<1> SUFFICES ASSUME TypeOK, [Next]_vars PROVE TypeOK'
  OBVIOUS
<1>1. CASE Tick BY <1>1 DEF Tick, TypeOK, daemonVars
<1>2. CASE UNCHANGED vars BY <1>2 DEF TypeOK, vars
<1> QED BY <1>1, <1>2, CallStepType, CallerType, DaemonType DEF Next

LEMMA InitType == Init => TypeOK
<1>1. CommandMsg(0, "REQUEST") \in Command
  BY DEF Command, CommandMsg, Verbs
<1>2. [kind |-> "none", re |-> 0] \in Outcome
  BY OutcomeType DEF Outcomes
<1>3. << >> \in Seq(Message) /\ << >> \in Seq(Nat) /\ << >> \in Seq(Command)
  BY EmptyQueue
<1>4. 0 \in Nat
  OBVIOUS
<1> QED BY <1>1, <1>2, <1>3, <1>4, Zenon DEF Init, TypeOK

(* Every variable keeps its type, in particular events holds parsed events *)
(* and rx whole datagrams, whatever the interleaving.                      *)
THEOREM TypeCorrect == Spec => []TypeOK
BY InitType, StepType, PTL DEF Spec

-----------------------------------------------------------------------------
(* Events: none vanishes, and they keep their order *)

(* What a queue of datagrams holds after recv(). *)
LEMMA IdsOfTail ==
  ASSUME NEW S, NEW q \in Seq(S), q # << >>, NEW kind
  PROVE  /\ Head(q).kind = kind => Ids(q, kind) = Ids(Tail(q), kind) \cup {Head(q).id}
         /\ Head(q).kind # kind => Ids(q, kind) = Ids(Tail(q), kind)
<1> DEFINE t == Tail(q)
<1>1. /\ DOMAIN q = 1 .. Len(q) /\ DOMAIN t = 1 .. (Len(q) - 1)
      /\ Len(q) \in Nat /\ Len(q) >= 1
      /\ Head(q) = q[1] /\ \A i \in DOMAIN t : t[i] = q[i + 1]
  OBVIOUS
<1> HIDE DEF t
<1>2. Ids(t, kind) \subseteq Ids(q, kind)
  <2> SUFFICES ASSUME NEW i \in DOMAIN t, t[i].kind = kind PROVE t[i].id \in Ids(q, kind)
    BY DEF Ids
  <2>1. i + 1 \in DOMAIN q /\ t[i] = q[i + 1]
    BY <1>1
  <2> QED BY <2>1 DEF Ids
<1>3. ASSUME NEW i \in DOMAIN q, q[i].kind = kind, i # 1 PROVE q[i].id \in Ids(t, kind)
  <2>1. i - 1 \in DOMAIN t /\ t[i - 1] = q[i]
    BY <1>1, <1>3
  <2> QED BY <1>3, <2>1 DEF Ids
<1>4. Head(q).kind = kind => Head(q).id \in Ids(q, kind)
  BY <1>1 DEF Ids
<1>5. \A e \in Ids(q, kind) : e \in Ids(t, kind) \/ (q[1].kind = kind /\ e = q[1].id)
  BY <1>3 DEF Ids
<1> QED BY <1>1, <1>2, <1>4, <1>5 DEF t

(* What it holds after a datagram arrives. *)
LEMMA IdsOfAppend ==
  ASSUME NEW S, NEW q \in Seq(S), NEW m \in S, NEW kind
  PROVE  Ids(Append(q, m), kind) =
           IF m.kind = kind THEN Ids(q, kind) \cup {m.id} ELSE Ids(q, kind)
<1> DEFINE a == Append(q, m)
<1>1. /\ DOMAIN q = 1 .. Len(q) /\ DOMAIN a = 1 .. (Len(q) + 1) /\ Len(q) \in Nat
      /\ a[Len(q) + 1] = m /\ \A i \in DOMAIN q : a[i] = q[i]
  OBVIOUS
<1> HIDE DEF a
<1>2. ASSUME NEW i \in DOMAIN q, q[i].kind = kind PROVE q[i].id \in Ids(a, kind)
  <2>1. i \in DOMAIN a /\ a[i] = q[i]
    BY <1>1
  <2> QED BY <1>2, <2>1 DEF Ids
<1>3. m.kind = kind => m.id \in Ids(a, kind)
  BY <1>1 DEF Ids
<1>4. ASSUME NEW i \in DOMAIN a, a[i].kind = kind
      PROVE  a[i].id \in Ids(q, kind) \/ (m.kind = kind /\ a[i].id = m.id)
  <2>1. CASE i \in DOMAIN q BY <1>1, <1>4, <2>1 DEF Ids
  <2>2. CASE i = Len(q) + 1 BY <1>1, <1>4, <2>2
  <2> QED BY <1>1, <2>1, <2>2
<1>5. Ids(q, kind) \subseteq Ids(a, kind)
  BY <1>2 DEF Ids
<1>6. \A e \in Ids(a, kind) : e \in Ids(q, kind) \/ (m.kind = kind /\ e = m.id)
  BY <1>4 DEF Ids
<1> QED BY <1>3, <1>5, <1>6 DEF a

(* The same two facts for all that is in a queue. *)
LEMMA MembersOfTail ==
  ASSUME NEW S, NEW s \in Seq(S), s # << >>
  PROVE  Members(s) = Members(Tail(s)) \cup {Head(s)}
<1> DEFINE t == Tail(s)
<1>1. /\ DOMAIN s = 1 .. Len(s) /\ DOMAIN t = 1 .. (Len(s) - 1)
      /\ Len(s) \in Nat /\ Len(s) >= 1
      /\ Head(s) = s[1] /\ \A i \in DOMAIN t : t[i] = s[i + 1]
  OBVIOUS
<1> HIDE DEF t
<1>2. ASSUME NEW i \in DOMAIN t PROVE t[i] \in Members(s)
  BY <1>1 DEF Members
<1>3. ASSUME NEW i \in DOMAIN s, i # 1 PROVE s[i] \in Members(t)
  <2>1. i - 1 \in DOMAIN t /\ t[i - 1] = s[i]
    BY <1>1, <1>3
  <2> QED BY <2>1 DEF Members
<1>4. Members(t) \subseteq Members(s)
  BY <1>2 DEF Members
<1>5. \A e \in Members(s) : e \in Members(t) \/ e = s[1]
  BY <1>3 DEF Members
<1>6. s[1] \in Members(s)
  BY <1>1 DEF Members
<1> QED BY <1>1, <1>4, <1>5, <1>6 DEF t

LEMMA MembersOfAppend ==
  ASSUME NEW S, NEW s \in Seq(S), NEW n \in S
  PROVE  Members(Append(s, n)) = Members(s) \cup {n}
<1> DEFINE a == Append(s, n)
<1>1. /\ DOMAIN s = 1 .. Len(s) /\ DOMAIN a = 1 .. (Len(s) + 1) /\ Len(s) \in Nat
      /\ a[Len(s) + 1] = n /\ \A i \in DOMAIN s : a[i] = s[i]
  OBVIOUS
<1> HIDE DEF a
<1>2. ASSUME NEW i \in DOMAIN s PROVE s[i] \in Members(a)
  <2>1. i \in DOMAIN a /\ a[i] = s[i]
    BY <1>1
  <2> QED BY <2>1 DEF Members
<1>3. ASSUME NEW i \in DOMAIN a PROVE a[i] \in Members(s) \/ a[i] = n
  <2>1. CASE i \in DOMAIN s BY <1>1, <2>1 DEF Members
  <2>2. CASE i = Len(s) + 1 BY <1>1, <2>2
  <2> QED BY <1>1, <2>1, <2>2
<1>4. n \in Members(a)
  BY <1>1 DEF Members
<1>5. Members(s) \subseteq Members(a)
  BY <1>2 DEF Members
<1>6. \A e \in Members(a) : e \in Members(s) \/ e = n
  BY <1>3 DEF Members
<1> QED BY <1>4, <1>5, <1>6 DEF a

LEMMA EmptyIds == Members(<< >>) = {} /\ \A kind : Ids(<< >>, kind) = {}
BY DEF Members, Ids

(* A queue in order stays in order, and its first event is its oldest. *)
LEMMA OrderOfTail ==
  ASSUME NEW S, NEW q \in Seq(S), q # << >>, NEW kind, IdsIncreasing(q, kind)
  PROVE  /\ IdsIncreasing(Tail(q), kind)
         /\ Head(q).kind = kind => \A e \in Ids(Tail(q), kind) : Head(q).id < e
<1> DEFINE t == Tail(q)
<1>1. /\ DOMAIN q = 1 .. Len(q) /\ DOMAIN t = 1 .. (Len(q) - 1)
      /\ Len(q) \in Nat /\ Len(q) >= 1
      /\ Head(q) = q[1] /\ \A i \in DOMAIN t : t[i] = q[i + 1]
  OBVIOUS
<1> HIDE DEF t
<1>2. \A i \in DOMAIN t : i + 1 \in DOMAIN q /\ t[i] = q[i + 1] /\ 1 < i + 1 /\ i \in Nat
  BY <1>1
<1>3. IdsIncreasing(t, kind)
  <2> SUFFICES ASSUME NEW i \in DOMAIN t, NEW j \in DOMAIN t,
                      i < j, t[i].kind = kind, t[j].kind = kind
               PROVE  t[i].id < t[j].id
    BY DEF IdsIncreasing
  <2>1. i + 1 < j + 1
    BY <1>2
  <2> QED BY <1>2, <2>1 DEF IdsIncreasing
<1>4. ASSUME Head(q).kind = kind, NEW e \in Ids(t, kind) PROVE Head(q).id < e
  <2>1. PICK i \in DOMAIN t : t[i].kind = kind /\ e = t[i].id
    BY DEF Ids
  <2>2. 1 \in DOMAIN q
    BY <1>1
  <2> QED BY <1>1, <1>2, <1>4, <2>1, <2>2 DEF IdsIncreasing
<1> QED BY <1>3, <1>4 DEF t

LEMMA OrderOfAppend ==
  ASSUME NEW S, NEW q \in Seq(S), NEW m \in S, NEW kind, IdsIncreasing(q, kind),
         m.kind = kind => \A e \in Ids(q, kind) : e < m.id
  PROVE  IdsIncreasing(Append(q, m), kind)
<1> DEFINE a == Append(q, m)
<1>1. /\ DOMAIN q = 1 .. Len(q) /\ DOMAIN a = 1 .. (Len(q) + 1) /\ Len(q) \in Nat
      /\ a[Len(q) + 1] = m /\ \A i \in DOMAIN q : a[i] = q[i]
  OBVIOUS
<1> HIDE DEF a
<1> SUFFICES ASSUME NEW i \in DOMAIN a, NEW j \in DOMAIN a,
                    i < j, a[i].kind = kind, a[j].kind = kind
             PROVE  a[i].id < a[j].id
  BY DEF IdsIncreasing, a
<1>2. i \in DOMAIN q /\ a[i] = q[i]
  BY <1>1
<1>3. CASE j \in DOMAIN q BY <1>1, <1>2, <1>3 DEF IdsIncreasing
<1>4. CASE j = Len(q) + 1
  <2>1. q[i].id \in Ids(q, kind)
    BY <1>2 DEF Ids
  <2> QED BY <1>1, <1>2, <1>4, <2>1
<1> QED BY <1>1, <1>3, <1>4

LEMMA IncreasingTail ==
  ASSUME NEW s \in Seq(Nat), s # << >>, Increasing(s)
  PROVE  Increasing(Tail(s)) /\ \A e \in Members(Tail(s)) : Head(s) < e
<1> DEFINE t == Tail(s)
<1>1. /\ DOMAIN s = 1 .. Len(s) /\ DOMAIN t = 1 .. (Len(s) - 1)
      /\ Len(s) \in Nat /\ Len(s) >= 1
      /\ Head(s) = s[1] /\ \A i \in DOMAIN t : t[i] = s[i + 1]
  OBVIOUS
<1> HIDE DEF t
<1>2. \A i \in DOMAIN t : i + 1 \in DOMAIN s /\ t[i] = s[i + 1] /\ 1 < i + 1 /\ i \in Nat
  BY <1>1
<1>3. Increasing(t)
  <2> SUFFICES ASSUME NEW i \in DOMAIN t, NEW j \in DOMAIN t, i < j PROVE t[i] < t[j]
    BY DEF Increasing
  <2>1. i + 1 < j + 1
    BY <1>2
  <2> QED BY <1>2, <2>1 DEF Increasing
<1>4. ASSUME NEW e \in Members(t) PROVE Head(s) < e
  <2>1. PICK i \in DOMAIN t : e = t[i]
    BY DEF Members
  <2>2. 1 \in DOMAIN s
    BY <1>1
  <2> QED BY <1>1, <1>2, <2>1, <2>2 DEF Increasing
<1> QED BY <1>3, <1>4 DEF t

LEMMA IncreasingAppend ==
  ASSUME NEW s \in Seq(Nat), NEW n \in Nat, Increasing(s),
         \A e \in Members(s) : e < n
  PROVE  Increasing(Append(s, n))
<1> DEFINE a == Append(s, n)
<1>1. /\ DOMAIN s = 1 .. Len(s) /\ DOMAIN a = 1 .. (Len(s) + 1) /\ Len(s) \in Nat
      /\ a[Len(s) + 1] = n /\ \A i \in DOMAIN s : a[i] = s[i]
  OBVIOUS
<1> HIDE DEF a
<1> SUFFICES ASSUME NEW i \in DOMAIN a, NEW j \in DOMAIN a, i < j PROVE a[i] < a[j]
  BY DEF Increasing, a
<1>2. i \in DOMAIN s /\ a[i] = s[i]
  BY <1>1
<1>3. CASE j \in DOMAIN s BY <1>1, <1>2, <1>3 DEF Increasing
<1>4. CASE j = Len(s) + 1
  <2>1. s[i] \in Members(s)
    BY <1>2 DEF Members
  <2> QED BY <1>1, <1>2, <1>4, <2>1
<1> QED BY <1>1, <1>3, <1>4

(* A datagram is an event or a reply. *)
LEMMA MessageKinds ==
  ASSUME NEW m \in Message
  PROVE  /\ IsEvent(m) => m.kind = "event" /\ m.kind # "reply"
         /\ ~IsEvent(m) => m.kind = "reply" /\ m.kind # "event"
BY DEF Message, IsEvent

(* The client's queue when recv() takes an event off it. *)
LEMMA EventTakenOff ==
  ASSUME TypeOK, rx # << >>, IsEvent(Head(rx)), rx' = Tail(rx)
  PROVE  /\ RxEvents = RxEvents' \cup {Head(rx).id}
         /\ RxReplies = RxReplies'
         /\ IdsIncreasing(rx, "event") => /\ IdsIncreasing(rx', "event")
                                         /\ \A e \in RxEvents' : Head(rx).id < e
         /\ IdsIncreasing(rx, "reply") => IdsIncreasing(rx', "reply")
<1>1. rx \in Seq(Message) /\ Head(rx).kind = "event" /\ Head(rx).kind # "reply"
  BY FirstMessage, MessageKinds DEF TypeOK
<1>2. RxEvents = RxEvents' \cup {Head(rx).id}
  BY <1>1, IdsOfTail DEF RxEvents
<1>3. RxReplies = RxReplies'
  BY <1>1, IdsOfTail DEF RxReplies
<1>4. ASSUME IdsIncreasing(rx, "event")
      PROVE  IdsIncreasing(rx', "event") /\ \A e \in RxEvents' : Head(rx).id < e
  BY <1>1, <1>4, OrderOfTail DEF RxEvents
<1>5. ASSUME IdsIncreasing(rx, "reply") PROVE IdsIncreasing(rx', "reply")
  BY <1>1, <1>5, OrderOfTail
<1> QED BY <1>2, <1>3, <1>4, <1>5

(* The client's queue when recv() takes a reply off it. *)
LEMMA ReplyTakenOff ==
  ASSUME TypeOK, rx # << >>, ~IsEvent(Head(rx)), rx' = Tail(rx)
  PROVE  /\ RxReplies = RxReplies' \cup {Head(rx).id}
         /\ RxEvents = RxEvents'
         /\ IdsIncreasing(rx, "reply") => /\ IdsIncreasing(rx', "reply")
                                         /\ \A r \in RxReplies' : Head(rx).id < r
         /\ IdsIncreasing(rx, "event") => IdsIncreasing(rx', "event")
<1>1. rx \in Seq(Message) /\ Head(rx).kind = "reply" /\ Head(rx).kind # "event"
  BY FirstMessage, MessageKinds DEF TypeOK
<1>2. RxReplies = RxReplies' \cup {Head(rx).id}
  BY <1>1, IdsOfTail DEF RxReplies
<1>3. RxEvents = RxEvents'
  BY <1>1, IdsOfTail DEF RxEvents
<1>4. ASSUME IdsIncreasing(rx, "reply")
      PROVE  IdsIncreasing(rx', "reply") /\ \A r \in RxReplies' : Head(rx).id < r
  BY <1>1, <1>4, OrderOfTail DEF RxReplies
<1>5. ASSUME IdsIncreasing(rx, "event") PROVE IdsIncreasing(rx', "event")
  BY <1>1, <1>5, OrderOfTail
<1> QED BY <1>2, <1>3, <1>4, <1>5

(* The client's queue when an event arrives, and when a reply does. *)
LEMMA EventArrives ==
  ASSUME TypeOK, NEW n \in Nat, rx' = Append(rx, EventMsg(n))
  PROVE  /\ RxEvents' = RxEvents \cup {n}
         /\ RxReplies' = RxReplies
         /\ IdsIncreasing(rx, "event") /\ (\A e \in RxEvents : e < n)
               => IdsIncreasing(rx', "event")
         /\ IdsIncreasing(rx, "reply") => IdsIncreasing(rx', "reply")
<1> DEFINE m == EventMsg(n)
<1>1. m \in Message /\ m.kind = "event" /\ m.kind # "reply" /\ m.id = n
  BY DEF EventMsg, Message
<1>2. rx \in Seq(Message) /\ rx' = Append(rx, m)
  BY DEF TypeOK
<1> HIDE DEF m
<1>3. RxEvents' = RxEvents \cup {n}
  BY <1>1, <1>2, IdsOfAppend DEF RxEvents
<1>4. RxReplies' = RxReplies
  BY <1>1, <1>2, IdsOfAppend DEF RxReplies
<1>5. ASSUME IdsIncreasing(rx, "event"), \A e \in RxEvents : e < n
      PROVE  IdsIncreasing(rx', "event")
  BY <1>1, <1>2, <1>5, OrderOfAppend DEF RxEvents
<1>6. ASSUME IdsIncreasing(rx, "reply") PROVE IdsIncreasing(rx', "reply")
  BY <1>1, <1>2, <1>6, OrderOfAppend
<1> QED BY <1>3, <1>4, <1>5, <1>6

LEMMA ReplyArrives ==
  ASSUME TypeOK, NEW n \in Nat, NEW text \in Texts, rx' = Append(rx, Reply(n, text))
  PROVE  /\ RxReplies' = RxReplies \cup {n}
         /\ RxEvents' = RxEvents
         /\ IdsIncreasing(rx, "reply") /\ (\A r \in RxReplies : r < n)
               => IdsIncreasing(rx', "reply")
         /\ IdsIncreasing(rx, "event") => IdsIncreasing(rx', "event")
<1> DEFINE m == Reply(n, text)
<1>1. m \in Message /\ m.kind = "reply" /\ m.kind # "event" /\ m.id = n
  BY DEF Reply, Message
<1>2. rx \in Seq(Message) /\ rx' = Append(rx, m)
  BY DEF TypeOK
<1> HIDE DEF m
<1>3. RxReplies' = RxReplies \cup {n}
  BY <1>1, <1>2, IdsOfAppend DEF RxReplies
<1>4. RxEvents' = RxEvents
  BY <1>1, <1>2, IdsOfAppend DEF RxEvents
<1>5. ASSUME IdsIncreasing(rx, "reply"), \A r \in RxReplies : r < n
      PROVE  IdsIncreasing(rx', "reply")
  BY <1>1, <1>2, <1>5, OrderOfAppend DEF RxReplies
<1>6. ASSUME IdsIncreasing(rx, "event") PROVE IdsIncreasing(rx', "event")
  BY <1>1, <1>2, <1>6, OrderOfAppend
<1> QED BY <1>3, <1>4, <1>5, <1>6

(* The daemon's queue when it takes a command, and when one is sent. *)
LEMMA CommandTakenOff ==
  ASSUME TypeOK, dq # << >>, dq' = Tail(dq)
  PROVE  /\ Ids(dq, "command") = Ids(dq', "command") \cup {Head(dq).id}
         /\ IdsIncreasing(dq, "command")
               => /\ IdsIncreasing(dq', "command")
                  /\ \A c \in Ids(dq', "command") : Head(dq).id < c
<1>1. dq \in Seq(Command) /\ Head(dq) \in Command
  BY FirstCommand DEF TypeOK
<1>2. Head(dq).kind = "command"
  BY <1>1 DEF Command
<1>3. Ids(dq, "command") = Ids(dq', "command") \cup {Head(dq).id}
  BY <1>1, <1>2, IdsOfTail
<1>4. ASSUME IdsIncreasing(dq, "command")
      PROVE  /\ IdsIncreasing(dq', "command")
             /\ \A c \in Ids(dq', "command") : Head(dq).id < c
  BY <1>1, <1>2, <1>4, OrderOfTail
<1> QED BY <1>3, <1>4

LEMMA CommandArrives ==
  ASSUME TypeOK, dq' = Append(dq, cmd)
  PROVE  /\ Ids(dq', "command") = Ids(dq, "command") \cup {cmd.id}
         /\ IdsIncreasing(dq, "command")
            /\ (\A c \in Ids(dq, "command") : c < cmd.id)
               => IdsIncreasing(dq', "command")
<1>1. dq \in Seq(Command) /\ cmd \in Command
  BY DEF TypeOK
<1>2. cmd.kind = "command"
  BY <1>1 DEF Command
<1>3. Ids(dq', "command") = Ids(dq, "command") \cup {cmd.id}
  BY <1>1, <1>2, IdsOfAppend
<1>4. ASSUME IdsIncreasing(dq, "command"), \A c \in Ids(dq, "command") : c < cmd.id
      PROVE  IdsIncreasing(dq', "command")
  BY <1>1, <1>2, <1>4, OrderOfAppend
<1> QED BY <1>3, <1>4

-----------------------------------------------------------------------------
(* What makes the two event invariants inductive is that next_event() looks *)
(* at the socket only when nothing is set aside.                           *)
SocketOnlyWhenNoneSetAside == pc = "next" => events = << >>

EventInv == NoEventVanishes /\ EventsInOrder /\ SocketOnlyWhenNoneSetAside

(* What EventInv says of the numbers. *)
LEMMA EventBounds ==
  ASSUME TypeOK, NoEventVanishes
  PROVE  /\ accepted \in Nat
         /\ \A e \in taken \cup lost \cup Buffered \cup RxEvents :
               e \in Nat /\ 1 <= e /\ e <= accepted
<1>1. \A e \in 1 .. accepted : e \in Nat /\ 1 <= e /\ e <= accepted
  BY DEF TypeOK
<1> QED BY <1>1 DEF TypeOK, NoEventVanishes

(* A step that leaves the queues, the counters and the histories of events *)
(* alone leaves the invariant alone, unless it enters next_event().        *)
LEMMA EventsUntouched ==
  ASSUME EventInv, UNCHANGED <<rx, events, accepted, taken, lost>>,
         pc' = "next" => events = << >>
  PROVE  EventInv'
BY DEF EventInv, NoEventVanishes, EventsInOrder, SocketOnlyWhenNoneSetAside,
       RxEvents, Buffered

(* A step of the call in progress keeps the event invariant. *)
LEMMA CallStepEvents == ASSUME TypeOK, EventInv, CallStep PROVE EventInv'
<1>1. CASE RequestSend BY <1>1, EventsUntouched DEF RequestSend
<1>2. CASE SendTimesOut BY <1>2, EventsUntouched DEF SendTimesOut, Return
<1>3. CASE SendRefused
  <2>1. /\ RxEvents' = {} /\ Buffered' = Buffered /\ lost' = lost \cup RxEvents
        /\ UNCHANGED <<events, accepted, taken>> /\ rx' = << >> /\ pc' = "idle"
    BY <1>3, EmptyIds DEF SendRefused, RxEvents, Buffered, Return
  <2>2. NoEventVanishes'
    BY <2>1 DEF EventInv, NoEventVanishes
  <2>3. EventsInOrder'
    BY <2>1 DEF EventInv, EventsInOrder, IdsIncreasing, Increasing
  <2> QED BY <2>1, <2>2, <2>3 DEF EventInv, SocketOnlyWhenNoneSetAside
<1>4. CASE EnterReceive BY <1>4, EventsUntouched DEF EnterReceive
<1>5. CASE ReceiveReply
  <2>1. /\ rx # << >> /\ rx \in Seq(Message) /\ ~IsEvent(Head(rx)) /\ rx' = Tail(rx)
        /\ UNCHANGED <<events, accepted, taken, lost>> /\ pc' = "idle"
    BY <1>5 DEF ReceiveReply, Receiving, Rest, Return, TypeOK
  <2>2. RxEvents' = RxEvents /\ Buffered' = Buffered
    BY <2>1, ReplyTakenOff DEF Buffered
  <2>3. IdsIncreasing(rx', "event")
    BY <2>1, ReplyTakenOff DEF EventInv, EventsInOrder
  <2> QED BY <2>1, <2>2, <2>3
          DEF EventInv, NoEventVanishes, EventsInOrder, SocketOnlyWhenNoneSetAside
<1>6. CASE ReceiveEvent
  <2> DEFINE e == Head(rx).id
  <2>1. /\ rx # << >> /\ rx \in Seq(Message) /\ IsEvent(Head(rx)) /\ rx' = Tail(rx)
        /\ events' = Append(events, e) /\ events \in Seq(Nat)
        /\ UNCHANGED <<accepted, taken, lost>> /\ pc' # "next"
    BY <1>6 DEF ReceiveEvent, LookAtDeadline, Receiving, Rest, SetAside, GiveUp, Return, TypeOK
  <2>2. e \in Nat
    BY <2>1, FirstMessage
  <2> HIDE DEF e
  <2>3. RxEvents = RxEvents' \cup {e}
    BY <2>1, EventTakenOff DEF e
  <2>4. Buffered' = Buffered \cup {e}
    <3>1. Members(Append(events, e)) = Members(events) \cup {e}
      <4>1. \A s \in Seq(Nat), n \in Nat : Members(Append(s, n)) = Members(s) \cup {n}
        BY MembersOfAppend
      <4> QED BY <2>1, <2>2, <4>1
    <3> QED BY <2>1, <3>1 DEF Buffered
  <2>5. IdsIncreasing(rx', "event") /\ \A f \in RxEvents' : e < f
    BY <2>1, EventTakenOff DEF EventInv, EventsInOrder, e
  <2>6. \A b \in Buffered : b < e
    BY <2>3 DEF EventInv, EventsInOrder
  <2>7. Increasing(events')
    BY <2>1, <2>2, <2>6, IncreasingAppend DEF EventInv, EventsInOrder, Buffered
  <2>8. NoEventVanishes'
    BY <2>1, <2>3, <2>4 DEF EventInv, NoEventVanishes
  <2>9. EventsInOrder'
    BY <2>1, <2>3, <2>4, <2>5, <2>7 DEF EventInv, EventsInOrder
  <2> QED BY <2>1, <2>8, <2>9 DEF EventInv, SocketOnlyWhenNoneSetAside
<1>7. CASE ReceiveTimesOut BY <1>7, EventsUntouched DEF ReceiveTimesOut, GiveUp, Return
<1>8. CASE ReceiveWouldBlock BY <1>8, EventsUntouched DEF ReceiveWouldBlock, GiveUp, Return
<1>9. CASE NextTake
  <2> DEFINE e == Head(rx).id
  <2>1. /\ rx # << >> /\ rx \in Seq(Message) /\ IsEvent(Head(rx)) /\ rx' = Tail(rx)
        /\ events = << >> /\ taken' = taken \cup {e}
        /\ UNCHANGED <<events, accepted, lost>> /\ pc' = "idle"
    BY <1>9 DEF NextTake, Rest, Return, TypeOK, EventInv, SocketOnlyWhenNoneSetAside
  <2> HIDE DEF e
  <2>2. RxEvents = RxEvents' \cup {e} /\ Buffered = {} /\ Buffered' = {}
    BY <2>1, EventTakenOff, EmptyIds DEF Buffered, e
  <2>3. IdsIncreasing(rx', "event") /\ \A f \in RxEvents' : e < f
    BY <2>1, EventTakenOff DEF EventInv, EventsInOrder, e
  <2>4. NoEventVanishes'
    BY <2>1, <2>2 DEF EventInv, NoEventVanishes
  <2>5. EventsInOrder'
    BY <2>1, <2>2, <2>3 DEF EventInv, EventsInOrder
  <2> QED BY <2>1, <2>4, <2>5 DEF EventInv, SocketOnlyWhenNoneSetAside
<1>10. CASE NextDiscard
  <2>1. /\ rx # << >> /\ rx \in Seq(Message) /\ ~IsEvent(Head(rx)) /\ rx' = Tail(rx)
        /\ UNCHANGED <<events, accepted, taken, lost>> /\ pc = "next"
    BY <1>10 DEF NextDiscard, Rest, TypeOK
  <2>2. RxEvents' = RxEvents /\ Buffered' = Buffered
    BY <2>1, ReplyTakenOff DEF Buffered
  <2>3. IdsIncreasing(rx', "event")
    BY <2>1, ReplyTakenOff DEF EventInv, EventsInOrder
  <2> QED BY <2>1, <2>2, <2>3
          DEF EventInv, NoEventVanishes, EventsInOrder, SocketOnlyWhenNoneSetAside
<1>11. CASE NextNone BY <1>11, EventsUntouched DEF NextNone, Return
<1> QED
  BY <1>1, <1>2, <1>3, <1>4, <1>5, <1>6, <1>7, <1>8, <1>9, <1>10, <1>11
  DEF CallStep

(* A step the caller takes between calls keeps it. *)
LEMMA CallerEvents == ASSUME TypeOK, EventInv, Caller PROVE EventInv'
<1>1. CASE Open BY <1>1, EventsUntouched DEF Open
<1>2. CASE Close
  <2>1. /\ RxEvents' = {} /\ Buffered' = {} /\ rx' = << >> /\ events' = << >>
        /\ lost' = lost \cup Buffered \cup RxEvents /\ UNCHANGED <<accepted, taken>>
    BY <1>2, EmptyIds DEF Close, RxEvents, Buffered
  <2>2. NoEventVanishes'
    BY <2>1 DEF EventInv, NoEventVanishes
  <2>3. EventsInOrder'
    BY <2>1 DEF EventsInOrder, IdsIncreasing, Increasing
  <2> QED BY <2>1, <2>2, <2>3 DEF EventInv, SocketOnlyWhenNoneSetAside
<1>3. CASE RequestUnopened BY <1>3, EventsUntouched DEF RequestUnopened, Return
<1>4. CASE NextBuffered
  <2> DEFINE e == Head(events)
  <2>1. /\ events # << >> /\ events \in Seq(Nat) /\ events' = Tail(events)
        /\ taken' = taken \cup {e} /\ UNCHANGED <<rx, accepted, lost>> /\ pc' = "idle"
    BY <1>4 DEF NextBuffered, Return, TypeOK
  <2> HIDE DEF e
  <2>2. Buffered = Buffered' \cup {e} /\ RxEvents' = RxEvents
    BY <2>1, MembersOfTail DEF RxEvents, Buffered, e
  <2>3. Increasing(events') /\ \A f \in Buffered' : e < f
    BY <2>1, IncreasingTail DEF EventInv, EventsInOrder, Buffered, e
  <2>4. NoEventVanishes'
    BY <2>1, <2>2 DEF EventInv, NoEventVanishes
  <2>5. EventsInOrder'
    BY <2>1, <2>2, <2>3 DEF EventInv, EventsInOrder
  <2> QED BY <2>1, <2>4, <2>5 DEF EventInv, SocketOnlyWhenNoneSetAside
<1>5. ASSUME NEW verb \in Verbs, NEW timeout \in Timeouts,
             RequestStart(verb, timeout)
      PROVE EventInv'
  BY <1>5, EventsUntouched DEF RequestStart
<1>6. ASSUME NEW timeout \in Timeouts, NextStart(timeout)
      PROVE EventInv'
  BY <1>6, EventsUntouched DEF NextStart
<1> QED BY <1>1, <1>2, <1>3, <1>4, <1>5, <1>6 DEF Caller

(* A step of the daemon keeps it. *)
LEMMA DaemonEvents == ASSUME TypeOK, EventInv, Daemon PROVE EventInv'
<1> USE DEF clientVars
<1>1. CASE Emit
  <2>1. /\ rx' = Append(rx, EventMsg(accepted + 1)) /\ accepted \in Nat
        /\ accepted' = accepted + 1 /\ UNCHANGED <<events, taken, lost, pc>>
    BY <1>1 DEF Emit, TypeOK
  <2>2. RxEvents' = RxEvents \cup {accepted + 1} /\ Buffered' = Buffered
    BY <2>1, EventArrives DEF Buffered
  <2>3. \A e \in taken \cup lost \cup Buffered \cup RxEvents : e < accepted + 1
    BY <2>1, EventBounds DEF EventInv
  <2>4. IdsIncreasing(rx', "event")
    BY <2>1, <2>3, EventArrives DEF EventInv, EventsInOrder
  <2>6. NoEventVanishes'
    <3>1. 1 .. accepted' = (1 .. accepted) \cup {accepted + 1}
      BY <2>1
    <3> QED BY <2>1, <2>2, <3>1 DEF EventInv, NoEventVanishes
  <2>7. EventsInOrder'
    BY <2>1, <2>2, <2>3, <2>4 DEF EventInv, EventsInOrder
  <2> QED BY <2>1, <2>6, <2>7 DEF EventInv, SocketOnlyWhenNoneSetAside
<1>2. CASE EmitFails
  BY <1>2, EventsUntouched DEF EmitFails, EventInv, SocketOnlyWhenNoneSetAside
<1>3. CASE Stop
  BY <1>3, EventsUntouched DEF Stop, EventInv, SocketOnlyWhenNoneSetAside
<1>4. CASE Start
  BY <1>4, EventsUntouched DEF Start, EventInv, SocketOnlyWhenNoneSetAside
<1>5. ASSUME NEW text \in Texts, Serve(text) PROVE EventInv'
  <2>1. /\ rx \in Seq(Message) /\ UNCHANGED <<events, accepted, taken, lost, pc>>
    BY <1>5 DEF Serve, TypeOK
  <2>2. CASE Deliverable
    <3>1. rx' = Append(rx, Reply(Head(dq).id, text)) /\ Head(dq).id \in Nat
      BY <1>5, <2>2, FirstCommand DEF Serve, TypeOK
    <3>2. RxEvents' = RxEvents /\ Buffered' = Buffered
      BY <2>1, <3>1, ReplyArrives DEF Buffered
    <3>3. IdsIncreasing(rx', "event")
      BY <3>1, ReplyArrives DEF EventInv, EventsInOrder
    <3> QED BY <2>1, <3>2, <3>3
            DEF EventInv, NoEventVanishes, EventsInOrder, SocketOnlyWhenNoneSetAside
  <2>3. CASE ~Deliverable
    BY <1>5, <2>1, <2>3, EventsUntouched
    DEF Serve, EventInv, SocketOnlyWhenNoneSetAside
  <2> QED BY <2>2, <2>3
<1> QED BY <1>1, <1>2, <1>3, <1>4, <1>5 DEF Daemon

LEMMA StepEvents == TypeOK /\ EventInv /\ [Next]_vars => EventInv'
<1> SUFFICES ASSUME TypeOK, EventInv, [Next]_vars PROVE EventInv'
  OBVIOUS
<1>1. CASE Tick
  BY <1>1, EventsUntouched DEF Tick, EventInv, SocketOnlyWhenNoneSetAside
<1>2. CASE UNCHANGED vars
  BY <1>2, EventsUntouched DEF vars, EventInv, SocketOnlyWhenNoneSetAside
<1> QED BY <1>1, <1>2, CallStepEvents, CallerEvents, DaemonEvents DEF Next

LEMMA InitEvents == Init => EventInv
<1> SUFFICES ASSUME Init PROVE EventInv
  OBVIOUS
<1>1. Buffered = {} /\ RxEvents = {} /\ accepted = 0 /\ taken = {} /\ lost = {}
  BY EmptyIds DEF Init, Buffered, RxEvents
<1>2. 1 .. 0 = {}
  OBVIOUS
<1> QED BY <1>1, <1>2 DEF Init, EventInv, NoEventVanishes, EventsInOrder,
           SocketOnlyWhenNoneSetAside, Increasing, IdsIncreasing

(* Every event the socket accepts is accounted for - queued, set aside,    *)
(* handed over, or discarded with a queue - and events wait and are handed *)
(* over in the order they came, however request() and next_event() calls   *)
(* interleave with the daemon and with their own deadlines.                *)
THEOREM EventsSafe == Spec => [](NoEventVanishes /\ EventsInOrder)
<1>1. Init => TypeOK /\ EventInv
  BY InitType, InitEvents
<1>2. TypeOK /\ EventInv /\ [Next]_vars => (TypeOK /\ EventInv)'
  BY StepType, StepEvents
<1>3. EventInv => NoEventVanishes /\ EventsInOrder
  BY DEF EventInv
<1> QED BY <1>1, <1>2, <1>3, PTL DEF Spec

-----------------------------------------------------------------------------
(* WpaCtrl implements EventStream *)

Waiting == Buffered \cup RxEvents

(* A step that leaves the events where they are, or only moves one from    *)
(* the socket to _events, is a stuttering step of EventStream.             *)
LEMMA StreamStutters ==
  ASSUME Waiting' = Waiting, UNCHANGED <<accepted, taken>>
  PROVE  UNCHANGED Stream!vars
BY DEF Stream!vars, Waiting

LEMMA StreamUntouched ==
  ASSUME UNCHANGED <<rx, events, accepted, taken>>
  PROVE  UNCHANGED Stream!vars
BY StreamStutters DEF Waiting, Buffered, RxEvents

(* Handing over the oldest event is Deliver. *)
LEMMA StreamDelivers ==
  ASSUME TypeOK, EventInv, NEW e, Waiting = Waiting' \cup {e},
         \A f \in Waiting' : e < f, taken' = taken \cup {e}, accepted' = accepted
  PROVE  Stream!Deliver
<1>1. e \in Waiting /\ \A f \in Waiting : f \in Nat
  BY EventBounds DEF EventInv, Waiting
<1>2. e \notin Waiting' /\ \A f \in Waiting : e <= f
  BY <1>1
<1>3. Waiting' = Waiting \ {e}
  BY <1>2
<1> QED BY <1>1, <1>2, <1>3 DEF Stream!Deliver, Waiting

(* Losing the queue, or everything, is Discard. *)
LEMMA StreamDiscards ==
  ASSUME UNCHANGED <<accepted, taken>>, Waiting' \subseteq Waiting,
         \A e \in Waiting', f \in Waiting \ Waiting' : e < f
  PROVE  Stream!Discard
BY DEF Stream!Discard, Waiting

LEMMA CallStepStream ==
  ASSUME TypeOK, EventInv, CallStep
  PROVE  Stream!Next \/ UNCHANGED Stream!vars
<1>1. CASE RequestSend BY <1>1, StreamUntouched DEF RequestSend
<1>2. CASE SendTimesOut BY <1>2, StreamUntouched DEF SendTimesOut
<1>3. CASE SendRefused
  <2>1. RxEvents' = {} /\ Buffered' = Buffered /\ UNCHANGED <<accepted, taken>>
    BY <1>3, EmptyIds DEF SendRefused, RxEvents, Buffered
  <2>2. \A e \in Waiting', f \in Waiting \ Waiting' : e < f
    BY <2>1 DEF Waiting, EventInv, EventsInOrder
  <2> QED BY <2>1, <2>2, StreamDiscards DEF Waiting, Stream!Next
<1>4. CASE EnterReceive BY <1>4, StreamUntouched DEF EnterReceive
<1>5. CASE ReceiveReply
  <2>1. RxEvents' = RxEvents /\ UNCHANGED <<events, accepted, taken>>
    BY <1>5, ReplyTakenOff DEF ReceiveReply, Receiving, Rest
  <2> QED BY <2>1, StreamStutters DEF Waiting, Buffered
<1>6. CASE ReceiveEvent
  <2>1. /\ rx # << >> /\ rx \in Seq(Message) /\ IsEvent(Head(rx)) /\ rx' = Tail(rx)
        /\ events' = Append(events, Head(rx).id) /\ events \in Seq(Nat)
        /\ UNCHANGED <<accepted, taken>>
    BY <1>6 DEF ReceiveEvent, LookAtDeadline, Receiving, Rest, SetAside, TypeOK
  <2>2. RxEvents = RxEvents' \cup {Head(rx).id} /\ Head(rx).id \in Nat
    BY <2>1, EventTakenOff, FirstMessage
  <2>3. Buffered' = Buffered \cup {Head(rx).id}
    BY <2>1, <2>2, MembersOfAppend DEF Buffered
  <2> QED BY <2>1, <2>2, <2>3, StreamStutters DEF Waiting
<1>7. CASE ReceiveTimesOut BY <1>7, StreamUntouched DEF ReceiveTimesOut
<1>8. CASE ReceiveWouldBlock BY <1>8, StreamUntouched DEF ReceiveWouldBlock
<1>9. CASE NextTake
  <2>1. /\ rx # << >> /\ IsEvent(Head(rx)) /\ rx' = Tail(rx) /\ events' = << >>
        /\ events = << >> /\ accepted' = accepted /\ taken' = taken \cup {Head(rx).id}
    BY <1>9 DEF NextTake, Rest, EventInv, SocketOnlyWhenNoneSetAside
  <2>2. Buffered = {} /\ Buffered' = {} /\ RxEvents = RxEvents' \cup {Head(rx).id}
    BY <2>1, EmptyIds, EventTakenOff DEF Buffered
  <2>3. \A f \in RxEvents' : Head(rx).id < f
    BY <2>1, EventTakenOff DEF EventInv, EventsInOrder
  <2> QED BY <2>1, <2>2, <2>3, StreamDelivers DEF Waiting, Stream!Next
<1>10. CASE NextDiscard
  <2>1. RxEvents' = RxEvents /\ UNCHANGED <<events, accepted, taken>>
    BY <1>10, ReplyTakenOff DEF NextDiscard, Rest
  <2> QED BY <2>1, StreamStutters DEF Waiting, Buffered
<1>11. CASE NextNone BY <1>11, StreamUntouched DEF NextNone
<1> QED
  BY <1>1, <1>2, <1>3, <1>4, <1>5, <1>6, <1>7, <1>8, <1>9, <1>10, <1>11
  DEF CallStep

LEMMA CallerStream ==
  ASSUME TypeOK, EventInv, Caller
  PROVE  Stream!Next \/ UNCHANGED Stream!vars
<1>1. CASE Open BY <1>1, StreamUntouched DEF Open
<1>2. CASE Close
  <2>1. Waiting' = {} /\ UNCHANGED <<accepted, taken>>
    BY <1>2, EmptyIds DEF Close, Waiting, RxEvents, Buffered
  <2> QED BY <2>1, StreamDiscards DEF Stream!Next
<1>3. CASE RequestUnopened BY <1>3, StreamUntouched DEF RequestUnopened
<1>4. CASE NextBuffered
  <2>1. /\ events # << >> /\ events \in Seq(Nat) /\ events' = Tail(events)
        /\ taken' = taken \cup {Head(events)} /\ UNCHANGED <<rx, accepted>>
    BY <1>4 DEF NextBuffered, TypeOK
  <2>2. Buffered = Buffered' \cup {Head(events)} /\ RxEvents' = RxEvents
    BY <2>1, MembersOfTail DEF RxEvents, Buffered
  <2>3. \A f \in Buffered' : Head(events) < f
    BY <2>1, IncreasingTail DEF EventInv, EventsInOrder, Buffered
  <2>4. \A f \in RxEvents : Head(events) < f
    BY <2>2 DEF EventInv, EventsInOrder
  <2> QED BY <2>1, <2>2, <2>3, <2>4, StreamDelivers DEF Waiting, Stream!Next
<1>5. ASSUME NEW verb \in Verbs, NEW timeout \in Timeouts, RequestStart(verb, timeout)
      PROVE  UNCHANGED Stream!vars
  BY <1>5, StreamUntouched DEF RequestStart
<1>6. ASSUME NEW timeout \in Timeouts, NextStart(timeout)
      PROVE  UNCHANGED Stream!vars
  BY <1>6, StreamUntouched DEF NextStart
<1> QED BY <1>1, <1>2, <1>3, <1>4, <1>5, <1>6 DEF Caller

LEMMA DaemonStream ==
  ASSUME TypeOK, EventInv, Daemon
  PROVE  Stream!Next \/ UNCHANGED Stream!vars
<1> USE DEF clientVars
<1>1. CASE Emit
  <2>1. /\ rx' = Append(rx, EventMsg(accepted + 1)) /\ accepted \in Nat
        /\ accepted' = accepted + 1 /\ UNCHANGED <<events, taken>>
    BY <1>1 DEF Emit, TypeOK
  <2>2. Waiting' = Waiting \cup {accepted + 1}
    BY <2>1, EventArrives DEF Waiting, Buffered
  <2> QED BY <2>1, <2>2 DEF Stream!Next, Stream!Arrive, Waiting
<1>2. CASE EmitFails BY <1>2, StreamUntouched DEF EmitFails
<1>3. CASE Stop BY <1>3, StreamUntouched DEF Stop
<1>4. CASE Start BY <1>4, StreamUntouched DEF Start
<1>5. ASSUME NEW text \in Texts, Serve(text) PROVE UNCHANGED Stream!vars
  <2>1. UNCHANGED <<events, accepted, taken>>
    BY <1>5 DEF Serve
  <2>2. CASE Deliverable
    <3>1. rx' = Append(rx, Reply(Head(dq).id, text)) /\ Head(dq).id \in Nat
      BY <1>5, <2>2, FirstCommand DEF Serve, TypeOK
    <3>2. RxEvents' = RxEvents
      BY <3>1, ReplyArrives
    <3> QED BY <2>1, <3>2, StreamStutters DEF Waiting, Buffered
  <2>3. CASE ~Deliverable BY <1>5, <2>1, <2>3, StreamUntouched DEF Serve
  <2> QED BY <2>2, <2>3
<1> QED BY <1>1, <1>2, <1>3, <1>4, <1>5 DEF Daemon

LEMMA StepStream ==
  TypeOK /\ EventInv /\ [Next]_vars => [Stream!Next]_(Stream!vars)
<1> SUFFICES ASSUME TypeOK, EventInv, [Next]_vars
             PROVE  Stream!Next \/ UNCHANGED Stream!vars
  OBVIOUS
<1>1. CASE Tick BY <1>1, StreamUntouched DEF Tick
<1>2. CASE UNCHANGED vars BY <1>2, StreamUntouched DEF vars
<1> QED BY <1>1, <1>2, CallStepStream, CallerStream, DaemonStream DEF Next

LEMMA InitStream == Init => Stream!Init
BY EmptyIds DEF Init, Stream!Init, Buffered, RxEvents

(* The connection hands its events over as EventStream promises: each at   *)
(* most once, oldest first, losing only whole tails of the waiting ones.   *)
THEOREM EventsImplementStream == Spec => ImplementsEventStream
<1>1. Init => TypeOK /\ EventInv
  BY InitType, InitEvents
<1>2. TypeOK /\ EventInv /\ [Next]_vars => (TypeOK /\ EventInv)'
  BY StepType, StepEvents
<1> QED BY <1>1, <1>2, InitStream, StepStream, PTL
        DEF Spec, ImplementsEventStream, Stream!Spec

-----------------------------------------------------------------------------
(* Replies: consumed once and in order, and to the right request until one *)
(* is given up on                                                          *)

Commands == Ids(dq, "command")

(* The replies queued at the client, then the commands queued at the       *)
(* daemon, form one sequence of increasing numbers, all newer than the     *)
(* last reply consumed and none newer than the request in progress.        *)
PipeInv ==
  /\ IdsIncreasing(rx, "reply") /\ IdsIncreasing(dq, "command")
  /\ \A r \in RxReplies, c \in Commands : r < c
  /\ \A i \in Outstanding :
        /\ i \in Nat /\ lastReply < i /\ i <= cmd.id
        /\ pc = "send" => i < cmd.id
  /\ cmd.id = issued /\ lastReply <= cmd.id
  /\ pc \in {"send", "loop", "recv"} => lastReply < cmd.id

(* A step that moves no datagram, starts no call and ends none badly.      *)
LEMMA PipeUntouched ==
  ASSUME PipeInv, UNCHANGED <<rx, dq, lastReply, cmd, issued>>,
         pc' = "send" => pc = "send",
         pc' \in {"loop", "recv"} => pc \in {"loop", "recv"}
  PROVE  PipeInv'
BY DEF PipeInv, Outstanding, RxReplies, Commands

LEMMA CommandIdType ==
  ASSUME TypeOK PROVE cmd.id \in Nat /\ issued \in Nat /\ lastReply \in Nat
BY DEF TypeOK, Command

LEMMA CallStepPipe == ASSUME TypeOK, PipeInv, CallStep PROVE PipeInv'
<1> USE CommandIdType
<1>1. CASE RequestSend
  <2>1. /\ dq' = Append(dq, cmd) /\ pc = "send" /\ pc' = "loop"
        /\ UNCHANGED <<rx, lastReply, cmd, issued>>
    BY <1>1 DEF RequestSend
  <2>2. \A i \in Outstanding : i < cmd.id
    BY <2>1 DEF PipeInv
  <2>3. Commands' = Commands \cup {cmd.id} /\ RxReplies' = RxReplies
    BY <2>1, CommandArrives DEF Commands, RxReplies
  <2>4. IdsIncreasing(dq', "command")
    BY <2>1, <2>2, CommandArrives DEF PipeInv, Outstanding
  <2>5. Outstanding' = Outstanding \cup {cmd.id}
    BY <2>3 DEF Outstanding, Commands
  <2>6. \A r \in RxReplies', c \in Commands' : r < c
    BY <2>2, <2>3 DEF PipeInv, Outstanding
  <2>7. lastReply < cmd.id
    BY <2>1 DEF PipeInv
  <2> QED BY <2>1, <2>4, <2>5, <2>6, <2>7 DEF PipeInv
<1>2. CASE SendTimesOut BY <1>2, PipeUntouched DEF SendTimesOut, Return, daemonVars
<1>3. CASE SendRefused
  <2>1. /\ rx' = << >> /\ RxReplies' = {} /\ pc' = "idle"
        /\ UNCHANGED <<dq, lastReply, cmd, issued>>
    BY <1>3, EmptyIds DEF SendRefused, Return, daemonVars, RxReplies
  <2>2. IdsIncreasing(rx', "reply")
    BY <2>1 DEF IdsIncreasing
  <2> QED BY <2>1, <2>2 DEF PipeInv, Outstanding, Commands
<1>4. CASE EnterReceive BY <1>4, PipeUntouched DEF EnterReceive, daemonVars
<1>5. CASE ReceiveReply
  <2>1. /\ rx # << >> /\ ~IsEvent(Head(rx)) /\ rx' = Tail(rx) /\ pc' = "idle"
        /\ lastReply' = Head(rx).id /\ UNCHANGED <<dq, cmd, issued>>
    BY <1>5 DEF ReceiveReply, Receiving, Rest, Return, daemonVars
  <2> QED BY <2>1, ReplyTakenOff DEF PipeInv, Outstanding, Commands
<1>6. CASE ReceiveEvent
  <2>1. /\ rx # << >> /\ IsEvent(Head(rx)) /\ rx' = Tail(rx) /\ pc' \in {"idle", "loop"}
        /\ pc \in {"loop", "recv"} /\ UNCHANGED <<dq, lastReply, cmd, issued>>
    BY <1>6 DEF ReceiveEvent, LookAtDeadline, Receiving, Rest, GiveUp, Return, daemonVars
  <2>2. RxReplies' = RxReplies /\ IdsIncreasing(rx', "reply")
    BY <2>1, EventTakenOff DEF PipeInv
  <2> QED BY <2>1, <2>2 DEF PipeInv, Outstanding, Commands
<1>7. CASE ReceiveTimesOut
  BY <1>7, PipeUntouched DEF ReceiveTimesOut, GiveUp, Return, daemonVars
<1>8. CASE ReceiveWouldBlock
  BY <1>8, PipeUntouched DEF ReceiveWouldBlock, GiveUp, Return, daemonVars
<1>9. CASE NextTake
  <2>1. /\ rx # << >> /\ IsEvent(Head(rx)) /\ rx' = Tail(rx) /\ pc' = "idle"
        /\ UNCHANGED <<dq, lastReply, cmd, issued>>
    BY <1>9 DEF NextTake, Rest, Return, daemonVars
  <2>2. RxReplies' = RxReplies /\ IdsIncreasing(rx', "reply")
    BY <2>1, EventTakenOff DEF PipeInv
  <2> QED BY <2>1, <2>2 DEF PipeInv, Outstanding, Commands
<1>10. CASE NextDiscard
  <2>1. /\ rx # << >> /\ ~IsEvent(Head(rx)) /\ rx' = Tail(rx) /\ pc' \in {"idle", "next"}
        /\ lastReply' = Head(rx).id /\ UNCHANGED <<dq, cmd, issued>>
    BY <1>10 DEF NextDiscard, Rest, Return, daemonVars
  <2> QED BY <2>1, ReplyTakenOff DEF PipeInv, Outstanding, Commands
<1>11. CASE NextNone BY <1>11, PipeUntouched DEF NextNone, Return, daemonVars
<1> QED
  BY <1>1, <1>2, <1>3, <1>4, <1>5, <1>6, <1>7, <1>8, <1>9, <1>10, <1>11
  DEF CallStep

LEMMA CallerPipe == ASSUME TypeOK, PipeInv, Caller PROVE PipeInv'
<1> USE CommandIdType DEF daemonVars
<1>1. CASE Open BY <1>1, PipeUntouched DEF Open
<1>2. CASE Close
  <2>1. /\ rx' = << >> /\ RxReplies' = {} /\ pc' = "idle"
        /\ UNCHANGED <<dq, lastReply, cmd, issued>>
    BY <1>2, EmptyIds DEF Close, RxReplies
  <2>2. IdsIncreasing(rx', "reply")
    BY <2>1 DEF IdsIncreasing
  <2> QED BY <2>1, <2>2 DEF PipeInv, Outstanding, Commands
<1>3. CASE RequestUnopened BY <1>3, PipeUntouched DEF RequestUnopened, Return
<1>4. CASE NextBuffered BY <1>4, PipeUntouched DEF NextBuffered, Return
<1>5. ASSUME NEW verb \in Verbs, NEW timeout \in Timeouts,
             RequestStart(verb, timeout)
      PROVE PipeInv'
  <2>1. /\ cmd'.id = issued + 1 /\ issued' = issued + 1 /\ pc' = "send"
        /\ UNCHANGED <<rx, dq, lastReply>>
    BY <1>5 DEF RequestStart, CommandMsg
  <2>2. Outstanding' = Outstanding /\ RxReplies' = RxReplies /\ Commands' = Commands
    BY <2>1 DEF Outstanding, RxReplies, Commands
  <2> QED BY <2>1, <2>2 DEF PipeInv
<1>6. ASSUME NEW timeout \in Timeouts, NextStart(timeout) PROVE PipeInv'
  BY <1>6, PipeUntouched DEF NextStart, Return
<1> QED BY <1>1, <1>2, <1>3, <1>4, <1>5, <1>6 DEF Caller

LEMMA DaemonPipe == ASSUME TypeOK, PipeInv, Daemon PROVE PipeInv'
<1> USE CommandIdType DEF clientVars
<1>1. CASE Emit
  <2>1. /\ rx' = Append(rx, EventMsg(accepted + 1)) /\ accepted + 1 \in Nat
        /\ UNCHANGED <<dq, lastReply, cmd, issued, pc>>
    BY <1>1 DEF Emit, TypeOK, daemonVars
  <2>2. RxReplies' = RxReplies /\ IdsIncreasing(rx', "reply")
    BY <2>1, EventArrives DEF PipeInv
  <2> QED BY <2>1, <2>2 DEF PipeInv, Outstanding, Commands
<1>2. CASE EmitFails BY <1>2, PipeUntouched DEF EmitFails
<1>3. CASE Stop
  <2>1. /\ dq' = << >> /\ Commands' = {} /\ RxReplies' = RxReplies
        /\ UNCHANGED <<rx, lastReply, cmd, issued, pc>>
    BY <1>3, EmptyIds DEF Stop, Commands, RxReplies
  <2>2. IdsIncreasing(dq', "command")
    BY <2>1 DEF IdsIncreasing
  <2> QED BY <2>1, <2>2 DEF PipeInv, Outstanding, Commands
<1>4. CASE Start BY <1>4, PipeUntouched DEF Start
<1>5. ASSUME NEW text \in Texts, Serve(text) PROVE PipeInv'
  <2> DEFINE c == Head(dq).id
  <2>1. /\ dq # << >> /\ dq' = Tail(dq) /\ UNCHANGED <<lastReply, cmd, issued, pc>>
    BY <1>5 DEF Serve
  <2>2. /\ Commands = Commands' \cup {c} /\ IdsIncreasing(dq', "command")
        /\ \A d \in Commands' : c < d
    BY <2>1, CommandTakenOff DEF PipeInv, Commands
  <2>3. c \in Nat
    BY <2>1, FirstCommand DEF TypeOK
  <2>4. \A r \in RxReplies : r < c
    BY <2>2 DEF PipeInv
  <2>5. CASE Deliverable
    <3>1. rx' = Append(rx, Reply(c, text))
      BY <1>5, <2>5 DEF Serve
    <3> HIDE DEF c
    <3>2. RxReplies' = RxReplies \cup {c} /\ IdsIncreasing(rx', "reply")
      BY <2>3, <2>4, <3>1, ReplyArrives DEF PipeInv
    <3>3. Outstanding' = Outstanding
      BY <2>2, <3>2 DEF Outstanding, Commands
    <3>4. \A r \in RxReplies', d \in Commands' : r < d
      BY <2>2, <3>2 DEF PipeInv
    <3> QED BY <2>1, <2>2, <3>2, <3>3, <3>4 DEF PipeInv
  <2>6. CASE ~Deliverable
    <3>1. UNCHANGED rx
      BY <1>5, <2>6 DEF Serve
    <3> HIDE DEF c
    <3>2. RxReplies' = RxReplies /\ Outstanding' \subseteq Outstanding
      BY <2>2, <3>1 DEF Outstanding, Commands, RxReplies
    <3> QED BY <2>1, <2>2, <3>1, <3>2 DEF PipeInv
  <2> QED BY <2>5, <2>6
<1> QED BY <1>1, <1>2, <1>3, <1>4, <1>5 DEF Daemon

LEMMA StepPipe == TypeOK /\ PipeInv /\ [Next]_vars => PipeInv'
<1> SUFFICES ASSUME TypeOK, PipeInv, [Next]_vars PROVE PipeInv'
  OBVIOUS
<1>1. CASE Tick BY <1>1, PipeUntouched DEF Tick, daemonVars
<1>2. CASE UNCHANGED vars BY <1>2, PipeUntouched DEF vars
<1> QED BY <1>1, <1>2, CallStepPipe, CallerPipe, DaemonPipe DEF Next

LEMMA InitPipe == Init => PipeInv
<1> SUFFICES ASSUME Init PROVE PipeInv
  OBVIOUS
<1>1. Outstanding = {} /\ RxReplies = {} /\ Commands = {}
  BY EmptyIds DEF Init, Outstanding, RxReplies, Commands
<1>2. cmd.id = 0 /\ issued = 0 /\ lastReply = 0 /\ pc = "idle"
  BY DEF Init, CommandMsg
<1> QED BY <1>1, <1>2 DEF Init, PipeInv, IdsIncreasing

(* With no stray reply due, a step either leaves none due, or is the end   *)
(* of a request that raises - and that is on record.                       *)
LEMMA PipeOnlyShrinks ==
  ASSUME Outstanding' \subseteq Outstanding, UNCHANGED cmd, Stale = {},
         pc \in {"loop", "recv"} => pc' \in {"loop", "recv"}
  PROVE  Stale' = {}
BY DEF Stale, InFlight

Surrendered == Ends({"timeout", "connError"}) /\ "abandoned" \in trouble'

LEMMA CallStepStale ==
  ASSUME TypeOK, PipeInv, CallStep, Stale = {}
  PROVE  Stale' = {} \/ Surrendered
<1> USE DEF Return
<1>1. CASE RequestSend
  <2>1. /\ dq' = Append(dq, cmd) /\ pc = "send" /\ pc' = "loop" /\ UNCHANGED <<rx, cmd>>
    BY <1>1 DEF RequestSend
  <2>2. Outstanding' = Outstanding \cup {cmd.id}
    BY <2>1, CommandArrives DEF Outstanding, RxReplies
  <2>3. InFlight = {} /\ InFlight' = {cmd.id}
    BY <2>1 DEF InFlight
  <2> QED BY <2>2, <2>3 DEF Stale
<1>2. CASE SendTimesOut
  BY <1>2, PipeOnlyShrinks DEF SendTimesOut, Outstanding, RxReplies, daemonVars
<1>3. CASE SendRefused
  BY <1>3, EmptyIds, PipeOnlyShrinks DEF SendRefused, Outstanding, RxReplies, daemonVars
<1>4. CASE EnterReceive
  BY <1>4, PipeOnlyShrinks DEF EnterReceive, Outstanding, RxReplies, daemonVars
<1>5. CASE ReceiveReply
  <2>1. /\ rx # << >> /\ ~IsEvent(Head(rx)) /\ rx' = Tail(rx) /\ pc' = "idle"
        /\ pc \in {"loop", "recv"} /\ UNCHANGED <<dq, cmd>>
    BY <1>5 DEF ReceiveReply, Receiving, Rest, daemonVars
  <2>2. /\ RxReplies = RxReplies' \cup {Head(rx).id}
        /\ \A r \in RxReplies' : Head(rx).id < r
    BY <2>1, ReplyTakenOff DEF PipeInv
  <2>3. \A c \in Commands : Head(rx).id < c
    BY <2>2 DEF PipeInv
  <2>4. Outstanding \subseteq {cmd.id} /\ Head(rx).id = cmd.id /\ cmd.id \in Nat
    BY <2>1, <2>2, CommandIdType DEF Stale, InFlight, Outstanding
  <2>5. Outstanding' = RxReplies' \cup Commands
    BY <2>1 DEF Outstanding, Commands
  <2>6. Outstanding' \subseteq {cmd.id} /\ \A i \in Outstanding' : cmd.id < i
    BY <2>2, <2>3, <2>4, <2>5 DEF Outstanding, Commands
  <2> QED BY <2>4, <2>6 DEF Stale
<1>6. CASE ReceiveEvent
  <2>1. /\ rx # << >> /\ IsEvent(Head(rx)) /\ rx' = Tail(rx) /\ UNCHANGED <<dq, cmd>>
        /\ pc \in {"loop", "recv"}
    BY <1>6 DEF ReceiveEvent, LookAtDeadline, Receiving, Rest, daemonVars
  <2>2. Outstanding' = Outstanding
    BY <2>1, EventTakenOff DEF Outstanding
  <2>3. CASE expired
    BY <1>6, <2>1, <2>3 DEF ReceiveEvent, LookAtDeadline, GiveUp, Surrendered, Ends
  <2>4. CASE ~expired
    BY <1>6, <2>1, <2>2, <2>4, PipeOnlyShrinks DEF ReceiveEvent, LookAtDeadline
  <2> QED BY <2>3, <2>4
<1>7. CASE ReceiveTimesOut
  BY <1>7 DEF ReceiveTimesOut, GiveUp, Surrendered, Ends
<1>8. CASE ReceiveWouldBlock
  BY <1>8 DEF ReceiveWouldBlock, GiveUp, Surrendered, Ends
<1>9. CASE NextTake
  <2>1. /\ rx # << >> /\ IsEvent(Head(rx)) /\ rx' = Tail(rx) /\ UNCHANGED <<dq, cmd>>
        /\ pc = "next"
    BY <1>9 DEF NextTake, Rest, daemonVars
  <2> QED BY <2>1, EventTakenOff, PipeOnlyShrinks DEF Outstanding
<1>10. CASE NextDiscard
  <2>1. /\ rx # << >> /\ ~IsEvent(Head(rx)) /\ rx' = Tail(rx) /\ UNCHANGED <<dq, cmd>>
        /\ pc = "next"
    BY <1>10 DEF NextDiscard, Rest, daemonVars
  <2> QED BY <2>1, ReplyTakenOff, PipeOnlyShrinks DEF Outstanding
<1>11. CASE NextNone
  BY <1>11, PipeOnlyShrinks DEF NextNone, Outstanding, RxReplies, daemonVars
<1> QED
  BY <1>1, <1>2, <1>3, <1>4, <1>5, <1>6, <1>7, <1>8, <1>9, <1>10, <1>11
  DEF CallStep

LEMMA CallerStale ==
  ASSUME TypeOK, PipeInv, Caller, Stale = {} PROVE Stale' = {}
<1> USE DEF Outstanding, RxReplies, daemonVars
<1>1. CASE Open BY <1>1, PipeOnlyShrinks DEF Open
<1>2. CASE Close BY <1>2, EmptyIds, PipeOnlyShrinks DEF Close
<1>3. CASE RequestUnopened BY <1>3, PipeOnlyShrinks DEF RequestUnopened
<1>4. CASE NextBuffered BY <1>4, PipeOnlyShrinks DEF NextBuffered
<1>5. ASSUME NEW verb \in Verbs, NEW timeout \in Timeouts,
             RequestStart(verb, timeout)
      PROVE Stale' = {}
  BY <1>5 DEF RequestStart, Stale, InFlight
<1>6. ASSUME NEW timeout \in Timeouts, NextStart(timeout) PROVE Stale' = {}
  BY <1>6, PipeOnlyShrinks DEF NextStart
<1> QED BY <1>1, <1>2, <1>3, <1>4, <1>5, <1>6 DEF Caller

LEMMA DaemonStale ==
  ASSUME TypeOK, PipeInv, Daemon, Stale = {} PROVE Stale' = {}
<1> USE DEF clientVars
<1>1. CASE Emit
  <2>1. /\ rx' = Append(rx, EventMsg(accepted + 1)) /\ accepted + 1 \in Nat
        /\ UNCHANGED <<dq, cmd, pc>>
    BY <1>1 DEF Emit, TypeOK, daemonVars
  <2> QED BY <2>1, EventArrives, PipeOnlyShrinks DEF Outstanding
<1>2. CASE EmitFails
  BY <1>2, PipeOnlyShrinks DEF EmitFails, Outstanding, RxReplies
<1>3. CASE Stop
  BY <1>3, EmptyIds, PipeOnlyShrinks DEF Stop, Outstanding, RxReplies
<1>4. CASE Start BY <1>4, PipeOnlyShrinks DEF Start, Outstanding, RxReplies
<1>5. ASSUME NEW text \in Texts, Serve(text) PROVE Stale' = {}
  <2>1. dq # << >> /\ dq' = Tail(dq) /\ UNCHANGED <<cmd, pc>>
    BY <1>5 DEF Serve
  <2>2. Commands = Commands' \cup {Head(dq).id} /\ Head(dq).id \in Nat
    BY <2>1, CommandTakenOff, FirstCommand DEF Commands, TypeOK
  <2>3. RxReplies' \subseteq RxReplies \cup {Head(dq).id}
    <3>1. CASE Deliverable
      BY <1>5, <2>2, <3>1, ReplyArrives DEF Serve
    <3>2. CASE ~Deliverable
      BY <1>5, <3>2 DEF Serve, RxReplies
    <3> QED BY <3>1, <3>2
  <2>4. Outstanding' \subseteq Outstanding
    BY <2>2, <2>3 DEF Outstanding, Commands
  <2> QED BY <2>1, <2>4, PipeOnlyShrinks
<1> QED BY <1>1, <1>2, <1>3, <1>4, <1>5 DEF Daemon

LEMMA StepStale ==
  TypeOK /\ PipeInv /\ Stale = {} /\ [Next]_vars => Stale' = {} \/ Surrendered
<1> SUFFICES ASSUME TypeOK, PipeInv, Stale = {}, [Next]_vars
             PROVE  Stale' = {} \/ Surrendered
  OBVIOUS
<1>1. CASE Tick
  BY <1>1, PipeOnlyShrinks DEF Tick, Outstanding, RxReplies, daemonVars
<1>2. CASE UNCHANGED vars
  BY <1>2, PipeOnlyShrinks DEF vars, Outstanding, RxReplies
<1> QED BY <1>1, <1>2, CallStepStale, CallerStale, DaemonStale DEF Next

(* Only a received reply ends a call with an answer. *)
LEMMA OnlyRepliesAnswer ==
  ASSUME [Next]_vars, Ends(Answered) PROVE ReceiveReply
<1> USE DEF Ends, Answered, Return, GiveUp
<1>1. CASE CallStep
  BY <1>1 DEF CallStep, RequestSend, SendTimesOut, SendRefused, EnterReceive,
              ReceiveEvent, LookAtDeadline, ReceiveTimesOut, ReceiveWouldBlock, NextTake,
              NextDiscard, NextNone
<1>2. CASE Caller
  BY <1>2 DEF Caller, Open, Close, RequestUnopened, NextBuffered, RequestStart, NextStart
<1>3. CASE Daemon
  BY <1>3 DEF Daemon, Emit, EmitFails, Stop, Start, Serve, clientVars
<1>4. CASE Tick BY <1>4 DEF Tick
<1>5. CASE UNCHANGED vars BY <1>5 DEF vars
<1> QED BY <1>1, <1>2, <1>3, <1>4, <1>5 DEF Next

(* Between calls an answer stays what it was. *)
LEMMA AnswerStays ==
  ASSUME [Next]_vars, pc = "idle", pc' = "idle", out'.kind \in Answered
  PROVE  out' = out /\ cmd' = cmd
<1> USE DEF Answered, Return
<1>1. CASE CallStep
  BY <1>1 DEF CallStep, RequestSend, SendTimesOut, SendRefused, EnterReceive,
              ReceiveReply, ReceiveEvent, LookAtDeadline, Receiving, ReceiveTimesOut,
              ReceiveWouldBlock, NextTake, NextDiscard, NextNone
<1>2. CASE Caller
  <2>1. ASSUME NEW verb \in Verbs, NEW timeout \in Timeouts,
               RequestStart(verb, timeout)
        PROVE FALSE
    BY <2>1 DEF RequestStart
  <2>2. ASSUME NEW timeout \in Timeouts, NextStart(timeout) PROVE FALSE
    BY <2>2 DEF NextStart
  <2> QED BY <1>2, <2>1, <2>2
          DEF Caller, Open, Close, RequestUnopened, NextBuffered
<1>3. CASE Daemon
  BY <1>3 DEF Daemon, Emit, EmitFails, Stop, Start, Serve, clientVars
<1>4. CASE Tick BY <1>4 DEF Tick
<1>5. CASE UNCHANGED vars BY <1>5 DEF vars
<1> QED BY <1>1, <1>2, <1>3, <1>4, <1>5 DEF Next

(* The record of faults only grows. *)
LEMMA TroubleGrows == ASSUME [Next]_vars PROVE trouble \subseteq trouble'
<1>1. CASE CallStep
  BY <1>1 DEF CallStep, RequestSend, SendTimesOut, SendRefused, EnterReceive,
              ReceiveReply, ReceiveEvent, LookAtDeadline, ReceiveTimesOut, ReceiveWouldBlock,
              NextTake, NextDiscard, NextNone, GiveUp
<1>2. CASE Caller
  BY <1>2 DEF Caller, Open, Close, RequestUnopened, NextBuffered, RequestStart, NextStart
<1>3. CASE Daemon
  BY <1>3 DEF Daemon, Emit, EmitFails, Stop, Start, Serve
<1>4. CASE Tick BY <1>4 DEF Tick
<1>5. CASE UNCHANGED vars BY <1>5 DEF vars
<1> QED BY <1>1, <1>2, <1>3, <1>4, <1>5 DEF Next

(* What the reply a request returns can be. *)
LEMMA AnswerWasDue ==
  ASSUME TypeOK, PipeInv, [Next]_vars, Ends(Answered)
  PROVE  /\ lastReply < out'.re /\ out'.re <= cmd.id
         /\ cmd' = cmd /\ trouble' = trouble
         /\ Stale = {} => out'.re = cmd.id
<1>1. /\ rx # << >> /\ ~IsEvent(Head(rx)) /\ rx' = Tail(rx)
      /\ pc \in {"loop", "recv"} /\ out'.re = Head(rx).id
      /\ cmd' = cmd /\ trouble' = trouble
  BY OnlyRepliesAnswer DEF ReceiveReply, Receiving, Rest, Return
<1>2. Head(rx).id \in Outstanding
  BY <1>1, ReplyTakenOff DEF Outstanding
<1>3. Stale = {} => Outstanding \subseteq {cmd.id}
  BY <1>1 DEF Stale, InFlight
<1> QED BY <1>1, <1>2, <1>3 DEF PipeInv

ReplyInv ==
  /\ PipeInv
  /\ "abandoned" \notin trouble => Stale = {}
  /\ RepliesMatchUntilAbandoned

LEMMA StepReply == TypeOK /\ ReplyInv /\ [Next]_vars => ReplyInv'
<1> SUFFICES ASSUME TypeOK, ReplyInv, [Next]_vars PROVE ReplyInv'
  OBVIOUS
<1>1. PipeInv'
  BY StepPipe DEF ReplyInv
<1>2. ASSUME "abandoned" \notin trouble' PROVE Stale' = {}
  BY <1>2, TroubleGrows, StepStale DEF ReplyInv, Surrendered
<1>3. ASSUME "abandoned" \notin trouble', pc' = "idle", out'.kind \in Answered
      PROVE  out'.re = cmd'.id
  <2>1. "abandoned" \notin trouble
    BY <1>3, TroubleGrows
  <2>2. CASE pc = "idle"
    BY <1>3, <2>1, <2>2, AnswerStays DEF ReplyInv, RepliesMatchUntilAbandoned
  <2>3. CASE pc # "idle"
    BY <1>3, <2>1, <2>3, AnswerWasDue DEF ReplyInv, Ends
  <2> QED BY <2>2, <2>3
<1> QED BY <1>1, <1>2, <1>3 DEF ReplyInv, RepliesMatchUntilAbandoned

LEMMA InitReply == Init => ReplyInv
<1> SUFFICES ASSUME Init PROVE ReplyInv
  OBVIOUS
<1>1. Stale = {}
  BY EmptyIds DEF Init, Stale, Outstanding, RxReplies
<1> QED BY <1>1, InitPipe DEF Init, ReplyInv, RepliesMatchUntilAbandoned, Answered

LEMMA ReplySafety == Spec => [](TypeOK /\ ReplyInv)
<1>1. Init => TypeOK /\ ReplyInv
  BY InitType, InitReply
<1>2. TypeOK /\ ReplyInv /\ [Next]_vars => (TypeOK /\ ReplyInv)'
  BY StepType, StepReply
<1> QED BY <1>1, <1>2, PTL DEF Spec

(* Until some request raises while its reply may still come, every request *)
(* returns the reply to its own command: no interleaving with events, no   *)
(* close(), open() or daemon restart shifts the pairing.                   *)
THEOREM RepliesMatch == Spec => []RepliesMatchUntilAbandoned
<1>1. ReplyInv => RepliesMatchUntilAbandoned
  BY DEF ReplyInv
<1> QED BY <1>1, ReplySafety, PTL

(* Even afterwards, request() and next_event() never see a reply twice or  *)
(* out of order, nor one to a command not yet sent.                        *)
THEOREM RepliesOnce == Spec => RepliesConsumedOnce
<1>1. TypeOK /\ ReplyInv /\ [Next]_vars
        => [Ends(Answered) => lastReply < out'.re /\ out'.re <= cmd.id]_vars
  BY AnswerWasDue DEF ReplyInv
<1> QED BY <1>1, ReplySafety, PTL DEF Spec, RepliesConsumedOnce

(* And a connection that owes nobody a reply is in step, and falls out of  *)
(* step only in a request that raises.                                     *)
THEOREM SyncLost == Spec => SyncLostOnlyByError
<1>1. TypeOK /\ ReplyInv /\ [Next]_vars
        => [/\ Stale = {} /\ Ends(Answered) => out'.re = cmd.id
            /\ Stale = {} /\ Stale' # {} => Ends({"timeout", "connError"})]_vars
  BY AnswerWasDue, StepStale DEF ReplyInv, Surrendered
<1> QED BY <1>1, ReplySafety, PTL DEF Spec, SyncLostOnlyByError

(* next_event() comes back without an event in two ways only: it found the *)
(* socket empty, or threw away a stray reply.                              *)
LEMMA NoneFoundOrThrownAway ==
  ASSUME [Next]_vars, Ends({"noEvent"})
  PROVE  \/ NextNone
         \/ NextDiscard
<1> USE DEF Ends, Return, GiveUp
<1>1. CASE CallStep
  <2>1. CASE ReceiveReply BY <2>1 DEF ReceiveReply, Verdict
  <2> QED BY <1>1, <2>1
          DEF CallStep, RequestSend, SendTimesOut, SendRefused, EnterReceive,
              ReceiveEvent, LookAtDeadline, ReceiveTimesOut, ReceiveWouldBlock, NextTake
<1>2. CASE Caller
  BY <1>2 DEF Caller, Open, Close, RequestUnopened, NextBuffered, RequestStart, NextStart
<1>3. CASE Daemon
  BY <1>3 DEF Daemon, Emit, EmitFails, Stop, Start, Serve, clientVars
<1>4. CASE Tick BY <1>4 DEF Tick
<1>5. CASE UNCHANGED vars BY <1>5 DEF vars
<1> QED BY <1>1, <1>2, <1>3, <1>4, <1>5 DEF Next

(* A stray reply is one to a command no call waits for. *)
LEMMA DiscardedIsStale ==
  ASSUME TypeOK, NextDiscard PROVE Stale # {}
<1>1. /\ rx # << >> /\ ~IsEvent(Head(rx)) /\ rx' = Tail(rx) /\ pc = "next"
  BY DEF NextDiscard, Rest
<1>2. Head(rx).id \in RxReplies
  BY <1>1, ReplyTakenOff
<1> QED BY <1>1, <1>2 DEF Stale, InFlight, Outstanding

(* Whoever drains a connection while pending() is true, as the recipe for  *)
(* event loops says, gets an event every time, unless a request has been   *)
(* given up on.                                                            *)
THEOREM PendingIsHonest == Spec => PendingMeansEvent
<1>1. ASSUME TypeOK, EventInv, ReplyInv, [Next]_vars,
             Ends({"noEvent"}), "abandoned" \notin trouble
      PROVE  ~Pending
  <2>1. CASE NextNone
    BY <1>1, <2>1 DEF NextNone, Pending, EventInv, SocketOnlyWhenNoneSetAside
  <2>2. CASE NextDiscard
    BY <1>1, <2>2, DiscardedIsStale DEF ReplyInv
  <2> QED BY <1>1, <2>1, <2>2, NoneFoundOrThrownAway
<1>2. TypeOK /\ ReplyInv /\ EventInv /\ [Next]_vars
        => [Ends({"noEvent"}) /\ "abandoned" \notin trouble => ~Pending]_vars
  BY <1>1
<1>3. TypeOK /\ EventInv /\ [Next]_vars => EventInv'
  BY StepEvents
<1>4. Init => EventInv
  BY InitEvents
<1> QED BY <1>2, <1>3, <1>4, ReplySafety, PTL DEF Spec, PendingMeansEvent
-----------------------------------------------------------------------------
(* The subscription: attached is what the daemon has on its list           *)

Clean == trouble \cap {"abandoned", "stopped", "dropped"} = {}

(* What a connection that takes itself for attached, or not, may believe. *)
Says(belief) ==
  /\ belief => monitors
  /\ "closed" \notin trouble => (belief <=> monitors)

(* The belief is right, or the answer that will make it right is queued: a *)
(* command waits at the daemon, its reply waits at the client.             *)
MonitorInv ==
  Clean =>
    /\ RxReplies = {} => Says(attached)
    /\ \A m \in Members(rx) : m.kind = "reply" => Says(AttachedAfter(cmd.verb, m.text))
    /\ \A c \in Members(dq) : c.verb = cmd.verb

LEMMA MonitorUntouched ==
  ASSUME MonitorInv, UNCHANGED <<rx, dq, cmd, attached, monitors, trouble>>
  PROVE  MonitorInv'
BY DEF MonitorInv, Clean, Says, RxReplies, AttachedAfter

(* What is queued has its number among those of its queue. *)
LEMMA QueuedIsNumbered ==
  ASSUME TypeOK
  PROVE  /\ \A m \in Members(rx) : m.kind = "reply" => m.id \in RxReplies
         /\ \A c \in Members(dq) : c.id \in Commands
<1>1. \A i \in DOMAIN dq : dq[i] \in Command
  BY DEF TypeOK
<1>2. \A c \in Members(dq) : c.kind = "command"
  BY <1>1 DEF Members, Command
<1> QED BY <1>2 DEF Members, RxReplies, Commands, Ids

(* With no stray reply due, nothing is queued but what the request in      *)
(* progress is owed, and that once.                                        *)
LEMMA OneAnswerDue ==
  ASSUME TypeOK, PipeInv, Stale = {}
  PROVE  /\ RxReplies \subseteq InFlight /\ Commands \subseteq InFlight
         /\ RxReplies = {} \/ Commands = {}
<1>1. RxReplies \subseteq InFlight /\ Commands \subseteq InFlight
  BY DEF Stale, Outstanding, Commands
<1>2. \A r \in RxReplies, c \in Commands : r < c /\ r = c
  BY <1>1 DEF PipeInv, InFlight
<1>3. \A r \in RxReplies, c \in Commands : FALSE
  BY <1>2, CommandIdType, <1>1 DEF InFlight
<1> QED BY <1>1, <1>3

LEMMA CallStepMonitor ==
  ASSUME TypeOK, ReplyInv, MonitorInv, CallStep, trouble' = trouble, Clean
  PROVE  MonitorInv'
<1> USE DEF Return, daemonVars
<1>1. /\ PipeInv /\ Stale = {} /\ rx \in Seq(Message) /\ dq \in Seq(Command) /\ cmd \in Command
      /\ RxReplies = {} => Says(attached)
      /\ \A m \in Members(rx) : m.kind = "reply" => Says(AttachedAfter(cmd.verb, m.text))
      /\ \A c \in Members(dq) : c.verb = cmd.verb
  BY DEF ReplyInv, MonitorInv, Clean, TypeOK
<1>2. rx # << >> => Head(rx) \in Members(rx) /\ Members(Tail(rx)) \subseteq Members(rx)
  BY <1>1, MembersOfTail
<1>3. CASE RequestSend
  <2>1. /\ UNCHANGED <<rx, cmd, attached, monitors>> /\ dq' = Append(dq, cmd)
    BY <1>3 DEF RequestSend
  <2>2. Members(dq') = Members(dq) \cup {cmd}
    BY <1>1, <2>1, MembersOfAppend
  <2> QED BY <1>1, <2>1, <2>2 DEF MonitorInv, Says, RxReplies, AttachedAfter
<1>4. CASE SendTimesOut BY <1>4, MonitorUntouched DEF SendTimesOut
<1>5. CASE SendRefused
  <2>1. /\ UNCHANGED <<dq, cmd, attached, monitors>> /\ rx' = << >> /\ pc = "send"
    BY <1>5 DEF SendRefused
  <2>2. RxReplies = {}
    BY <1>1, <2>1, OneAnswerDue DEF InFlight
  <2>3. Members(rx') = {}
    BY <2>1, EmptyIds
  <2> QED BY <1>1, <2>1, <2>2, <2>3 DEF MonitorInv, Says
<1>6. CASE EnterReceive BY <1>6, MonitorUntouched DEF EnterReceive
<1>7. CASE ReceiveReply
  <2>1. /\ UNCHANGED <<dq, cmd, monitors>> /\ rx' = Tail(rx) /\ rx # << >>
        /\ ~IsEvent(Head(rx)) /\ attached' = AttachedAfter(cmd.verb, Head(rx).text)
    BY <1>7 DEF ReceiveReply, Receiving, Rest
  <2>2. Head(rx).kind = "reply"
    BY <1>1, <2>1, FirstMessage, MessageKinds
  <2>3. Says(attached')
    BY <1>1, <1>2, <2>1, <2>2
  <2>4. \A m \in Members(rx') : m.kind = "reply" => m \in Members(rx)
    BY <1>2, <2>1
  <2>5. RxReplies' = {}
    <3>1. \A r \in RxReplies' : r \in RxReplies /\ Head(rx).id \in RxReplies /\ Head(rx).id < r
      BY <2>1, ReplyTakenOff, <1>1 DEF PipeInv
    <3>2. \A r \in RxReplies' : r = cmd.id /\ Head(rx).id = cmd.id
      BY <1>1, <3>1, OneAnswerDue DEF InFlight
    <3> QED BY <3>1, <3>2, CommandIdType
  <2>6. \A m \in Members(rx') : m.kind # "reply"
    BY <2>5 DEF Members, RxReplies, Ids
  <2> QED BY <1>1, <2>1, <2>3, <2>6 DEF MonitorInv, Says
<1>8. ASSUME ReceiveEvent \/ NextTake PROVE MonitorInv'
  <2>1. /\ UNCHANGED <<dq, cmd, attached, monitors>> /\ rx' = Tail(rx) /\ rx # << >>
        /\ IsEvent(Head(rx))
    BY <1>8 DEF ReceiveEvent, LookAtDeadline, NextTake, Receiving, Rest
  <2>2. RxReplies' = RxReplies
    BY <2>1, EventTakenOff
  <2>3. Members(rx') \subseteq Members(rx)
    BY <1>2, <2>1
  <2> QED BY <1>1, <2>1, <2>2, <2>3 DEF MonitorInv, Says, AttachedAfter
<1>9. CASE ReceiveTimesOut \/ ReceiveWouldBlock
  BY <1>9 DEF ReceiveTimesOut, ReceiveWouldBlock, GiveUp, Clean
<1>10. CASE NextDiscard BY <1>1, <1>10, DiscardedIsStale
<1>11. CASE NextNone BY <1>11, MonitorUntouched DEF NextNone
<1> QED BY <1>3, <1>4, <1>5, <1>6, <1>7, <1>8, <1>9, <1>10, <1>11 DEF CallStep

LEMMA CallerMonitor ==
  ASSUME TypeOK, ReplyInv, MonitorInv, Caller, Clean
  PROVE  MonitorInv'
<1> USE DEF Return, daemonVars
<1>1. PipeInv /\ Stale = {} /\ \A c \in Members(dq) : c.verb = cmd.verb
  BY DEF ReplyInv, MonitorInv, Clean
<1>2. CASE Open \/ RequestUnopened \/ NextBuffered \/ \E timeout \in Timeouts : NextStart(timeout)
  BY <1>2, MonitorUntouched DEF Open, RequestUnopened, NextBuffered, NextStart
<1>3. CASE Close
  <2>1. /\ UNCHANGED <<dq, cmd, monitors>> /\ rx' = << >> /\ attached' = FALSE
        /\ "closed" \in trouble'
    BY <1>3 DEF Close
  <2>2. Members(rx') = {}
    BY <2>1, EmptyIds
  <2> QED BY <1>1, <2>1, <2>2 DEF MonitorInv, Says
<1>4. ASSUME NEW verb \in Verbs, NEW timeout \in Timeouts, RequestStart(verb, timeout)
      PROVE  MonitorInv'
  <2>1. UNCHANGED <<rx, dq, attached, monitors, trouble>> /\ pc = "idle"
    BY <1>4 DEF RequestStart
  <2>2. RxReplies = {} /\ Commands = {}
    BY <1>1, <2>1, OneAnswerDue DEF InFlight
  <2>3. (\A m \in Members(rx) : m.kind # "reply") /\ Members(dq) = {}
    BY <2>2, QueuedIsNumbered
  <2> QED BY <2>1, <2>2, <2>3 DEF MonitorInv, Clean, Says, RxReplies
<1> QED BY <1>2, <1>3, <1>4 DEF Caller

LEMMA DaemonMonitor ==
  ASSUME TypeOK, ReplyInv, MonitorInv, Daemon, Clean, Clean'
  PROVE  MonitorInv'
<1> USE DEF clientVars, daemonVars
<1>1. /\ PipeInv /\ Stale = {} /\ rx \in Seq(Message) /\ dq \in Seq(Command) /\ accepted \in Nat
      /\ RxReplies = {} => Says(attached)
      /\ \A m \in Members(rx) : m.kind = "reply" => Says(AttachedAfter(cmd.verb, m.text))
      /\ \A c \in Members(dq) : c.verb = cmd.verb
  BY DEF ReplyInv, MonitorInv, Clean, TypeOK
<1>2. CASE Emit
  <2> DEFINE m == EventMsg(accepted + 1)
  <2>1. UNCHANGED <<dq, cmd, attached, monitors, trouble>> /\ rx' = Append(rx, m)
    BY <1>2 DEF Emit
  <2>2. m \in Message /\ m.kind # "reply"
    BY <1>1 DEF EventMsg, Message
  <2>3. RxReplies' = RxReplies
    BY <1>1, <2>1, EventArrives
  <2> HIDE DEF m
  <2>4. Members(rx') = Members(rx) \cup {m}
    BY <1>1, <2>1, <2>2, MembersOfAppend
  <2> QED BY <1>1, <2>1, <2>2, <2>3, <2>4 DEF MonitorInv, Says, AttachedAfter
<1>3. CASE EmitFails \/ Stop BY <1>3 DEF EmitFails, Stop, Clean
<1>4. CASE Start BY <1>4, MonitorUntouched DEF Start
<1>5. ASSUME NEW text \in Texts, Serve(text) PROVE MonitorInv'
  <2> DEFINE m == Reply(Head(dq).id, text)
  <2>1. Deliverable
    BY <1>5 DEF Serve, Clean
  <2>2. /\ UNCHANGED <<cmd, attached, trouble>> /\ rx' = Append(rx, m)
        /\ dq # << >> /\ dq' = Tail(dq)
        /\ monitors' = IF text # "OK" THEN monitors
                       ELSE CASE Head(dq).verb = "ATTACH" -> TRUE
                              [] Head(dq).verb = "DETACH" -> FALSE
                              [] OTHER -> monitors
    BY <1>5, <2>1 DEF Serve
  <2>3. Head(dq) \in Members(dq) /\ Members(dq') \subseteq Members(dq)
    BY <1>1, <2>2, MembersOfTail
  <2>4. Head(dq).verb = cmd.verb /\ Head(dq).id \in Nat
    BY <1>1, <2>2, <2>3, FirstCommand
  <2>5. RxReplies = {}
    BY <1>1, <2>3, OneAnswerDue, QueuedIsNumbered
  <2>6. m \in Message /\ m.kind = "reply" /\ m.text = text
    BY <2>4 DEF Reply, Message
  <2>7. RxReplies' # {}
    BY <2>2, <2>4, ReplyArrives
  <2> HIDE DEF m
  <2>8. Members(rx') = Members(rx) \cup {m}
    BY <1>1, <2>2, <2>6, MembersOfAppend
  <2>9. \A r \in Members(rx) : r.kind # "reply"
    BY <2>5, QueuedIsNumbered
  <2>10. Says(AttachedAfter(cmd.verb, text))'
    <3>1. CASE text = "OK" /\ cmd.verb = "ATTACH"
      BY <2>2, <2>4, <3>1 DEF Says, AttachedAfter
    <3>2. CASE text = "OK" /\ cmd.verb = "DETACH"
      BY <2>2, <2>4, <3>2 DEF Says, AttachedAfter
    <3>3. CASE text # "OK" \/ cmd.verb \notin {"ATTACH", "DETACH"}
      <4>1. monitors' = monitors /\ AttachedAfter(cmd.verb, text)' = attached
        BY <2>2, <2>4, <3>3 DEF AttachedAfter
      <4>2. Says(attached) /\ UNCHANGED <<attached, trouble, monitors>>
        BY <1>1, <2>2, <2>5, <4>1
      <4>3. Says(attached)'
        BY <4>2 DEF Says
      <4> QED BY <2>2, <2>4, <3>3, <4>3 DEF Says, AttachedAfter
    <3> QED BY <3>1, <3>2, <3>3
  <2> QED BY <1>1, <2>2, <2>3, <2>6, <2>7, <2>8, <2>9, <2>10 DEF MonitorInv
<1> QED BY <1>2, <1>3, <1>4, <1>5 DEF Daemon

LEMMA StepMonitor == TypeOK /\ ReplyInv /\ MonitorInv /\ [Next]_vars => MonitorInv'
<1> SUFFICES ASSUME TypeOK, ReplyInv, MonitorInv, [Next]_vars, Clean' PROVE MonitorInv'
  BY DEF MonitorInv
<1>1. Clean
  BY TroubleGrows DEF Clean
<1>2. CASE CallStep
  <2>1. trouble' = trouble
    BY <1>2 DEF CallStep, RequestSend, SendTimesOut, SendRefused, EnterReceive,
       ReceiveReply, ReceiveEvent, LookAtDeadline, ReceiveTimesOut, ReceiveWouldBlock,
       NextTake, NextDiscard, NextNone, GiveUp, Clean
  <2> QED BY <1>1, <1>2, <2>1, CallStepMonitor
<1>3. CASE Caller BY <1>1, <1>3, CallerMonitor
<1>4. CASE Daemon BY <1>1, <1>4, DaemonMonitor
<1>5. CASE Tick BY <1>5, MonitorUntouched DEF Tick, daemonVars
<1>6. CASE UNCHANGED vars BY <1>6, MonitorUntouched DEF vars
<1> QED BY <1>2, <1>3, <1>4, <1>5, <1>6 DEF Next

(* Between calls the client takes itself for attached exactly when the     *)
(* daemon has it on its list, until a request is given up on, the daemon   *)
(* stops or something is dropped; after a close() the daemon may know more *)
(* (client.py:155).                                                        *)
THEOREM SubscriptionKnown == Spec => []AttachedIsMonitored
<1>1. Init => MonitorInv
  BY EmptyIds DEF Init, MonitorInv, Says
<1>2. TypeOK /\ ReplyInv /\ MonitorInv => AttachedIsMonitored
  <2> SUFFICES ASSUME TypeOK, ReplyInv, MonitorInv, pc = "idle", Clean
               PROVE  Says(attached)
    BY DEF AttachedIsMonitored, Clean, Says
  <2>1. RxReplies = {}
    BY OneAnswerDue DEF ReplyInv, Clean, InFlight
  <2> QED BY <2>1 DEF MonitorInv
<1> QED BY <1>1, <1>2, StepMonitor, ReplySafety, PTL DEF Spec
=============================================================================
