--------------------------- MODULE CommandsProofs ---------------------------
(***************************************************************************)
(* What the wrappers tell a program of its ids, for any number of ids and  *)
(* calls, and whatever other programs do.                                  *)
(***************************************************************************)
EXTENDS Commands, TLAPS

LEMMA TextType == \A t \in {"OK", "refusal", "data"} : Text(t) \in Replies
BY MaxIdAssumption DEF Text, Replies, IdsOf

LEMMA NumberType == \A n \in IdsOf : Number(n) \in Replies
BY DEF Number, Replies

LEMMA VerdictType ==
  ASSUME NEW d \in Disciplines, NEW t PROVE Verdict(d, t) \in Outcomes
BY DEF Disciplines, Outcomes, Verdict

(* A call that does not give up takes the oldest reply: its own, if none   *)
(* was owed.                                                               *)
LEMMA ExchangeType ==
  ASSUME SessionTypeOK, NEW d \in Disciplines, NEW served \in BOOLEAN,
         NEW reply \in Replies, Exchange(d, served, reply)
  PROVE  /\ owed' \in Seq(Replies) /\ calls' \in Nat /\ upset' \subseteq Upsets
         /\ last' \in [discipline : Disciplines, served : BOOLEAN,
                       outcome : Outcomes, id : IdsOf]
<1> DEFINE replies == Append(owed, reply)
<1>1. /\ replies \in Seq(Replies) /\ replies # << >>
      /\ Head(replies) \in Replies /\ Tail(replies) \in Seq(Replies)
  <2>1. owed \in Seq(Replies)
    BY DEF SessionTypeOK
  <2>2. replies \in Seq(Replies) /\ Len(replies) = Len(owed) + 1
    BY <2>1
  <2>3. Len(owed) \in Nat
    BY <2>1
  <2>4. replies # << >>
    BY <2>2, <2>3
  <2> HIDE DEF replies
  <2> QED BY <2>2, <2>4
<1>2. Head(replies).id \in IdsOf
  BY <1>1 DEF Replies
<1>3. 0 \in IdsOf
  BY MaxIdAssumption DEF IdsOf
<1>4. calls' \in Nat
  BY DEF Exchange, SessionTypeOK
<1>5. CASE owed' = Tail(replies) /\ UNCHANGED upset
           /\ last' = [discipline |-> d, served |-> served,
                       outcome |-> Verdict(d, Head(replies).text),
                       id |-> Head(replies).id]
  BY <1>1, <1>2, <1>4, <1>5, VerdictType DEF SessionTypeOK
<1>6. CASE owed' = replies /\ upset' = upset \cup {"abandoned"}
           /\ last' = [discipline |-> d, served |-> served,
                       outcome |-> "timeout", id |-> 0]
  BY <1>1, <1>3, <1>4, <1>6 DEF SessionTypeOK, Outcomes, Upsets
<1> QED BY <1>5, <1>6 DEF Exchange

LEMMA OwnReply ==
  ASSUME owed = << >>, NEW d, NEW served, NEW reply \in Replies,
         Exchange(d, served, reply)
  PROVE  \/ /\ owed' = << >> /\ upset' = upset
            /\ last'.discipline = d /\ last'.served = served
            /\ last'.outcome = Verdict(d, reply.text) /\ last'.id = reply.id
         \/ /\ last'.discipline = d /\ last'.served = served
            /\ last'.outcome = "timeout" /\ upset' = upset \cup {"abandoned"}
<1> DEFINE replies == Append(owed, reply)
<1>1. replies = <<reply>> /\ Head(replies) = reply /\ Tail(replies) = << >>
  OBVIOUS
<1> QED BY <1>1 DEF Exchange

LEMMA UpsetGrows ==
  ASSUME NEW d, NEW served, NEW reply, Exchange(d, served, reply)
  PROVE  upset \subseteq upset'
BY DEF Exchange

-----------------------------------------------------------------------------
(* Type correctness *)

LEMMA RefusableType == ASSUME SessionTypeOK, NEW p, Refusable(p) PROVE SessionTypeOK'
<1> PICK served \in BOOLEAN :
      Exchange("command", served, Text(IF served THEN "OK" ELSE "refusal"))
  BY DEF Refusable
<1> QED BY ExchangeType, TextType DEF Refusable, SessionTypeOK, Disciplines

LEMMA StepType == SessionTypeOK /\ [SessionNext]_sessionVars => SessionTypeOK'
<1> SUFFICES ASSUME SessionTypeOK, [SessionNext]_sessionVars PROVE SessionTypeOK'
  OBVIOUS
<1>1. ASSUME NEW k \in IdKinds, Add(k) PROVE SessionTypeOK'
  <2>1. CASE Exchange("adding", FALSE, Text("refusal"))
             /\ UNCHANGED <<objects, allotted>>
    <3>1. last'.id \in IdsOf /\ owed' \in Seq(Replies) /\ calls' \in Nat
          /\ upset' \subseteq Upsets
          /\ last' \in [discipline : Disciplines, served : BOOLEAN,
                        outcome : Outcomes, id : IdsOf]
      BY <2>1, ExchangeType, TextType DEF Disciplines
    <3> QED BY <1>1, <2>1, <3>1 DEF Add, NoteAdded, SessionTypeOK
  <2>2. ASSUME NEW n \in IdsOf,
               Exchange("adding", TRUE, Number(n)),
               objects' = [objects EXCEPT ![k] = @ \cup {n}],
               allotted' = [allotted EXCEPT ![k] = @ \cup {n}]
        PROVE  SessionTypeOK'
    <3>1. last'.id \in IdsOf /\ owed' \in Seq(Replies) /\ calls' \in Nat
          /\ upset' \subseteq Upsets
          /\ last' \in [discipline : Disciplines, served : BOOLEAN,
                        outcome : Outcomes, id : IdsOf]
      BY <2>2, ExchangeType, NumberType DEF Disciplines
    <3> QED BY <1>1, <2>2, <3>1 DEF Add, NoteAdded, SessionTypeOK
  <2> QED BY <1>1, <2>1, <2>2 DEF Add
<1>2. ASSUME NEW k \in IdKinds, NEW n \in IdsOf, Remove(k, n) PROVE SessionTypeOK'
  <2>1. PICK served \in BOOLEAN, t \in {"OK", "refusal"} :
          Exchange("command", served, Text(t))
    BY <1>2 DEF Remove
  <2>2. /\ owed' \in Seq(Replies) /\ calls' \in Nat /\ upset' \subseteq Upsets
        /\ last' \in [discipline : Disciplines, served : BOOLEAN,
                      outcome : Outcomes, id : IdsOf]
    BY <2>1, ExchangeType, TextType DEF Disciplines
  <2> QED BY <1>2, <2>2 DEF Remove, NoteRemoved, SessionTypeOK
<1>3. ASSUME NEW n \in IdsOf, UseNetwork(n) \/ UseRecord(n) PROVE SessionTypeOK'
  BY <1>3, RefusableType DEF UseNetwork, UseRecord
<1>4. CASE Command BY <1>4, RefusableType DEF Command
<1>5. CASE Ask
  <2> PICK served \in BOOLEAN :
        Exchange("worded", served, Text(IF served THEN "data" ELSE "refusal"))
    BY <1>5 DEF Ask
  <2> QED BY <1>5, ExchangeType, TextType DEF Ask, SessionTypeOK, Disciplines
<1>6. CASE P2pConnect
  <2> PICK t \in {"OK", "data", "refusal"} :
        Exchange("worded", t # "refusal", Text(t))
    BY <1>6 DEF P2pConnect
  <2>1. (t # "refusal") \in BOOLEAN
    OBVIOUS
  <2> QED BY <1>6, <2>1, ExchangeType, TextType DEF P2pConnect, SessionTypeOK, Disciplines
<1>7. CASE Query
  <2> PICK served \in BOOLEAN :
        Exchange("query", served, Text(IF served THEN "data" ELSE "refusal"))
    BY <1>7 DEF Query
  <2> QED BY <1>7, ExchangeType, TextType DEF Query, SessionTypeOK, Disciplines
<1>8. CASE Close
  <2>1. owed' \in Seq(Replies)
    BY <1>8 DEF Close, SessionTypeOK
  <2> QED BY <1>8, <2>1 DEF Close, SessionTypeOK
<1>9. CASE Others
  BY <1>9 DEF Others, SessionTypeOK, Upsets
<1>10. CASE UNCHANGED sessionVars BY <1>10 DEF sessionVars, SessionTypeOK
<1> QED BY <1>1, <1>2, <1>3, <1>4, <1>5, <1>6, <1>7, <1>8, <1>9, <1>10 DEF SessionNext

(* The types of a program's session hold, for any bounds. *)
THEOREM CommandsTypeCorrect == SessionSpec => []SessionTypeOK
<1>1. SessionInit => SessionTypeOK
  BY MaxIdAssumption DEF SessionInit, SessionTypeOK, IdsOf, Disciplines, Outcomes
<1> QED BY <1>1, StepType, PTL DEF SessionSpec

-----------------------------------------------------------------------------
(* The ids a program holds *)

(* Until a request times out nothing is owed, so every call sees its own   *)
(* reply; what is held is then what was allotted.                          *)
InStep ==
    /\ "abandoned" \notin upset => owed = << >> /\ held = allotted
    /\ upset = {} => \A k \in IdKinds : allotted[k] \subseteq objects[k]

LEMMA CallKeepsInStep ==
  ASSUME SessionTypeOK, InStep, NEW d \in Disciplines, NEW served \in BOOLEAN,
         NEW reply \in Replies, Exchange(d, served, reply),
         "abandoned" \notin upset'
  PROVE  /\ "abandoned" \notin upset /\ upset' = upset
         /\ owed = << >> /\ owed' = << >> /\ held = allotted
         /\ last'.outcome = Verdict(d, reply.text) /\ last'.id = reply.id
<1>1. "abandoned" \notin upset
  BY UpsetGrows
<1>2. owed = << >> /\ held = allotted
  BY <1>1 DEF InStep
<1> QED BY <1>1, <1>2, OwnReply

LEMMA StepInStep == SessionTypeOK /\ InStep /\ [SessionNext]_sessionVars => InStep'
<1> SUFFICES ASSUME SessionTypeOK, InStep, [SessionNext]_sessionVars PROVE InStep'
  OBVIOUS
<1>a. ASSUME NEW d \in Disciplines, NEW served \in BOOLEAN, NEW reply \in Replies,
             Exchange(d, served, reply), UNCHANGED <<objects, held, allotted>>
      PROVE  InStep'
  BY <1>a, CallKeepsInStep, UpsetGrows DEF InStep
<1>b. ASSUME NEW p, Refusable(p) PROVE InStep'
  <2> PICK served \in BOOLEAN :
        Exchange("command", served, Text(IF served THEN "OK" ELSE "refusal"))
    BY <1>b DEF Refusable
  <2> QED BY <1>a, <1>b, TextType DEF Refusable, Disciplines
<1>1. ASSUME NEW k \in IdKinds, Add(k) PROVE InStep'
  <2>1. CASE Exchange("adding", FALSE, Text("refusal"))
             /\ UNCHANGED <<objects, allotted>>
    <3>1. "abandoned" \notin upset' =>
            /\ upset' = upset /\ owed' = << >> /\ held = allotted
            /\ last'.outcome = "raised" /\ "abandoned" \notin upset
      BY <2>1, CallKeepsInStep, TextType DEF Verdict, Text, Disciplines
    <3> QED BY <1>1, <2>1, <3>1 DEF Add, NoteAdded, InStep
  <2>2. ASSUME NEW n \in IdsOf,
               Exchange("adding", TRUE, Number(n)),
               objects' = [objects EXCEPT ![k] = @ \cup {n}],
               allotted' = [allotted EXCEPT ![k] = @ \cup {n}]
        PROVE  InStep'
    <3>1. "abandoned" \notin upset' =>
            /\ upset' = upset /\ owed' = << >> /\ held = allotted
            /\ last'.outcome = "id" /\ last'.id = n /\ "abandoned" \notin upset
      BY <2>2, CallKeepsInStep, NumberType DEF Verdict, Number, Disciplines
    <3> QED BY <1>1, <2>2, <3>1 DEF Add, NoteAdded, InStep, SessionTypeOK
  <2> QED BY <1>1, <2>1, <2>2 DEF Add
<1>2. ASSUME NEW k \in IdKinds, NEW n \in IdsOf, Remove(k, n) PROVE InStep'
  <2>1. CASE n \in objects[k]
    <3>1. "abandoned" \notin upset' =>
            /\ upset' = upset /\ owed' = << >> /\ held = allotted
            /\ last'.outcome = "done" /\ "abandoned" \notin upset
      BY <1>2, <2>1, CallKeepsInStep, TextType DEF Remove, Verdict, Text, Disciplines
    <3> QED BY <1>2, <2>1, <3>1 DEF Remove, NoteRemoved, InStep, SessionTypeOK
  <2>2. CASE n \notin objects[k]
    <3>1. "abandoned" \notin upset' =>
            /\ upset' = upset /\ owed' = << >> /\ held = allotted
            /\ last'.outcome = "raised" /\ "abandoned" \notin upset
      BY <1>2, <2>2, CallKeepsInStep, TextType DEF Remove, Verdict, Text, Disciplines
    <3> QED BY <1>2, <2>2, <3>1 DEF Remove, NoteRemoved, InStep
  <2> QED BY <2>1, <2>2
<1>3. ASSUME NEW n \in IdsOf, UseNetwork(n) \/ UseRecord(n) PROVE InStep'
  BY <1>3, <1>b DEF UseNetwork, UseRecord
<1>4. CASE Command BY <1>4, <1>b DEF Command
<1>5. CASE Ask
  <2> PICK served \in BOOLEAN :
        Exchange("worded", served, Text(IF served THEN "data" ELSE "refusal"))
    BY <1>5 DEF Ask
  <2> QED BY <1>a, <1>5, TextType DEF Ask, Disciplines
<1>6. CASE P2pConnect
  <2> PICK t \in {"OK", "data", "refusal"} :
        Exchange("worded", t # "refusal", Text(t))
    BY <1>6 DEF P2pConnect
  <2>1. (t # "refusal") \in BOOLEAN
    OBVIOUS
  <2> QED BY <1>a, <1>6, <2>1, TextType DEF P2pConnect, Disciplines
<1>7. CASE Query
  <2> PICK served \in BOOLEAN :
        Exchange("query", served, Text(IF served THEN "data" ELSE "refusal"))
    BY <1>7 DEF Query
  <2> QED BY <1>a, <1>7, TextType DEF Query, Disciplines
<1>8. CASE Close
  <2>1. owed # << >>
    BY <1>8 DEF Close
  <2> QED BY <1>8, <2>1 DEF Close, InStep
<1>9. CASE Others BY <1>9 DEF Others, InStep
<1>10. CASE UNCHANGED sessionVars BY <1>10 DEF sessionVars, InStep
<1> QED BY <1>1, <1>2, <1>3, <1>4, <1>5, <1>6, <1>7, <1>8, <1>9, <1>10 DEF SessionNext

LEMMA InStepAlways == SessionSpec => [](SessionTypeOK /\ InStep)
<1>1. SessionInit => SessionTypeOK /\ InStep
  BY MaxIdAssumption DEF SessionInit, SessionTypeOK, InStep, IdsOf, Disciplines, Outcomes, Upsets
<1>2. SessionTypeOK /\ InStep /\ [SessionNext]_sessionVars => (SessionTypeOK /\ InStep)'
  BY StepType, StepInStep
<1> QED BY <1>1, <1>2, PTL DEF SessionSpec

(* Until a request times out a program holds exactly the ids the daemon    *)
(* allotted to it, and no refusal or other kind's id among them.           *)
THEOREM ProgramHoldsItsOwn == SessionSpec => []HoldsItsOwn
<1>1. InStep => HoldsItsOwn
  BY DEF InStep, HoldsItsOwn
<1> QED BY <1>1, InStepAlways, PTL

(* And while no other program interferes they all exist in the daemon. *)
THEOREM ProgramHoldsWhatExists == SessionSpec => []HeldExist
<1>1. InStep => HeldExist
  BY DEF InStep, HeldExist
<1> QED BY <1>1, InStepAlways, PTL

-----------------------------------------------------------------------------
(* What a call says *)

Believed == last'.outcome \in {"done", "id", "parsed"}
Honest == calls' # calls /\ owed = << >> /\ last'.discipline # "worded"
            => last'.outcome = "timeout" \/ (Believed <=> last'.served)

(* An exchange is honest if the daemon's answer, read by the discipline,   *)
(* says what the daemon did.                                               *)
LEMMA HonestCall ==
  ASSUME NEW d \in Disciplines, NEW served \in BOOLEAN, NEW reply \in Replies,
         d # "worded" => (Verdict(d, reply.text) \in {"done", "id", "parsed"}
                            <=> served),
         Exchange(d, served, reply)
  PROVE  Honest
BY OwnReply DEF Honest, Believed

LEMMA HonestRefusable == ASSUME NEW p, Refusable(p) PROVE Honest
<1> PICK served \in BOOLEAN :
      Exchange("command", served, Text(IF served THEN "OK" ELSE "refusal"))
  BY DEF Refusable
<1> QED BY HonestCall, TextType DEF Verdict, Text, Disciplines

(* A call made while no reply is owed says what the daemon did, or that it *)
(* waited in vain.                                                         *)
THEOREM CallsTellTheTruth == SessionSpec => TellsTheTruth
<1>1. [SessionNext]_sessionVars => [Honest]_sessionVars
  <2> SUFFICES ASSUME SessionNext PROVE Honest
    OBVIOUS
  <2>1. ASSUME NEW k \in IdKinds, Add(k) PROVE Honest
    <3>1. CASE Exchange("adding", FALSE, Text("refusal"))
      BY <3>1, HonestCall, TextType DEF Verdict, Text, Disciplines
    <3>2. ASSUME NEW n \in IdsOf, Exchange("adding", TRUE, Number(n)) PROVE Honest
      BY <3>2, HonestCall, NumberType DEF Verdict, Number, Disciplines
    <3> QED BY <2>1, <3>1, <3>2 DEF Add
  <2>2. ASSUME NEW k \in IdKinds, NEW n \in IdsOf, Remove(k, n) PROVE Honest
    <3>1. \/ Exchange("command", TRUE, Text("OK"))
          \/ Exchange("command", FALSE, Text("refusal"))
      BY <2>2 DEF Remove
    <3> QED BY <3>1, HonestCall, TextType DEF Verdict, Text, Disciplines
  <2>3. ASSUME NEW n \in IdsOf, UseNetwork(n) \/ UseRecord(n) PROVE Honest
    BY <2>3, HonestRefusable DEF UseNetwork, UseRecord
  <2>4. CASE Command BY <2>4, HonestRefusable DEF Command
  <2>5. CASE Ask
    <3> PICK served \in BOOLEAN :
          Exchange("worded", served, Text(IF served THEN "data" ELSE "refusal"))
      BY <2>5 DEF Ask
    <3> QED BY HonestCall, TextType DEF Disciplines
  <2>6. CASE P2pConnect
    <3> PICK t \in {"OK", "data", "refusal"} :
          Exchange("worded", t # "refusal", Text(t))
      BY <2>6 DEF P2pConnect
    <3> (t # "refusal") \in BOOLEAN
      OBVIOUS
    <3> QED BY HonestCall, TextType DEF Disciplines
  <2>7. CASE Query
    <3> PICK served \in BOOLEAN :
          Exchange("query", served, Text(IF served THEN "data" ELSE "refusal"))
      BY <2>7 DEF Query
    <3> QED BY HonestCall, TextType DEF Verdict, Text, Disciplines
  <2>8. CASE Close \/ Others
    BY <2>8 DEF Close, Others, Honest
  <2> QED BY <2>1, <2>2, <2>3, <2>4, <2>5, <2>6, <2>7, <2>8 DEF SessionNext
<1>2. [Honest]_sessionVars => [calls' # calls /\ owed = << >> /\ last'.discipline # "worded"
         => \/ last'.outcome = "timeout"
            \/ last'.outcome \in {"done", "id", "parsed"} <=> last'.served]_sessionVars
  BY DEF Honest, Believed
<1> QED BY <1>1, <1>2, PTL DEF SessionSpec, TellsTheTruth
=============================================================================
