-------------------------- MODULE KeyedWalkProofs --------------------------
(***************************************************************************)
(* What a walk of client.py yields, for every table, however it changes.   *)
(***************************************************************************)
EXTENDS KeyedWalk, TLAPS

-----------------------------------------------------------------------------
(* Type correctness *)

LEMMA AnswerType == TypeOK => \A answer \in Answers : answer \subseteq Entries
BY DEF TypeOK, Answers, Beyond

LEMMA StepType == TypeOK /\ [Next]_vars => TypeOK'
<1> SUFFICES ASSUME TypeOK, [Next]_vars PROVE TypeOK'
  OBVIOUS
<1> USE DEF TypeOK, tableVars
<1>1. CASE Step
  <2>1. PICK answer \in Answers :
          \/ Yield(KeyOf(answer)) /\ UNCHANGED status
          \/ status' = "done" /\ UNCHANGED <<seen, selector>>
    BY <1>1 DEF Step
  <2>2. KeyOf(answer) \subseteq Entries
    BY AnswerType DEF KeyOf
  <2> QED BY <1>1, <2>1, <2>2 DEF Step, Yield
<1>2. CASE Raise BY <1>2 DEF Raise
<1>3. ASSUME NEW e \in Entries, Leave(e) PROVE TypeOK'
  BY <1>3 DEF Leave
<1>4. ASSUME NEW e \in Entries, NEW p \in Places, Join(e, p) PROVE TypeOK'
  BY <1>4 DEF Join
<1>5. CASE UNCHANGED vars BY <1>5 DEF vars
<1> QED BY <1>1, <1>2, <1>3, <1>4, <1>5 DEF Next, Walk, Change

(* Every variable keeps its type; in particular seen holds keys only. *)
THEOREM WalkTypeCorrect == Spec => []TypeOK
<1>1. Init => TypeOK
  BY DEF Init, TypeOK
<1> QED BY <1>1, StepType, PTL DEF Spec

-----------------------------------------------------------------------------
(* Completeness *)

(* While the walk knows its place, what it has yielded lies behind the     *)
(* entry it stands on, and what it still owes lies ahead.                  *)
PlaceInv ==
    /\ steady \subseteq table
    /\ \A e, f \in table : place[e] = place[f] => e = f
    /\ selector = FIRST => seen = {}
    /\ ~slipped /\ selector # FIRST
         => /\ selector \in table
            /\ \A e \in seen \cap table : place[e] <= place[selector]
            /\ \A e \in steady \ seen : place[selector] < place[e]

WalkInv == kind # "broken" => PlaceInv /\ Complete

(* A key yielded by an honest daemon is the next entry of the table. *)
LEMMA YieldNext ==
  ASSUME TypeOK, PlaceInv, kind # "broken", NEW answer \in Answers, NEW e \in KeyOf(answer)
  PROVE  /\ answer = {e} /\ e \in table /\ e \in Beyond
         /\ \A g \in Beyond : place[e] <= place[g]
BY DEF Answers, Beyond, KeyOf, TypeOK

(* A walk that knows its place stops only when nothing lies ahead. *)
LEMMA OverAtEnd ==
  ASSUME TypeOK, PlaceInv, kind # "broken", ~slipped,
         NEW answer \in Answers, Over(KeyOf(answer))
  PROVE  steady \subseteq seen
<1> USE PlacesAssumption DEF TypeOK
<1>1. KeyOf(answer) = answer
  BY DEF KeyOf, Asked
<1>2. CASE Beyond = {}
  BY <1>2 DEF PlaceInv, Beyond
<1>3. CASE Beyond # {}
  <2>1. PICK e \in Beyond : answer = {e}
    BY <1>3 DEF Answers
  <2>2. e \in seen
    BY <1>1, <2>1 DEF Over
  <2>3. selector # FIRST /\ selector \in table /\ e \in table
    BY <2>1, <2>2 DEF PlaceInv, Beyond
  <2>4. place[selector] < place[e] /\ place[e] <= place[selector]
    BY <2>1, <2>2, <2>3 DEF PlaceInv, Beyond
  <2>5. place[selector] \in Nat /\ place[e] \in Nat
    BY <2>3
  <2> QED BY <2>4, <2>5
<1> QED BY <1>2, <1>3

LEMMA StepComplete == TypeOK /\ WalkInv /\ [Next]_vars => WalkInv'
<1> SUFFICES ASSUME TypeOK, kind # "broken", WalkInv, [Next]_vars PROVE WalkInv'
  <2>1. [Next]_vars => kind' = kind
    BY DEF Next, Walk, Change, Step, Raise, Leave, Join, vars
  <2> QED BY <2>1 DEF WalkInv
<1> USE PlacesAssumption, EntriesAssumption DEF WalkInv
<1>1. CASE Step
  <2>1. PICK answer \in Answers :
          \/ Yield(KeyOf(answer)) /\ UNCHANGED status
          \/ Over(KeyOf(answer)) /\ status' = "done" /\ UNCHANGED <<seen, selector>>
    BY <1>1 DEF Step
  <2>2. UNCHANGED <<table, place, steady, slipped>> /\ status = "walking"
    BY <1>1 DEF Step, tableVars
  <2>3. CASE Yield(KeyOf(answer)) /\ UNCHANGED status
    <3>1. PICK e \in KeyOf(answer) : selector' = e
      BY <2>3 DEF Yield
    <3>2. /\ answer = {e} /\ e \in table /\ e \in Beyond
          /\ \A g \in Beyond : place[e] <= place[g]
      BY <3>1, YieldNext
    <3>3. KeyOf(answer) = {e} /\ seen' = seen \cup {e} /\ e \in Entries /\ e # FIRST
      BY <2>3, <3>1, <3>2 DEF Yield, KeyOf, TypeOK, FIRST
    <3>4. \A f \in table : place[f] \in Nat
      BY DEF TypeOK
    <3>5. ASSUME ~slipped, NEW f \in seen \cap table PROVE place[f] <= place[e]
      <4>1. selector # FIRST /\ selector \in table /\ place[f] <= place[selector]
        BY <3>5 DEF PlaceInv
      <4>2. place[selector] < place[e]
        BY <3>2, <4>1 DEF Beyond
      <4> QED BY <3>2, <3>4, <4>1, <4>2
    <3>6. ASSUME ~slipped, NEW f \in steady \ seen, f # e PROVE place[e] < place[f]
      <4>1. f \in table
        BY <3>6 DEF PlaceInv
      <4>2. f \in Beyond
        BY <3>6, <4>1 DEF PlaceInv, Beyond
      <4>3. place[e] <= place[f] /\ place[e] # place[f]
        BY <3>2, <3>6, <4>1, <4>2 DEF PlaceInv
      <4> QED BY <3>2, <3>4, <4>1, <4>3
    <3>7. \A f \in seen' \cap table : ~slipped => place[f] <= place[e]
      BY <3>2, <3>3, <3>4, <3>5
    <3>8. PlaceInv'
      BY <2>2, <3>1, <3>2, <3>3, <3>6, <3>7 DEF PlaceInv
    <3> QED BY <2>2, <2>3, <3>8 DEF Complete
  <2>4. CASE Over(KeyOf(answer)) /\ status' = "done" /\ UNCHANGED <<seen, selector>>
    <3>1. ~slipped => steady \subseteq seen
      BY <2>4, OverAtEnd
    <3> QED BY <2>2, <2>4, <3>1 DEF PlaceInv, Complete
  <2> QED BY <2>1, <2>3, <2>4
<1>2. CASE Raise BY <1>2 DEF Raise, tableVars, PlaceInv, Complete
<1>3. ASSUME NEW e \in Entries, Leave(e) PROVE WalkInv'
  <2>1. PlaceInv'
    BY <1>3 DEF Leave, PlaceInv
  <2> QED BY <1>3, <2>1 DEF Leave, Complete
<1>4. ASSUME NEW e \in Entries, NEW p \in Places, Join(e, p) PROVE WalkInv'
  <2>1. /\ e \notin table /\ table' = table \cup {e} /\ UNCHANGED <<selector, seen, status>>
        /\ slipped' = (slipped \/ e \in seen) /\ \A f \in table : place[f] # p
        /\ steady' = IF status = "walking" /\ selector = FIRST
                     THEN steady \cup {e} ELSE steady
    BY <1>4 DEF Join
  <2>2. place'[e] = p /\ \A f \in table : place'[f] = place[f]
    BY <1>4, <2>1 DEF Join, TypeOK
  <2>3. \A f, g \in table' : place'[f] = place'[g] => f = g
    BY <2>1, <2>2 DEF PlaceInv
  <2>4. ASSUME ~slipped', selector # FIRST
        PROVE  /\ selector \in table'
               /\ \A f \in seen \cap table' : place'[f] <= place'[selector]
               /\ \A f \in steady' \ seen : place'[selector] < place'[f]
    <3>1. ~slipped /\ e \notin seen /\ steady' = steady
      BY <2>1, <2>4
    <3>2. selector \in table /\ steady \subseteq table
      BY <2>4, <3>1 DEF PlaceInv
    <3> QED BY <2>1, <2>2, <2>4, <3>1, <3>2 DEF PlaceInv
  <2>5. steady' \subseteq table'
    BY <2>1 DEF PlaceInv
  <2>6. PlaceInv'
    BY <2>1, <2>3, <2>4, <2>5 DEF PlaceInv
  <2>7. Complete'
    BY <2>1 DEF Complete
  <2> QED BY <2>6, <2>7
<1>5. CASE UNCHANGED vars BY <1>5 DEF vars, PlaceInv, Complete
<1> QED BY <1>1, <1>2, <1>3, <1>4, <1>5 DEF Next, Walk, Change

(* iter_bss(), iter_stations() and iter_p2p_peers() miss no entry that was *)
(* there throughout, for tables of any size and any changes to them, as    *)
(* long as the entry the walk stands on stays and none it yielded returns. *)
THEOREM WalkComplete == Spec => []Complete
<1>1. Init => TypeOK /\ WalkInv
  BY DEF Init, TypeOK, WalkInv, PlaceInv, Complete
<1>2. TypeOK /\ WalkInv /\ [Next]_vars => (TypeOK /\ WalkInv)'
  BY StepType, StepComplete
<1>3. WalkInv => Complete
  BY DEF WalkInv, Complete
<1> QED BY <1>1, <1>2, <1>3, PTL DEF Spec
-----------------------------------------------------------------------------
(* Direction *)

(* Only a round trip yields, and it yields the entry next in the table. *)
LEMMA YieldsNext ==
  ASSUME [Next]_vars, NEW e \in seen' \ seen
  PROVE  \E answer \in Answers : e \in KeyOf(answer)
<1>1. Step
  BY DEF Next, Walk, Change, Raise, Leave, Join, vars
<1>2. PICK answer \in Answers : Yield(KeyOf(answer)) \/ UNCHANGED seen
  BY <1>1 DEF Step
<1> QED BY <1>2 DEF Yield

(* A walk goes through the table in one direction, whatever joins and      *)
(* leaves, as long as it knows its place: no entry is yielded that stands  *)
(* before one yielded already.                                             *)
THEOREM WalkForward == Spec => Forward
<1>1. TypeOK /\ WalkInv /\ [Next]_vars =>
        [\A e \in seen' \ seen, f \in seen \cap table :
            slipped \/ kind = "broken" \/ place[f] < place[e]]_vars
  <2> SUFFICES ASSUME TypeOK, WalkInv, [Next]_vars, ~slipped, kind # "broken",
                      NEW e \in seen' \ seen, NEW f \in seen \cap table
               PROVE  place[f] < place[e]
    OBVIOUS
  <2>1. PlaceInv
    BY DEF WalkInv
  <2>2. e \in table /\ e \in Beyond
    BY <2>1, YieldsNext, YieldNext
  <2>3. selector # FIRST /\ selector \in table /\ place[f] <= place[selector]
    BY <2>1 DEF PlaceInv
  <2>4. place[selector] < place[e]
    BY <2>2, <2>3 DEF Beyond
  <2>5. place[e] \in Nat /\ place[f] \in Nat /\ place[selector] \in Nat
    BY <2>2, <2>3, PlacesAssumption DEF TypeOK
  <2> QED BY <2>3, <2>4, <2>5
<1>2. Init => TypeOK /\ WalkInv
  BY DEF Init, TypeOK, WalkInv, PlaceInv, Complete
<1>3. TypeOK /\ WalkInv /\ [Next]_vars => (TypeOK /\ WalkInv)'
  BY StepType, StepComplete
<1> QED BY <1>1, <1>2, <1>3, PTL DEF Spec, Forward
=============================================================================
