-------------------------- MODULE DiscoveryProofs --------------------------
(***************************************************************************)
(* What find_interfaces() and wireless_interfaces() answer, for any set of *)
(* names, whatever comes and goes while they ask their questions.          *)
(***************************************************************************)
EXTENDS Discovery, TLAPS

(* The steps that ask, and those that happen elsewhere, by what they may   *)
(* change: the proofs split the next-state relation along them.            *)
LEMMA SearchFrame == Search => UNCHANGED <<world, setting>>
BY DEF Search, AskGlobal, ListDirectory, Stat, StatDone, Sysfs, Exists,
       Wireless, ExistsDone, ListKernel, Phy80211, Phy80211Done

LEMMA ElsewhereFrame == Elsewhere => UNCHANGED <<setting, search>> /\ pc # "done"
BY DEF Elsewhere

(* What a step elsewhere does to the world: what is steady only shrinks    *)
(* and what has ever been only grows.                                      *)
LEMMA ElsewhereWorld ==
  ASSUME TypeOK, Elsewhere
  PROVE  /\ node' \in [Names -> Nodes]
         /\ serving' \subseteq Names /\ kernel' \subseteq Names
         /\ everSocket \subseteq everSocket' /\ everSocket' \subseteq Names
         /\ everServed \subseteq everServed' /\ everServed' \subseteq Names
         /\ everThere \subseteq everThere' /\ everThere' \subseteq Names
         /\ steady' \subseteq steady
<1> PICK n \in Names : Serve(n) \/ Leave(n) \/ Litter(n) \/ Plug(n) \/ Unplug(n)
  BY DEF Elsewhere
<1> USE DEF TypeOK, Nodes
<1>1. CASE Serve(n)  BY <1>1 DEF Serve
<1>2. CASE Leave(n)  BY <1>2 DEF Leave
<1>3. CASE Litter(n) BY <1>3 DEF Litter
<1>4. CASE Plug(n)   BY <1>4 DEF Plug
<1>5. CASE Unplug(n) BY <1>5 DEF Unplug
<1> QED BY <1>1, <1>2, <1>3, <1>4, <1>5

-----------------------------------------------------------------------------
(* Type correctness *)

LEMMA StepType == TypeOK /\ [Next]_vars => TypeOK'
<1> SUFFICES ASSUME TypeOK, [Next]_vars PROVE TypeOK'
  OBVIOUS
<1>1. CASE Search
  <2> USE <1>1, SearchFrame DEF TypeOK, world, setting
  <2>1. CASE AskGlobal BY <2>1 DEF AskGlobal, Account
  <2>2. CASE ListDirectory BY <2>2 DEF ListDirectory
  <2>3. CASE Stat BY <2>3 DEF Stat, IsSocket
  <2>4. CASE StatDone BY <2>4 DEF StatDone
  <2>5. CASE Sysfs BY <2>5 DEF Sysfs
  <2>6. CASE Exists BY <2>6 DEF Exists, InterfaceExists
  <2>7. CASE Wireless BY <2>7 DEF Wireless
  <2>8. CASE ExistsDone BY <2>8 DEF ExistsDone
  <2>9. CASE ListKernel BY <2>9 DEF ListKernel
  <2>10. CASE Phy80211 BY <2>10 DEF Phy80211
  <2>11. CASE Phy80211Done BY <2>11 DEF Phy80211Done
  <2> QED BY <2>1, <2>2, <2>3, <2>4, <2>5, <2>6, <2>7, <2>8, <2>9, <2>10, <2>11 DEF Search
<1>2. CASE Elsewhere
  BY <1>2, ElsewhereWorld, ElsewhereFrame DEF TypeOK, setting, search
<1>3. CASE UNCHANGED vars
  BY <1>3 DEF TypeOK, vars, world, setting, search
<1> QED BY <1>1, <1>2, <1>3 DEF Next

(* Every variable keeps its type; in particular the result is made of      *)
(* names and of nothing but, save the text of a refusal.                   *)
THEOREM SearchTypeCorrect == Spec => []TypeOK
<1>1. Init => TypeOK
  BY DEF Init, TypeOK
<1> QED BY <1>1, StepType, PTL DEF Spec

-----------------------------------------------------------------------------
(* What is found *)

(* The world as far as the search relies on it. *)
WorldInv ==
    /\ \A n \in Names : node[n] = "socket" => n \in everSocket
    /\ \A n \in serving : node[n] = "socket"
    /\ kernel \subseteq everThere
    /\ steady \subseteq kernel
    /\ asked = "interfaces" => steady \subseteq serving

(* What has passed a test has been there to pass it. *)
Witnessed ==
    /\ names \cup todo \subseteq Names \cup {Refusal}
    /\ asked = "interfaces" => names \subseteq everSocket \cup {Refusal}
    /\ Refusal \in names =>
         global = "refuses" /\ (pc = "sysfs" \/ (pc = "done" /\ ~sysfs))
    /\ pc \in {"stat", "phy80211"} => todo \subseteq Names
    /\ pc \in {"entries", "phy80211"} =>
         /\ asked = "wireless" /\ ~wirelessOnly
         /\ names \subseteq wireless \cap everThere
    /\ pc \in {"global", "list", "stat", "sysfs"} => asked = "interfaces"
    /\ pc \in {"exists", "wireless"} =>
         /\ sysfs /\ asked = "interfaces"
         /\ todo \cup probed \subseteq everSocket \cup {Refusal}
         /\ names \cup probed \subseteq everThere
         /\ wirelessOnly => names \subseteq wireless
    /\ pc # "wireless" => probed = {}
    /\ NoLeftovers

LEMMA WorldStep == TypeOK /\ WorldInv /\ [Next]_vars => WorldInv'
<1> SUFFICES ASSUME TypeOK, WorldInv, [Next]_vars PROVE WorldInv'
  OBVIOUS
<1>1. CASE UNCHANGED <<world, setting>>
  BY <1>1 DEF WorldInv, world, setting
<1>2. CASE Elsewhere
  <2> PICK n \in Names : Serve(n) \/ Leave(n) \/ Litter(n) \/ Plug(n) \/ Unplug(n)
    BY <1>2 DEF Elsewhere
  <2>0. UNCHANGED asked
    BY <1>2, ElsewhereFrame DEF setting
  <2> USE <2>0 DEF TypeOK, WorldInv, Nodes
  <2>1. CASE Serve(n)  BY <2>1 DEF Serve
  <2>2. CASE Leave(n)  BY <2>2 DEF Leave
  <2>3. CASE Litter(n) BY <2>3 DEF Litter
  <2>4. CASE Plug(n)   BY <2>4 DEF Plug
  <2>5. CASE Unplug(n) BY <2>5 DEF Unplug
  <2> QED BY <2>1, <2>2, <2>3, <2>4, <2>5
<1> QED BY <1>1, <1>2, SearchFrame DEF Next, vars

LEMMA WitnessedStep ==
  TypeOK /\ WorldInv /\ Witnessed /\ [Next]_vars => Witnessed'
<1> SUFFICES ASSUME TypeOK, WorldInv, Witnessed, [Next]_vars PROVE Witnessed'
  OBVIOUS
<1>1. CASE Search
  <2> USE <1>1, SearchFrame, RefusalAssumption
          DEF TypeOK, WorldInv, Witnessed, NoLeftovers, world, setting
  <2>1. CASE AskGlobal BY <2>1 DEF AskGlobal, Account
  <2>2. CASE ListDirectory BY <2>2 DEF ListDirectory
  <2>3. CASE Stat BY <2>3 DEF Stat, IsSocket
  <2>4. CASE StatDone BY <2>4 DEF StatDone
  <2>5. CASE Sysfs BY <2>5 DEF Sysfs
  <2>6. CASE Exists BY <2>6 DEF Exists, InterfaceExists, Wanted
  <2>7. CASE Wireless BY <2>7 DEF Wireless, IsWireless
  <2>8. CASE ExistsDone BY <2>8 DEF ExistsDone
  <2>9. CASE ListKernel BY <2>9 DEF ListKernel
  <2>10. CASE Phy80211 BY <2>10 DEF Phy80211, IsWireless
  <2>11. CASE Phy80211Done BY <2>11 DEF Phy80211Done
  <2> QED BY <2>1, <2>2, <2>3, <2>4, <2>5, <2>6, <2>7, <2>8, <2>9, <2>10, <2>11 DEF Search
<1>2. CASE Elsewhere
  BY <1>2, ElsewhereWorld, ElsewhereFrame
     DEF Witnessed, NoLeftovers, TypeOK, setting, search
<1>3. CASE UNCHANGED vars
  BY <1>3 DEF Witnessed, NoLeftovers, vars, world, setting, search
<1> QED BY <1>1, <1>2, <1>3 DEF Next

(* Nothing is found that never was a control socket during the search,     *)
(* unless a daemon refuses INTERFACES where there is no sysfs; nor, with a *)
(* sysfs, what never was an interface of the kernel's, for any names and   *)
(* however they come and go between the system calls.                      *)
THEOREM NothingLeftover == Spec => []NoLeftovers
<1>1. Init => TypeOK /\ WorldInv /\ Witnessed
  BY DEF Init, TypeOK, WorldInv, Witnessed, NoLeftovers
<1>2. TypeOK /\ WorldInv /\ Witnessed /\ [Next]_vars
        => (TypeOK /\ WorldInv /\ Witnessed)'
  BY StepType, WorldStep, WitnessedStep
<1>3. Witnessed => NoLeftovers
  BY DEF Witnessed
<1> QED BY <1>1, <1>2, <1>3, PTL DEF Spec

-----------------------------------------------------------------------------
(* What is missed *)

(* A name that is findable to the last is still to be asked about, or has  *)
(* passed; past the global socket an account may only have been empty.     *)
OnTheWay ==
    Answerable =>
        /\ pc \in {"entries", "phy80211"} <=> asked = "wireless" /\ pc # "done"
        /\ pc = "phy80211" => Findable \subseteq names \cup todo
        /\ pc \in {"list", "stat"} => readable \/ steady = {}
        /\ pc = "stat" => steady \subseteq names \cup todo
        /\ pc = "sysfs" => steady \subseteq names
        /\ pc \in {"exists", "wireless"} =>
             sysfs /\ Findable \subseteq names \cup todo \cup probed
        /\ IF pc = "wireless" THEN wirelessOnly ELSE probed = {}
        /\ Complete

LEMMA FindableShrinks ==
  ASSUME UNCHANGED setting, steady' \subseteq steady
  PROVE  Findable' \subseteq Findable
BY DEF Findable, setting

LEMMA OnTheWayStep ==
  TypeOK /\ WorldInv /\ OnTheWay /\ [Next]_vars => OnTheWay'
<1> SUFFICES ASSUME TypeOK, WorldInv, OnTheWay, [Next]_vars, Answerable PROVE OnTheWay'
  <2>1. [Next]_vars => UNCHANGED setting
    BY SearchFrame, ElsewhereFrame DEF Next, vars
  <2> QED BY <2>1 DEF OnTheWay, Answerable, setting
<1>1. CASE Search
  <2>1. UNCHANGED <<world, setting>> /\ Findable' = Findable /\ Findable \subseteq steady
    BY <1>1, SearchFrame DEF Findable, world, setting
  <2> USE <2>1 DEF TypeOK, WorldInv, OnTheWay, Complete, Answerable, world, setting
  <2>2. CASE AskGlobal BY <2>2 DEF AskGlobal, Account
  <2>3. CASE ListDirectory BY <2>3 DEF ListDirectory
  <2>4. CASE Stat BY <2>4 DEF Stat, IsSocket
  <2>5. CASE StatDone BY <2>5 DEF StatDone
  <2>6. CASE Sysfs BY <2>6 DEF Sysfs
  <2>7. CASE Exists BY <2>7 DEF Exists, InterfaceExists, Wanted
  <2>8. CASE Wireless BY <2>8 DEF Wireless, IsWireless, Findable
  <2>9. CASE ExistsDone BY <2>9 DEF ExistsDone
  <2>10. CASE ListKernel BY <2>10 DEF ListKernel
  <2>11. CASE Phy80211 BY <2>11 DEF Phy80211, IsWireless, Findable
  <2>12. CASE Phy80211Done BY <2>12 DEF Phy80211Done
  <2> QED BY <1>1, <2>2, <2>3, <2>4, <2>5, <2>6, <2>7, <2>8, <2>9, <2>10, <2>11, <2>12 DEF Search
<1>2. CASE Elsewhere
  <2>1. UNCHANGED <<setting, search>> /\ pc # "done" /\ steady' \subseteq steady
    BY <1>2, ElsewhereFrame, ElsewhereWorld
  <2>2. Findable' \subseteq Findable
    BY <2>1, FindableShrinks
  <2> QED BY <2>1, <2>2 DEF OnTheWay, Complete, Answerable, setting, search
<1>3. CASE UNCHANGED vars
  BY <1>3 DEF OnTheWay, Complete, Answerable, Findable, vars, world, setting, search
<1> QED BY <1>1, <1>2, <1>3 DEF Next

(* No name that a daemon served and the kernel had throughout is missed,   *)
(* for any names, on either way the search can take.                       *)
THEOREM NothingMissed == Spec => []Complete
<1>1. Init => TypeOK /\ WorldInv /\ OnTheWay
  BY DEF Init, TypeOK, WorldInv, OnTheWay, Complete, Answerable
<1>2. TypeOK /\ WorldInv /\ OnTheWay /\ [Next]_vars
        => (TypeOK /\ WorldInv /\ OnTheWay)'
  BY StepType, WorldStep, OnTheWayStep
<1>3. OnTheWay => Complete
  BY DEF OnTheWay, Complete, Answerable
<1> QED BY <1>1, <1>2, <1>3, PTL DEF Spec
=============================================================================
