------------------------------ MODULE Commands ------------------------------
(***************************************************************************)
(* The wrappers of client.py over request(): what each makes of its reply, *)
(* against what the daemon did.  They differ in their discipline only: a   *)
(* command raises on anything but OK, an adding one on anything but a      *)
(* number, a worded one returns the text whatever it says, and a query     *)
(* parses it, to nothing if it is a refusal.                               *)
(*                                                                         *)
(* Networks and DPP records are known by the ids the daemon allots, and a  *)
(* program keeps them to use and remove what it added.  Other programs     *)
(* (wpa_cli, a second connection) do the same behind its back.  Replies    *)
(* come in order, and a request takes the next one: WpaCtrl.tla says when  *)
(* that is its own.                                                        *)
(***************************************************************************)
EXTENDS Naturals, Sequences, FiniteSets

CONSTANTS
    MaxId,      \* bound: the highest id the daemon allots
    MaxCalls    \* bound: calls of wrappers

ASSUME MaxIdAssumption == MaxId \in Nat
ASSUME MaxCallsAssumption == MaxCalls \in Nat

VARIABLES
    objects,    \* external: the ids in use, by kind
    owed,       \* replies on the way, or waiting in the socket
    calls,      \* wrappers called so far
    last,       \* the last call: its discipline, what the daemon did, the outcome
    held,       \* the ids the program has been given and has not removed
    allotted,   \* history: the ids allotted to its calls and not removed since
    upset       \* history: what has come between the program and its ids

sessionVars == <<objects, owed, calls, last, held, allotted, upset>>

IdsOf == 0 .. MaxId
IdKinds == {"network", "record"}

Disciplines == {"command", "adding", "worded", "query"}
Replies == [text : {"OK", "refusal", "number", "data"}, id : IdsOf]
Outcomes == {"none", "done", "raised", "id", "text", "parsed", "empty", "timeout"}
Upsets == {"abandoned", "others"}

SessionTypeOK ==
    /\ objects \in [IdKinds -> SUBSET IdsOf] /\ owed \in Seq(Replies)
    /\ calls \in Nat
    /\ last \in [discipline : Disciplines, served : BOOLEAN, outcome : Outcomes,
                id : IdsOf]
    /\ held \in [IdKinds -> SUBSET IdsOf] /\ allotted \in [IdKinds -> SUBSET IdsOf]
    /\ upset \subseteq Upsets

SessionInit ==
    /\ objects \in [IdKinds -> SUBSET IdsOf] /\ owed = << >> /\ calls = 0
    /\ last = [discipline |-> "query", served |-> FALSE, outcome |-> "none",
            id |-> 0]
    /\ held = [k \in IdKinds |-> {}] /\ allotted = held /\ upset = {}

Text(t) == [text |-> t, id |-> 0]
Number(n) == [text |-> "number", id |-> n]

-----------------------------------------------------------------------------
(* The disciplines *)

VerdictLax(discipline, text) ==                 \* mutant: command() raises on FAIL only
    CASE discipline = "command" -> IF text = "refusal" THEN "raised" ELSE "done"
      [] discipline = "adding" -> "id"
      [] discipline = "worded" -> "text"
      [] OTHER -> IF text = "data" THEN "parsed" ELSE "empty"
VerdictText(discipline, text) == text           \* mutant: the reply itself
Verdict(discipline, text) ==
    CASE discipline = "command" -> IF text = "OK" THEN "done" ELSE "raised"
      [] discipline = "adding" -> IF text = "number" THEN "id" ELSE "raised"
      [] discipline = "worded" -> "text"
      [] OTHER -> IF text = "data" THEN "parsed" ELSE "empty"

(* One call: the daemon serves the command, or not, and answers.  The call *)
(* takes the first reply there is; or it raises, having waited in vain,    *)
(* and leaves what comes to the next.                                      *)
Exchange(discipline, served, reply) ==
    /\ calls < MaxCalls
    /\ calls' = calls + 1
    /\ LET replies == Append(owed, reply)
       IN  \/ /\ owed' = Tail(replies)
              /\ last' = [discipline |-> discipline, served |-> served,
                          outcome |-> Verdict(discipline, Head(replies).text),
                          id |-> Head(replies).id]
              /\ UNCHANGED upset
           \/ /\ owed' = replies
              /\ last' = [discipline |-> discipline, served |-> served,
                          outcome |-> "timeout", id |-> 0]
              /\ upset' = upset \cup {"abandoned"}

-----------------------------------------------------------------------------
(* Ids *)

(* The daemon allots the id after the highest one in use. *)
Fresh(k, n) ==
    /\ n \notin objects[k] /\ \A m \in objects[k] : m < n
    /\ n = 0 \/ n - 1 \in objects[k]

(* What the program notes of a call that was to add or remove something.   *)
NoteAddedAlways(k) == [held EXCEPT ![k] = @ \cup {last'.id}]   \* mutant: refusal not raised
NoteAdded(k) == IF last'.outcome = "id"
                THEN [held EXCEPT ![k] = @ \cup {last'.id}] ELSE held
NoteRemoved(k, n) == IF last'.outcome = "done"
                     THEN [held EXCEPT ![k] = @ \ {n}] ELSE held

(* add_network(); dpp_configurator_add(), dpp_bootstrap_gen(), the QR and  *)
(* NFC ones and dpp_pkex_add(), through _dpp_id().                         *)
Add(k) ==
    /\ \/ \E n \in IdsOf :
             /\ Fresh(k, n)
             /\ Exchange("adding", TRUE, Number(n))
             /\ objects' = [objects EXCEPT ![k] = @ \cup {n}]
             /\ allotted' = [allotted EXCEPT ![k] = @ \cup {n}]
       \/ /\ Exchange("adding", FALSE, Text("refusal"))
          /\ UNCHANGED <<objects, allotted>>
    /\ held' = NoteAdded(k)

(* remove_network(), dpp_configurator_remove(), dpp_bootstrap_remove(),    *)
(* dpp_pkex_remove().                                                      *)
Remove(k, n) ==
    /\ n \in held[k]
    /\ IF n \in objects[k]
       THEN /\ Exchange("command", TRUE, Text("OK"))
            /\ objects' = [objects EXCEPT ![k] = @ \ {n}]
            /\ allotted' = [allotted EXCEPT ![k] = @ \ {n}]
       ELSE /\ Exchange("command", FALSE, Text("refusal"))
            /\ UNCHANGED <<objects, allotted>>
    /\ held' = NoteRemoved(k, n)

-----------------------------------------------------------------------------
(* Calls that change no ids *)

(* A wrapper around command(): the daemon does it, if it can, or refuses;  *)
(* p2p_find(), p2p_listen(), p2p_invite() and their like are just that.    *)
Refusable(possible) ==
    /\ \E served \in BOOLEAN :
          /\ served => possible
          /\ Exchange("command", served, Text(IF served THEN "OK" ELSE "refusal"))
    /\ UNCHANGED <<objects, held, allotted>>

(* set(), logon(), scan() and their like. *)
Command == Refusable(TRUE)

(* set_network(), enable_network() and their like, on a network the        *)
(* program holds.                                                          *)
UseNetwork(n) == n \in held["network"] /\ Refusable(n \in objects["network"])

(* dpp_configurator_set(), dpp_bootstrap_set(), dpp_auth_init() and their  *)
(* like, on a record the program holds.                                    *)
UseRecord(n) == n \in held["record"] /\ Refusable(n \in objects["record"])

(* get_network(), p2p_get_passphrase(), dpp_bootstrap_get_uri() and their  *)
(* like: the text is the result.                                           *)
Ask ==
    /\ \E served \in BOOLEAN :
          Exchange("worded", served, Text(IF served THEN "data" ELSE "refusal"))
    /\ UNCHANGED <<objects, held, allotted>>

(* So is it for p2p_connect(), which is answered OK, or a PIN, or refused. *)
P2pConnect ==
    /\ \E text \in {"OK", "data", "refusal"} :
          Exchange("worded", text # "refusal", Text(text))
    /\ UNCHANGED <<objects, held, allotted>>

(* mib(), status(), bss(), signal_poll(): a refusal parses to nothing.     *)
Query ==
    /\ \E served \in BOOLEAN :
          Exchange("query", served, Text(IF served THEN "data" ELSE "refusal"))
    /\ UNCHANGED <<objects, held, allotted>>

(* close() drops the replies that have come; those on their way wait for   *)
(* the connection that is opened next, at the same address.                *)
Close ==
    /\ \E n \in 1 .. Len(owed) : owed' = SubSeq(owed, n + 1, Len(owed))
    /\ UNCHANGED <<objects, calls, last, held, allotted, upset>>

-----------------------------------------------------------------------------
(* Other programs: external to the package *)

Others ==
    /\ \E k \in IdKinds, n \in IdsOf :
        \/ Fresh(k, n) /\ objects' = [objects EXCEPT ![k] = @ \cup {n}]
        \/ n \in objects[k] /\ objects' = [objects EXCEPT ![k] = @ \ {n}]
    /\ upset' = upset \cup {"others"}
    /\ UNCHANGED <<owed, calls, last, held, allotted>>

SessionNext ==
    \/ \E k \in IdKinds : Add(k) \/ \E n \in IdsOf : Remove(k, n)
    \/ \E n \in IdsOf : UseNetwork(n) \/ UseRecord(n)
    \/ Command \/ Ask \/ P2pConnect \/ Query \/ Close \/ Others

SessionSpec == SessionInit /\ [][SessionNext]_sessionVars

-----------------------------------------------------------------------------
(* Properties *)

(* As long as no request has timed out, the ids the program holds are      *)
(* those the daemon allotted to it: none was forgotten by a call that      *)
(* raised, none made up from a refusal, none taken for one of the other    *)
(* kind, whatever other programs add and remove meanwhile.                 *)
HoldsItsOwn == "abandoned" \notin upset => held = allotted

(* And they exist, if no other program removes them. *)
HeldExist == upset = {} => \A k \in IdKinds : held[k] \subseteq objects[k]

(* On a connection that owes no reply - never out of step, or closed since *)
(* - what a call says is so: it succeeds exactly if the daemon did what it *)
(* was asked.  (A worded one says nothing of the kind.)                    *)
TellsTheTruth ==
    [][calls' # calls /\ owed = << >> /\ last'.discipline # "worded"
       => \/ last'.outcome = "timeout"
          \/ last'.outcome \in {"done", "id", "parsed"} <=> last'.served]_sessionVars
=============================================================================
