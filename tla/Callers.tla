------------------------------ MODULE Callers ------------------------------
(***************************************************************************)
(* What programs do over request(), each on a connection of its own: one   *)
(* walks a table entry by entry (KeyedWalk.tla), one walks the networks    *)
(* page by page (NetworkWalk.tla), one adds, uses and removes by id        *)
(* (Commands.tla).  They share nothing but the form of the composition: a  *)
(* behaviour is of one of them, and the other two do not move.             *)
(***************************************************************************)
EXTENDS KeyedWalk, NetworkWalk, Commands

VARIABLE doing     \* the program this behaviour is of

callerVars == <<vars, pagingVars, sessionVars, doing>>

(* Where the programs that do not move stand. *)
EntriesIdle ==
    /\ kind = "bss" /\ table = {} /\ mask = {}
    /\ \A e, f \in Entries : place[e] = place[f]
PagesIdle == nets = {} /\ daemon = "continues"
IdsIdle == \A k \in IdKinds : objects[k] = {}

CallersInit ==
    /\ doing \in {"entries", "pages", "ids"}
    /\ Init /\ (doing = "entries" \/ EntriesIdle)
    /\ PagingInit /\ (doing = "pages" \/ PagesIdle)
    /\ SessionInit /\ (doing = "ids" \/ IdsIdle)

Alone(program, step, others) == doing = program /\ step /\ UNCHANGED <<others, doing>>

EntryStep == Alone("entries", Step, <<pagingVars, sessionVars>>)

CallersNext ==
    \/ Alone("entries", Next, <<pagingVars, sessionVars>>)
    \/ Alone("pages", PagingNext, <<vars, sessionVars>>)
    \/ Alone("ids", SessionNext, <<vars, pagingVars>>)

(* The caller of a walk keeps taking the next entry. *)
CallersSpec == CallersInit /\ [][CallersNext]_callerVars /\ WF_callerVars(EntryStep)

-----------------------------------------------------------------------------
(* A daemon that answers NEXT with whatever entry it likes, again and      *)
(* again, cannot keep a walk going for ever round the entries there are    *)
(* (client.py:334).                                                        *)
EntriesTerminate == doing = "entries" => <>(status # "walking")
=============================================================================
