----------------------------- MODULE KeyedWalk -----------------------------
(***************************************************************************)
(* The one-entry-per-reply walks of client.py: iter_bss(), iter_stations() *)
(* and iter_p2p_peers().  Each is a generator that asks for the first      *)
(* entry and then for the one after the entry it has just yielded, while   *)
(* the daemon's table changes between - and, since the caller may pause    *)
(* at every yield, for as long as it likes.                                *)
(*                                                                         *)
(* An entry is named by its key: a BSS id or a MAC address.  BSS ids are   *)
(* never used again; a station or peer that leaves may come back, at       *)
(* another place in the table.                                             *)
(***************************************************************************)
EXTENDS Naturals, FiniteSets

CONSTANTS
    Entries,    \* the keys that can occur
    Places      \* places in the table

ASSUME EntriesAssumption == Entries \subseteq Nat \ {0}
ASSUME PlacesAssumption == Places \subseteq Nat

FIRST == 0      \* the selector of the first request

VARIABLES
    kind,       \* which walk this is, or that the daemon is broken
    table,      \* external: the entries the daemon holds
    place,      \* external: where each entry stands, or last stood
    gone,       \* external: the entries that have left
    mask,       \* the fields the caller asked for (iter_bss only)
    selector,   \* FIRST, or the entry to ask beyond
    seen,       \* the keys seen, which are those yielded
    status,     \* "walking", "done", or "raised"
    steady,     \* history: entries in the table ever since the first request
    slipped     \* history: the walk's place in the table has been lost

vars == <<kind, table, place, gone, mask, selector, seen, status, steady,
          slipped>>
tableVars == <<table, place, gone>>

(* Entries of iter_bss() never return, those of the two walks by MAC       *)
(* address may; a broken daemon answers with any entry it likes.           *)
Kinds == {"bss", "address", "broken"}

Fields == {"ID", "LEVEL"}

TypeOK ==
    /\ kind \in Kinds /\ table \subseteq Entries /\ place \in [Entries -> Places]
    /\ gone \subseteq Entries /\ mask \subseteq Fields
    /\ selector \in Entries \cup {FIRST} /\ seen \subseteq Entries
    /\ status \in {"walking", "done", "raised"}
    /\ steady \subseteq Entries /\ slipped \in BOOLEAN

Init ==
    /\ kind \in Kinds
    /\ table \in SUBSET Entries
    /\ place \in [Entries -> Places]
    /\ \A e, f \in table : place[e] = place[f] => e = f
    /\ gone = {} /\ mask \in IF kind = "bss" THEN SUBSET Fields ELSE {{}}
    /\ selector = FIRST /\ seen = {} /\ status = "walking"
    /\ steady = table /\ slipped = FALSE

-----------------------------------------------------------------------------
(* The daemon's answers: external to the package *)

(* The entries after the selector; none if the daemon no longer has it. *)
Beyond ==
    IF selector = FIRST THEN table
    ELSE IF selector \in table THEN {e \in table : place[e] > place[selector]}
    ELSE {}

(* The possible answers, as sets of no or one entry. *)
Answers ==
    IF kind = "broken" THEN {{}} \cup {{e} : e \in Entries}
    ELSE IF Beyond = {} THEN {{}}
    ELSE {{e} : e \in {f \in Beyond : \A g \in Beyond : place[f] <= place[g]}}

-----------------------------------------------------------------------------
(* The walk *)

(* iter_bss() adds ID to the mask it was given, for the reply has to carry *)
(* the key; STA and P2P_PEER replies always do.                            *)
AskedAsGiven == mask                            \* mutant: mask passed through
Asked == mask \cup {"ID"}

(* The key read from a reply: none from an empty reply, FAIL or UNKNOWN    *)
(* COMMAND, or from one without the field.                                 *)
KeyOf(answer) == IF kind = "bss" /\ "ID" \notin Asked THEN {} ELSE answer

(* One round trip that brings an entry not seen before: yield it. *)
YieldAny(key) ==                                \* mutant: seen not looked at
    /\ key # {}
    /\ seen' = seen \cup key
    /\ selector' \in key
YieldUnordered(key) ==                          \* mutant: NEXT- of any seen
    /\ key # {} /\ key \cap seen = {}
    /\ seen' = seen \cup key
    /\ selector' \in seen \cup key
YieldIndex(key) ==                              \* mutant: NEXT- of the number after
    /\ key # {} /\ key \cap seen = {}
    /\ seen' = seen \cup key
    /\ selector' \in {e + 1 : e \in key}
Yield(key) ==
    /\ key # {} /\ key \cap seen = {}
    /\ seen' = seen \cup key
    /\ selector' \in key

(* One that brings none, or one seen before: the walk is over.             *)
Over(key) == key = {} \/ key \cap seen # {}

Step ==
    /\ status = "walking"
    /\ \E answer \in Answers :
        \/ /\ Yield(KeyOf(answer))
           /\ UNCHANGED status
        \/ /\ Over(KeyOf(answer))
           /\ status' = "done"
           /\ UNCHANGED <<seen, selector>>
    /\ UNCHANGED <<kind, tableVars, mask, steady, slipped>>

(* request() raised, and the generator with it. *)
Raise ==
    /\ status = "walking"
    /\ status' = "raised"
    /\ UNCHANGED <<kind, tableVars, mask, selector, seen, steady, slipped>>

-----------------------------------------------------------------------------
(* The daemon's table: external to the package *)

Leave(e) ==
    /\ e \in table
    /\ table' = table \ {e} /\ gone' = gone \cup {e}
    /\ steady' = steady \ {e}
    /\ slipped' = (slipped \/ e = selector)
    /\ UNCHANGED <<kind, place, mask, selector, seen, status>>

(* A new BSS goes to the end; a station or peer may go anywhere. *)
Join(e, p) ==
    /\ e \notin table /\ p \in Places
    /\ kind # "bss" \/ (e \notin gone /\ \A f \in table : place[f] < p)
    /\ \A f \in table : place[f] # p
    /\ table' = table \cup {e}
    /\ place' = [place EXCEPT ![e] = p]
    /\ steady' = IF status = "walking" /\ selector = FIRST
                 THEN steady \cup {e} ELSE steady
    /\ slipped' = (slipped \/ e \in seen)
    /\ UNCHANGED <<kind, gone, mask, selector, seen, status>>

Walk == Step \/ Raise
Change == \E e \in Entries : Leave(e) \/ \E p \in Places : Join(e, p)

Next == Walk \/ Change

Spec == Init /\ [][Next]_vars

-----------------------------------------------------------------------------
(* A walk that ends by itself has yielded every entry that was in the      *)
(* table throughout, whatever joined and left meanwhile, unless the entry  *)
(* it stood on left or one it had yielded came back: only then may the     *)
(* tail be missing.  An index would slip on every departure before it.     *)
Complete ==
    status = "done" /\ ~slipped /\ kind # "broken" => steady \subseteq seen

(* The walk never goes back: each entry it yields stands behind all those  *)
(* it has yielded that are still there.                                    *)
Forward ==
    [][\A e \in seen' \ seen, f \in seen \cap table :
          slipped \/ kind = "broken" \/ place[f] < place[e]]_vars
=============================================================================
