---------------------------- MODULE NetworkWalk ----------------------------
(***************************************************************************)
(* iter_networks() of client.py: LIST_NETWORKS answers in one datagram and *)
(* may be cut short, so the walk asks again with LAST_ID= until a page     *)
(* brings nothing new.  Networks are added and removed meanwhile, by this  *)
(* client between two yields or by anyone else.                            *)
(***************************************************************************)
EXTENDS Naturals, FiniteSets

CONSTANTS
    MaxNetwork,      \* bound: the highest network id
    PageSize         \* the rows one reply holds

ASSUME MaxNetworkAssumption == MaxNetwork \in Nat
ASSUME PageSizeAssumption == PageSize \in Nat \ {0}

Networks == 0 .. MaxNetwork

VARIABLES
    nets,       \* external: the configured networks
    daemon,     \* external: what it makes of LAST_ID=
    asked,      \* the first page has been asked for
    lastId,     \* the LAST_ID= of the next request
    page,       \* the networks of the last page still to be yielded
    listed,     \* the ids of the networks yielded
    paging,     \* "walking", "done", or "raised"
    stayed,     \* history: networks configured ever since the first request
    firstPage,  \* history: the networks of the first page
    requests    \* history: the pages asked for

pagingVars == <<nets, daemon, asked, lastId, page, listed, paging, stayed,
                firstPage, requests>>

(* It continues the list, answers UNKNOWN COMMAND, or takes no notice.     *)
Daemons == {"continues", "refuses", "repeats"}

PagingTypeOK ==
    /\ nets \subseteq Networks /\ daemon \in Daemons /\ asked \in BOOLEAN
    /\ lastId \in Networks /\ page \subseteq Networks /\ listed \subseteq Networks
    /\ paging \in {"walking", "done", "raised"}
    /\ stayed \subseteq Networks /\ firstPage \subseteq Networks
    /\ requests \in Nat

PagingInit ==
    /\ nets \in SUBSET Networks /\ daemon \in Daemons
    /\ asked = FALSE /\ lastId = 0 /\ page = {} /\ listed = {}
    /\ paging = "walking" /\ stayed = nets /\ firstPage = {}
    /\ requests = 0

-----------------------------------------------------------------------------
(* The daemon's list: external to the package *)

(* The networks a reply could list, were there no limit. *)
Candidates ==
    IF ~asked \/ daemon = "repeats" THEN nets
    ELSE {n \in nets : daemon = "continues" /\ n > lastId}

(* A reply lists the first of them, as many as fit. *)
Row(n) == Cardinality({m \in Candidates : m < n}) < PageSize
Reply == {n \in Candidates : Row(n)}

-----------------------------------------------------------------------------
(* The walk *)

(* The rows not yet seen. *)
NewRowsAll == Reply                             \* mutant: seen not looked at
NewRows == Reply \ listed

(* A page of nothing new is the last. *)
LastPageWhenEmpty == Reply = {}                 \* mutant: seen not looked at
LastPage == NewRows = {}

(* Where the next page starts: the id of the last new row. *)
LastOffset(rows) == Cardinality(listed \cup rows) \* mutant: counts rows
LastNext(rows) == 1 + CHOOSE n \in rows : \A m \in rows : m <= n  \* mutant: one beyond
Last(rows) == CHOOSE n \in rows : \A m \in rows : m <= n

(* Whose turn it is in the page. *)
Turn(n) == \A m \in page : n <= m

(* The list is asked for once the last page has been yielded. *)
Request ==
    /\ paging = "walking" /\ page = {}
    /\ page' = NewRows
    /\ paging' = IF LastPage THEN "done" ELSE "walking"
    /\ asked' = TRUE /\ requests' = requests + 1
    /\ lastId' = IF NewRows = {} THEN lastId ELSE Last(NewRows)
    /\ firstPage' = IF asked THEN firstPage ELSE Reply
    /\ UNCHANGED <<nets, daemon, listed, stayed>>

(* The rows of a page are yielded in turn, from what the reply said: the   *)
(* list may have changed since.                                            *)
YieldRow ==
    /\ paging = "walking"
    /\ \E n \in page :
        /\ Turn(n)
        /\ page' = page \ {n} /\ listed' = listed \cup {n}
    /\ UNCHANGED <<nets, daemon, asked, lastId, paging, stayed, firstPage,
                   requests>>

(* request() raised, and the generator with it. *)
PagingRaises ==
    /\ paging = "walking" /\ page = {}
    /\ paging' = "raised"
    /\ UNCHANGED <<nets, daemon, asked, lastId, page, listed, stayed, firstPage,
                   requests>>

-----------------------------------------------------------------------------
(* Add and Remove: external to the package *)

(* The new network has the id after the highest one, which may have been   *)
(* another network's before.                                               *)
AddNetwork ==
    /\ \E n \in Networks :
        /\ \A m \in nets : m < n
        /\ n = 0 \/ n - 1 \in nets
        /\ nets' = nets \cup {n}
        /\ stayed' = IF asked THEN stayed ELSE stayed \cup {n}
    /\ UNCHANGED <<daemon, asked, lastId, page, listed, paging, firstPage,
                   requests>>

RemoveNetwork ==
    /\ \E n \in nets :
        /\ nets' = nets \ {n}
        /\ stayed' = stayed \ {n}
    /\ UNCHANGED <<daemon, asked, lastId, page, listed, paging, firstPage,
                   requests>>

PagingNext == Request \/ YieldRow \/ PagingRaises \/ AddNetwork \/ RemoveNetwork

PagingSpec == PagingInit /\ [][PagingNext]_pagingVars

-----------------------------------------------------------------------------
(* A walk that ends by itself has yielded every network that was           *)
(* configured throughout, however short the pages and whatever was added   *)
(* or removed between two of them; with a daemon that knows no LAST_ID=,   *)
(* at least its first page (client.py:403).                                *)
EveryNetwork ==
    paging = "done" =>
        (IF daemon = "continues" THEN stayed ELSE firstPage) \subseteq listed

(* Networks come in the order of their ids, although an id may be used     *)
(* again while the walk goes on; and none comes twice, even from a daemon  *)
(* that repeats its page.                                                  *)
UpwardOnce ==
    [][/\ page' \cap listed' = {}
       /\ daemon = "continues" =>
            \A n \in listed' \ listed, m \in listed : m < n]_pagingVars

(* Every page but the last brings a network not yielded before, so that a  *)
(* walk asks at most once more than it yields, whatever the daemon makes   *)
(* of LAST_ID= (client.py:400).  It need not end: a network with a higher  *)
(* id added before every page keeps it going.                              *)
EveryPageBringsNew == requests <= Cardinality(listed \cup page) + 1
=============================================================================
