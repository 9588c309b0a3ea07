------------------------- MODULE NetworkWalkProofs -------------------------
(***************************************************************************)
(* What iter_networks() of client.py yields, for every number of networks  *)
(* and pages of every size.                                                *)
(***************************************************************************)
EXTENDS NetworkWalk, FiniteSetTheorems, WellFoundedInduction, TLAPS

-----------------------------------------------------------------------------
(* Sets of ids *)

LEMMA Lowest ==
  ASSUME NEW S \in SUBSET Nat, S # {}
  PROVE  \E n \in S : \A m \in S : n <= m
<1>1. \E n \in S : \A m \in S : ~(m < n)
  <2>1. \E n \in S : \A m \in S : <<m, n>> \notin OpToRel(<, Nat)
    BY NatLessThanWellFounded, WFMin
  <2> QED BY <2>1 DEF OpToRel
<1> QED BY <1>1

LEMMA IdsAreNumbers == Networks \subseteq Nat /\ 0 \in Networks
BY MaxNetworkAssumption DEF Networks

(* The highest id is the lowest one counted from above. *)
LEMMA Highest ==
  ASSUME NEW S \in SUBSET Networks, S # {}
  PROVE  \E n \in S : \A m \in S : m <= n
<1> DEFINE Above == {MaxNetwork - n : n \in S}
<1>1. Above \in SUBSET Nat /\ Above # {}
  <2>1. \A n \in S : MaxNetwork - n \in Nat
    BY MaxNetworkAssumption DEF Networks
  <2> QED BY <2>1
<1>2. PICK a \in Above : \A b \in Above : a <= b
  BY <1>1, Lowest
<1>3. PICK n \in S : a = MaxNetwork - n
  BY <1>2
<1>4. ASSUME NEW m \in S PROVE m <= n
  <2>1. a <= MaxNetwork - m
    BY <1>2
  <2> QED BY <1>3, <2>1, MaxNetworkAssumption DEF Networks
<1> QED BY <1>4

(* So Last() is the highest id of the rows it is given. *)
LEMMA LastIsHighest ==
  ASSUME NEW S \in SUBSET Networks, S # {}
  PROVE  Last(S) \in S /\ \A m \in S : m <= Last(S)
BY Highest DEF Last

-----------------------------------------------------------------------------
(* What a reply lists *)

LEMMA RepliesAreNetworks ==
  ASSUME nets \subseteq Networks
  PROVE  Reply \subseteq Candidates /\ Candidates \subseteq nets
BY DEF Reply, Candidates

(* The networks below a row are finitely many, and no more than those      *)
(* below a later one.                                                      *)
LEMMA FewerBelow ==
  ASSUME nets \subseteq Networks, NEW n \in Networks, NEW k \in Networks, n <= k
  PROVE  LET below(i) == {m \in Candidates : m < i}
         IN  /\ Cardinality(below(n)) \in Nat /\ Cardinality(below(k)) \in Nat
             /\ Cardinality(below(n)) <= Cardinality(below(k))
<1> DEFINE below(i) == {m \in Candidates : m < i}
<1>1. IsFiniteSet(Networks)
  BY MaxNetworkAssumption, FS_Interval DEF Networks
<1>2. below(k) \in SUBSET Networks /\ below(n) \in SUBSET below(k)
  <2>1. below(k) \subseteq Networks /\ below(n) \subseteq Networks
    BY RepliesAreNetworks
  <2>2. ASSUME NEW m \in Candidates, m < n PROVE m < k
    <3>1. m \in Nat /\ n \in Nat /\ k \in Nat
      BY RepliesAreNetworks, IdsAreNumbers
    <3> QED BY <2>2, <3>1
  <2> QED BY <2>1, <2>2
<1>3. IsFiniteSet(below(k)) /\ IsFiniteSet(below(n))
  BY <1>1, <1>2, FS_Subset
<1>4. Cardinality(below(n)) <= Cardinality(below(k))
  BY <1>2, <1>3, FS_Subset
<1>5. Cardinality(below(n)) \in Nat /\ Cardinality(below(k)) \in Nat
  BY <1>3, FS_CardinalityType
<1> QED BY <1>4, <1>5

(* A reply has no gaps: what comes before one of its rows is in it too. *)
LEMMA ReplyHasNoGaps ==
  ASSUME nets \subseteq Networks, NEW k \in Reply, NEW n \in Candidates, n <= k
  PROVE  n \in Reply
<1>1. k \in Networks /\ n \in Networks
  BY RepliesAreNetworks
<1>2. Row(n)
  BY <1>1, FewerBelow, PageSizeAssumption DEF Reply, Row
<1> QED BY <1>2 DEF Reply

(* It is empty only if there is nothing to list. *)
LEMMA EmptyReplyIsTheEnd ==
  ASSUME nets \subseteq Networks, Reply = {}
  PROVE  Candidates = {}
<1> SUFFICES ASSUME Candidates # {} PROVE FALSE
  OBVIOUS
<1>1. Candidates \in SUBSET Nat
  BY RepliesAreNetworks, IdsAreNumbers
<1>2. PICK n \in Candidates : \A m \in Candidates : n <= m
  BY <1>1, Lowest
<1>3. {m \in Candidates : m < n} = {}
  <2>1. \A m \in Candidates : ~(m < n)
    BY <1>1, <1>2
  <2> QED BY <2>1
<1>4. Cardinality({m \in Candidates : m < n}) = 0
  BY <1>3, FS_EmptySet
<1>5. Row(n)
  BY <1>4, PageSizeAssumption DEF Row
<1> QED BY <1>2, <1>5 DEF Reply

-----------------------------------------------------------------------------
(* Type correctness *)

LEMMA StepType == PagingTypeOK /\ [PagingNext]_pagingVars => PagingTypeOK'
<1> SUFFICES ASSUME PagingTypeOK, [PagingNext]_pagingVars PROVE PagingTypeOK'
  OBVIOUS
<1> USE DEF PagingTypeOK
<1>1. CASE Request
  <2>1. NewRows \subseteq Reply /\ Reply \subseteq Networks
    BY RepliesAreNetworks DEF NewRows
  <2>2. NewRows # {} => Last(NewRows) \in Networks
    BY <2>1, LastIsHighest
  <2> QED BY <1>1, <2>1, <2>2 DEF Request
<1>2. CASE YieldRow BY <1>2 DEF YieldRow
<1>3. CASE PagingRaises BY <1>3 DEF PagingRaises
<1>4. CASE AddNetwork BY <1>4 DEF AddNetwork
<1>5. CASE RemoveNetwork BY <1>5 DEF RemoveNetwork
<1>6. CASE UNCHANGED pagingVars BY <1>6 DEF pagingVars
<1> QED BY <1>1, <1>2, <1>3, <1>4, <1>5, <1>6 DEF PagingNext

(* Every variable keeps its type; LAST_ID= is always the id of a network,  *)
(* for a page of nothing new ends the walk and leaves it alone.            *)
THEOREM PagingTypeCorrect == PagingSpec => []PagingTypeOK
<1>1. PagingInit => PagingTypeOK
  BY IdsAreNumbers DEF PagingInit, PagingTypeOK
<1> QED BY <1>1, StepType, PTL DEF PagingSpec

-----------------------------------------------------------------------------
(* Every network, upward, once *)

(* Before the first page nothing has been yielded. *)
Untouched == ~asked => page = {} /\ listed = {} /\ paging # "done"

(* What is to be yielded has not been, and comes after it. *)
Ahead ==
    /\ page \cap listed = {}
    /\ daemon = "continues" => \A n \in page, m \in listed : m < n

(* What has been or is to be yielded is not beyond LAST_ID=; what is owed  *)
(* and not among it is. *)
Placed ==
    asked /\ daemon = "continues" =>
        /\ \A n \in listed \cup page : n <= lastId
        /\ \A n \in stayed \ (listed \cup page) : lastId < n

(* The first page is on its way whatever becomes of the rest. *)
FirstPageComes == asked => firstPage \subseteq listed \cup page

PagingInv ==
    /\ stayed \subseteq nets
    /\ Untouched /\ Ahead /\ Placed /\ FirstPageComes
    /\ EveryNetwork
    /\ paging = "done" => page = {}

(* A new page lists what follows the last one, all of it new to an honest  *)
(* daemon's client.                                                        *)
LEMMA PageFollows ==
  ASSUME PagingTypeOK, PagingInv, daemon = "continues", page = {}
  PROVE  /\ NewRows = Reply
         /\ \A n \in Candidates, m \in listed : m < n
<1>1. \A n \in Candidates, m \in listed : m < n
  <2>1. CASE ~asked BY <2>1 DEF PagingInv, Untouched
  <2>2. CASE asked
    <3>1. \A n \in Candidates : n \in Nat /\ lastId < n
      BY <2>2, RepliesAreNetworks, IdsAreNumbers DEF PagingTypeOK, Candidates
    <3>2. \A m \in listed : m \in Nat /\ m <= lastId
      BY <2>2, IdsAreNumbers DEF PagingTypeOK, PagingInv, Placed
    <3>3. lastId \in Nat
      BY IdsAreNumbers DEF PagingTypeOK
    <3> QED BY <3>1, <3>2, <3>3
  <2> QED BY <2>1, <2>2
<1>2. Reply \cap listed = {}
  <2>1. \A n \in Reply : n \in Nat /\ n \in Candidates
    BY RepliesAreNetworks, IdsAreNumbers DEF PagingTypeOK
  <2> QED BY <1>1, <2>1
<1> QED BY <1>1, <1>2 DEF NewRows

(* One page: what it leaves out is beyond its last row, and an empty one   *)
(* leaves nothing out.                                                     *)
LEMMA RequestPlaces == PagingTypeOK /\ PagingInv /\ Request => Placed'
<1> SUFFICES ASSUME PagingTypeOK, PagingInv, Request, daemon = "continues"
             PROVE  /\ \A n \in listed \cup NewRows : n <= lastId'
                    /\ \A n \in stayed \ (listed \cup NewRows) : lastId' < n
  BY DEF Request, Placed
<1>1. /\ NewRows = Reply
      /\ \A n \in Candidates, m \in listed : m < n
  BY PageFollows DEF Request
<1>2. /\ listed \subseteq Nat /\ Reply \subseteq Networks /\ Reply \subseteq Candidates
      /\ stayed \subseteq Nat /\ lastId \in Nat /\ Networks \subseteq Nat
  BY RepliesAreNetworks, IdsAreNumbers DEF PagingTypeOK
<1>3. CASE Reply = {}
  <2>1. Candidates = {}
    BY <1>3, EmptyReplyIsTheEnd DEF PagingTypeOK
  <2>2. lastId' = lastId /\ page = {}
    BY <1>1, <1>3 DEF Request
  <2>3. CASE asked
    BY <1>1, <1>3, <2>2, <2>3 DEF PagingInv, Placed
  <2>4. CASE ~asked
    <3>1. stayed = {}
      BY <2>1, <2>4 DEF PagingInv, Candidates
    <3>2. listed = {}
      BY <2>4 DEF PagingInv, Untouched
    <3> QED BY <1>1, <1>3, <3>1, <3>2
  <2> QED BY <2>3, <2>4
<1>4. CASE Reply # {}
  <2>1. lastId' = Last(Reply)
    BY <1>1, <1>4 DEF Request
  <2>2. Last(Reply) \in Reply /\ \A m \in Reply : m <= Last(Reply)
    BY <1>2, <1>4, LastIsHighest
  <2>3. ASSUME NEW n \in listed PROVE n <= lastId'
    <3>1. n < Last(Reply)
      BY <1>1, <1>2, <2>2
    <3>2. n \in Nat /\ Last(Reply) \in Nat
      BY <1>2, <2>2
    <3> QED BY <2>1, <3>1, <3>2
  <2>4. ASSUME NEW n \in stayed, n \notin listed, n \notin Reply
        PROVE  lastId' < n
    <3>1. n \in Candidates \/ (asked /\ n <= lastId)
      BY <1>2, <2>4 DEF PagingInv, Candidates
    <3>2. CASE n \in Candidates
      <4>1. ~(n <= Last(Reply))
        BY <2>2, <2>4, <3>2, ReplyHasNoGaps DEF PagingTypeOK
      <4>2. n \in Nat /\ Last(Reply) \in Nat
        BY <1>2, <2>2
      <4> QED BY <2>1, <4>1, <4>2
    <3>3. CASE asked /\ n <= lastId
      <4>1. lastId < n
        BY <2>4, <3>3 DEF PagingInv, Placed, Request
      <4> QED BY <1>2, <3>3, <4>1
    <3> QED BY <3>1, <3>2, <3>3
  <2> QED BY <1>1, <2>1, <2>2, <2>3, <2>4
<1> QED BY <1>3, <1>4

LEMMA RequestPaging == PagingTypeOK /\ PagingInv /\ Request => PagingInv'
<1> SUFFICES ASSUME PagingTypeOK, PagingInv, Request PROVE PagingInv'
  OBVIOUS
<1>1. Placed'
  BY RequestPlaces
<1>2. Ahead'
  <2>1. page' = NewRows /\ listed' = listed /\ daemon' = daemon /\ page = {}
    BY DEF Request
  <2>2. NewRows \cap listed = {} /\ NewRows \subseteq Candidates
    BY RepliesAreNetworks DEF PagingTypeOK, NewRows
  <2> QED BY <2>1, <2>2, PageFollows DEF Ahead
<1>3. FirstPageComes'
  <2>1. CASE asked
    BY <2>1 DEF Request, PagingInv, FirstPageComes
  <2>2. CASE ~asked
    <3>1. firstPage' = Reply /\ page' = Reply \ listed /\ listed' = listed
      BY <2>2 DEF Request, NewRows
    <3> QED BY <3>1 DEF FirstPageComes
  <2> QED BY <2>1, <2>2
<1>4. paging' = "done" => page' = {}
  BY DEF Request, LastPage
<1>5. EveryNetwork'
  <2> SUFFICES ASSUME paging' = "done"
               PROVE  (IF daemon' = "continues" THEN stayed' ELSE firstPage') \subseteq listed'
    BY DEF EveryNetwork
  <2>1. page' = {} /\ NewRows = {} /\ asked' /\ daemon' = daemon /\ stayed' = stayed
        /\ listed' = listed /\ page = {}
    BY <1>4 DEF Request
  <2>2. CASE daemon = "continues"
    <3>1. Candidates = {}
      BY <2>1, <2>2, PageFollows, EmptyReplyIsTheEnd DEF PagingTypeOK
    <3>2. stayed \subseteq listed
      <4>1. CASE ~asked BY <3>1, <4>1 DEF PagingInv, Candidates
      <4>2. CASE asked
        <5>1. \A n \in stayed \ listed : lastId < n /\ n \in nets
          BY <2>1, <2>2, <4>2 DEF PagingInv, Placed
        <5> QED BY <2>2, <3>1, <4>2, <5>1 DEF Candidates
      <4> QED BY <4>1, <4>2
    <3> QED BY <2>1, <2>2, <3>2
  <2>3. CASE daemon # "continues"
    BY <1>3, <2>1, <2>3 DEF FirstPageComes
  <2> QED BY <2>2, <2>3
<1>6. Untouched' /\ (stayed \subseteq nets)'
  BY DEF Request, Untouched, PagingInv
<1> QED BY <1>1, <1>2, <1>3, <1>4, <1>5, <1>6 DEF PagingInv

(* One row, the lowest of its page. *)
LEMMA YieldPaging == PagingTypeOK /\ PagingInv /\ YieldRow => PagingInv'
<1> SUFFICES ASSUME PagingTypeOK, PagingInv, YieldRow PROVE PagingInv'
  OBVIOUS
<1>1. PICK n \in page : Turn(n) /\ page' = page \ {n} /\ listed' = listed \cup {n}
  BY DEF YieldRow
<1>2. page' \cup listed' = page \cup listed
  BY <1>1
<1>3. UNCHANGED <<nets, daemon, asked, lastId, paging, stayed, firstPage>>
      /\ paging = "walking"
  BY DEF YieldRow
<1>4. Ahead'
  <2>1. ASSUME NEW k \in page, k # n PROVE n < k
    <3>1. n <= k /\ n \in Nat /\ k \in Nat
      BY <1>1, <2>1, IdsAreNumbers DEF Turn, PagingTypeOK
    <3> QED BY <2>1, <3>1
  <2> QED BY <1>1, <1>3, <2>1 DEF PagingInv, Ahead
<1>5. Placed' /\ FirstPageComes'
  BY <1>2, <1>3 DEF PagingInv, Placed, FirstPageComes
<1>6. Untouched' /\ EveryNetwork' /\ (paging = "done" => page = {})' /\ (stayed \subseteq nets)'
  BY <1>1, <1>3 DEF PagingInv, Untouched, EveryNetwork
<1> QED BY <1>4, <1>5, <1>6 DEF PagingInv

(* What others do to the list takes nothing from what is owed: only what   *)
(* was there all the time is.                                              *)
LEMMA OtherPaging ==
  PagingTypeOK /\ PagingInv
    /\ (PagingRaises \/ AddNetwork \/ RemoveNetwork \/ UNCHANGED pagingVars)
    => PagingInv'
<1> SUFFICES ASSUME PagingTypeOK, PagingInv,
                    PagingRaises \/ AddNetwork \/ RemoveNetwork \/ UNCHANGED pagingVars
             PROVE PagingInv'
  OBVIOUS
<1> USE DEF PagingInv, Untouched, Ahead, Placed, FirstPageComes, EveryNetwork
<1>1. CASE PagingRaises BY <1>1 DEF PagingRaises
<1>2. CASE AddNetwork BY <1>2 DEF AddNetwork
<1>3. CASE RemoveNetwork BY <1>3 DEF RemoveNetwork
<1>4. CASE UNCHANGED pagingVars BY <1>4 DEF pagingVars
<1> QED BY <1>1, <1>2, <1>3, <1>4

LEMMA PagingHolds == PagingSpec => [](PagingTypeOK /\ PagingInv)
<1>1. PagingInit => PagingInv
  BY DEF PagingInit, PagingInv, Untouched, Ahead, Placed, FirstPageComes, EveryNetwork
<1>2. PagingTypeOK /\ PagingInv /\ [PagingNext]_pagingVars => PagingInv'
  BY RequestPaging, YieldPaging, OtherPaging DEF PagingNext
<1> QED BY <1>1, <1>2, PagingTypeCorrect, PTL DEF PagingSpec

(* A walk that has ended by itself has yielded every network configured    *)
(* throughout, or the first page of a daemon that does not page            *)
(* (client.py:403), however many networks there are and however short the  *)
(* pages.                                                                  *)
THEOREM PagingComplete == PagingSpec => []EveryNetwork
<1>1. PagingTypeOK /\ PagingInv => EveryNetwork
  BY DEF PagingInv
<1> QED BY <1>1, PagingHolds, PTL

(* The rows come in the order of their ids, and none comes twice           *)
(* (client.py:412).                                                        *)
THEOREM PagingUpward == PagingSpec => UpwardOnce
<1>1. PagingTypeOK /\ PagingInv /\ PagingInv' /\ [PagingNext]_pagingVars =>
        [/\ page' \cap listed' = {}
         /\ daemon = "continues" => \A n \in listed' \ listed, m \in listed : m < n]_pagingVars
  <2> SUFFICES ASSUME PagingTypeOK, PagingInv, PagingInv', PagingNext
               PROVE  /\ page' \cap listed' = {}
                      /\ daemon = "continues" => \A n \in listed' \ listed, m \in listed : m < n
    OBVIOUS
  <2>1. listed' \ listed \subseteq page
    BY DEF PagingNext, Request, YieldRow, PagingRaises, AddNetwork, RemoveNetwork
  <2> QED BY <2>1 DEF PagingInv, Ahead
<1> QED BY <1>1, PagingHolds, PTL DEF PagingSpec, UpwardOnce

-----------------------------------------------------------------------------
(* What it asks *)

(* As many requests as rows at most, and one more for the end. *)
CountInv ==
    requests <= Cardinality(listed \cup page) + (IF paging = "done" THEN 1 ELSE 0)

LEMMA RowsAreFinite ==
  ASSUME PagingTypeOK
  PROVE  /\ IsFiniteSet(listed) /\ Cardinality(listed) \in Nat
         /\ Cardinality(listed \cup page) \in Nat
<1>1. IsFiniteSet(Networks)
  BY MaxNetworkAssumption, FS_Interval DEF Networks
<1>2. listed \subseteq Networks /\ listed \cup page \subseteq Networks
  BY DEF PagingTypeOK
<1>3. IsFiniteSet(listed) /\ IsFiniteSet(listed \cup page)
  BY <1>1, <1>2, FS_Subset
<1> QED BY <1>3, FS_CardinalityType

(* A page that is not the last adds to what was yielded. *)
LEMMA PageAdds ==
  ASSUME PagingTypeOK, NewRows # {}
  PROVE  /\ Cardinality(listed \cup NewRows) \in Nat
         /\ Cardinality(listed) + 1 <= Cardinality(listed \cup NewRows)
<1>1. PICK n \in NewRows : n \notin listed
  BY DEF NewRows
<1>2. IsFiniteSet(listed)
  BY RowsAreFinite
<1>3. IsFiniteSet(listed \cup NewRows)
  <2>1. IsFiniteSet(Networks)
    BY MaxNetworkAssumption, FS_Interval DEF Networks
  <2>2. listed \cup NewRows \subseteq Networks
    BY RepliesAreNetworks DEF PagingTypeOK, NewRows
  <2> QED BY <2>1, <2>2, FS_Subset
<1>4. Cardinality(listed \cup {n}) = Cardinality(listed) + 1
  BY <1>1, <1>2, FS_AddElement
<1>5. listed \cup {n} \in SUBSET (listed \cup NewRows)
  OBVIOUS
<1>6. Cardinality(listed \cup {n}) <= Cardinality(listed \cup NewRows)
  BY <1>3, <1>5, FS_Subset
<1> QED BY <1>3, <1>4, <1>6, FS_CardinalityType

LEMMA StepCounts ==
  PagingTypeOK /\ CountInv /\ [PagingNext]_pagingVars => CountInv'
<1> SUFFICES ASSUME PagingTypeOK, CountInv, [PagingNext]_pagingVars PROVE CountInv'
  OBVIOUS
<1>0. requests \in Nat /\ Cardinality(listed \cup page) \in Nat
  BY RowsAreFinite DEF PagingTypeOK
<1>1. CASE Request
  <2>1. /\ listed \cup page = listed /\ listed' \cup page' = listed \cup NewRows
        /\ requests' = requests + 1 /\ paging = "walking"
        /\ paging' = IF NewRows = {} THEN "done" ELSE "walking"
    BY <1>1 DEF Request, LastPage
  <2>2. requests <= Cardinality(listed)
    BY <1>0, <2>1 DEF CountInv
  <2>3. CASE NewRows = {}
    <3>1. listed' \cup page' = listed
      BY <2>1, <2>3
    <3> QED BY <1>0, <2>1, <2>2, <2>3, <3>1, RowsAreFinite DEF CountInv
  <2>4. CASE NewRows # {}
    BY <1>0, <2>1, <2>2, <2>4, PageAdds, RowsAreFinite DEF CountInv
  <2> QED BY <2>3, <2>4
<1>2. CASE YieldRow
  <2>1. listed' \cup page' = listed \cup page /\ UNCHANGED <<requests, paging>>
    BY <1>2 DEF YieldRow
  <2> QED BY <2>1 DEF CountInv
<1>3. CASE PagingRaises \/ AddNetwork \/ RemoveNetwork \/ UNCHANGED pagingVars
  <2>1. /\ UNCHANGED <<requests, listed, page>>
        /\ paging' = paging \/ (paging = "walking" /\ paging' = "raised")
    BY <1>3 DEF PagingRaises, AddNetwork, RemoveNetwork, pagingVars
  <2> QED BY <2>1 DEF CountInv
<1> QED BY <1>1, <1>2, <1>3 DEF PagingNext

(* A walk asks at most once more than it yields, for any daemon, any       *)
(* number of networks and pages of any size: a page without a network not  *)
(* seen before ends it (client.py:400).                                    *)
THEOREM PagingAsksForNew == PagingSpec => []EveryPageBringsNew
<1>1. PagingInit => CountInv
  <2>1. PagingInit => listed \cup page = {} /\ requests = 0 /\ paging = "walking"
    BY DEF PagingInit
  <2> QED BY <2>1, FS_EmptySet DEF CountInv
<1>2. PagingTypeOK /\ CountInv => EveryPageBringsNew
  <2> SUFFICES ASSUME PagingTypeOK, CountInv PROVE EveryPageBringsNew
    OBVIOUS
  <2>1. requests \in Nat /\ Cardinality(listed \cup page) \in Nat
    BY RowsAreFinite DEF PagingTypeOK
  <2> QED BY <2>1 DEF CountInv, EveryPageBringsNew
<1> QED BY <1>1, <1>2, StepCounts, PagingTypeCorrect, PTL DEF PagingSpec
=============================================================================
