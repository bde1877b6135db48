-------------------------- MODULE FolderListerProofs --------------------------
(***************************************************************************)
(* Proofs about FolderLister for any number of connections, requests,      *)
(* paths, reads and slots.                                                 *)
(***************************************************************************)
EXTENDS FolderLister, FiniteSetTheorems, TLAPS

\* The types of what the argument is about.
ReadsTyped ==
    /\ reads \in [Keys -> Reads \cup {None}]
    /\ abandoned \in [Keys -> Reads \cup {None}]
    /\ rst \in [Reads -> {"free", "reading", "released"}]
    /\ rkey \in [Reads -> Keys \cup {None}]

\* Every read of a path that has not settled is known to one of the two maps under its path. This
\* is what makes the two entries of a path bound the slots it holds: a stale read is
\* replaced only into an empty place of abandoned.
LiveReadsTracked ==
    \A r \in Reads :
        rst[r] # "free" /\ rkey[r] # None => r \in {reads[rkey[r]], abandoned[rkey[r]]}

\* The inductive invariant.
ReadsInv == ReadsTyped /\ LiveReadsTracked /\ MapsHoldLiveReads

\* Requests other than a new read leave all of it alone.
LEMMA RequestsLeaveReads ==
    ASSUME ReadsInv, UNCHANGED <<reads, abandoned, rst, rkey>>
    PROVE  ReadsInv'
  BY DEF ReadsInv, ReadsTyped, LiveReadsTracked, MapsHoldLiveReads

\* list starts a read: the one it replaces, if any, moves to the empty place.
LEMMA LeadInv ==
    ASSUME ReadsInv, NEW q \in Requests, NEW k \in Keys, NEW r \in Reads, Lead(q, k, r)
    PROVE  ReadsInv'
  <1>0. None \notin Reads /\ None \notin Keys
    BY SlotsAssumption
  <1>1. /\ rst[r] = "free"
        /\ reads[k] # None => abandoned[k] = None
        /\ abandoned' = [abandoned EXCEPT ![k] = IF reads[k] # None THEN reads[k] ELSE @]
        /\ reads' = [reads EXCEPT ![k] = r]
        /\ rst' = [rst EXCEPT ![r] = "reading"]
        /\ rkey' = [rkey EXCEPT ![r] = k]
    BY DEF Lead, MayRead, StartRead
  <1>2. ReadsTyped'
    BY <1>1 DEF ReadsInv, ReadsTyped
  <1>3. \A j \in Keys : reads[j] # r /\ abandoned[j] # r
    BY <1>0, <1>1 DEF ReadsInv, ReadsTyped, MapsHoldLiveReads
  <1>4. LiveReadsTracked'
    BY <1>0, <1>1, <1>3 DEF ReadsInv, ReadsTyped, LiveReadsTracked
  <1>5. MapsHoldLiveReads'
    BY <1>0, <1>1, <1>3 DEF ReadsInv, ReadsTyped, MapsHoldLiveReads
  <1> QED
    BY <1>2, <1>4, <1>5 DEF ReadsInv

\* A read without a path is in neither map.
LEMMA LeadUnkeyedInv ==
    ASSUME ReadsInv, NEW q \in Requests, NEW r \in Reads, LeadUnkeyed(q, r)
    PROVE  ReadsInv'
  <1>0. None \notin Reads /\ None \notin Keys
    BY SlotsAssumption
  <1>1. /\ rst[r] = "free"
        /\ rst' = [rst EXCEPT ![r] = "reading"]
        /\ rkey' = [rkey EXCEPT ![r] = None]
        /\ UNCHANGED <<reads, abandoned>>
    BY DEF LeadUnkeyed, StartRead
  <1>2. \A j \in Keys : reads[j] # r /\ abandoned[j] # r
    BY <1>0, <1>1 DEF ReadsInv, ReadsTyped, MapsHoldLiveReads
  <1>3. ReadsTyped' /\ LiveReadsTracked'
    BY <1>0, <1>1 DEF ReadsInv, ReadsTyped, LiveReadsTracked
  <1>4. MapsHoldLiveReads'
    BY <1>0, <1>1, <1>2 DEF ReadsInv, ReadsTyped, MapsHoldLiveReads
  <1> QED
    BY <1>3, <1>4 DEF ReadsInv

\* macOS returns: the read still counts as live until it settles.
LEMMA ReadReturnsInv ==
    ASSUME ReadsInv, NEW r \in Reads, ReadReturns(r)
    PROVE  ReadsInv'
  <1>1. /\ rst[r] = "reading" /\ rst' = [rst EXCEPT ![r] = "released"]
        /\ UNCHANGED <<reads, abandoned, rkey>>
    BY DEF ReadReturns
  <1> QED
    BY <1>1, SlotsAssumption DEF ReadsInv, ReadsTyped, LiveReadsTracked, MapsHoldLiveReads

\* finish takes the read out of both maps.
LEMMA SettleInv ==
    ASSUME ReadsInv, NEW r \in Reads, Settle(r)
    PROVE  ReadsInv'
  <1>0. None \notin Reads /\ None \notin Keys
    BY SlotsAssumption
  <1>1. /\ rst' = [rst EXCEPT ![r] = "free"]
        /\ rkey' = [rkey EXCEPT ![r] = None]
        /\ reads' = [k \in Keys |-> IF reads[k] = r THEN None ELSE reads[k]]
        /\ abandoned' = [k \in Keys |-> IF abandoned[k] = r THEN None ELSE abandoned[k]]
    BY DEF Settle, Publish
  <1>2. ReadsTyped'
    BY <1>1 DEF ReadsInv, ReadsTyped
  <1>3. LiveReadsTracked'
    BY <1>0, <1>1 DEF ReadsInv, ReadsTyped, LiveReadsTracked
  <1>4. MapsHoldLiveReads'
    BY <1>0, <1>1 DEF ReadsInv, ReadsTyped, MapsHoldLiveReads
  <1> QED
    BY <1>2, <1>3, <1>4 DEF ReadsInv

\* The maps and the reads agree in every reachable state.
THEOREM ReadsInductive == Spec => []ReadsInv
  <1>1. Init => ReadsInv
    BY SlotsAssumption DEF Init, ReadsInv, ReadsTyped, LiveReadsTracked, MapsHoldLiveReads
  <1>2. ReadsInv /\ [Next]_vars => ReadsInv'
    <2> SUFFICES ASSUME ReadsInv, [Next]_vars PROVE ReadsInv'
      OBVIOUS
    <2>1. ASSUME NEW q \in Requests, NEW k \in Keys, Join(q, k) PROVE ReadsInv'
      BY <2>1, RequestsLeaveReads DEF Join, readVars
    <2>2. ASSUME NEW q \in Requests, NEW k \in Keys, NEW r \in Reads, Lead(q, k, r)
          PROVE ReadsInv'
      BY <2>2, LeadInv
    <2>3. ASSUME NEW q \in Requests, Answered(q) PROVE ReadsInv'
      BY <2>3, RequestsLeaveReads DEF Answered, readVars
    <2>4. ASSUME NEW q \in Requests, Deadline(q) PROVE ReadsInv'
      BY <2>4, RequestsLeaveReads DEF Deadline, readVars
    <2>5. ASSUME NEW r \in Reads, Age(r) PROVE ReadsInv'
      BY <2>5, RequestsLeaveReads DEF Age
    <2>6. ASSUME NEW r \in Reads, ReadReturns(r) PROVE ReadsInv'
      BY <2>6, ReadReturnsInv
    <2>7. ASSUME NEW r \in Reads, Settle(r) PROVE ReadsInv'
      BY <2>7, SettleInv
    <2>8. ASSUME NEW c \in Conns, ConnEnds(c) PROVE ReadsInv'
      BY <2>8, RequestsLeaveReads DEF ConnEnds, readVars
    <2>9. ASSUME NEW q \in Requests, NEW r \in Reads, LeadUnkeyed(q, r) PROVE ReadsInv'
      BY <2>9, LeadUnkeyedInv
    <2>10. CASE UNCHANGED vars
      BY <2>10, RequestsLeaveReads DEF vars
    <2> QED
      BY <2>1, <2>2, <2>3, <2>4, <2>5, <2>6, <2>7, <2>8, <2>9, <2>10 DEF Next
  <1> QED
    BY <1>1, <1>2, PTL DEF Spec

\* folderLister.finish: for every number of phones and paths, a read that has ended is in
\* neither map.
THEOREM MapsStayLive == Spec => []MapsHoldLiveReads
  <1>1. ReadsInv => MapsHoldLiveReads
    BY DEF ReadsInv
  <1> QED
    BY <1>1, ReadsInductive, PTL

\* folderLister.abandoned: for every number of phones, requests and slots, and however long
\* macOS takes, an identical requested path holds at most two process slots.
THEOREM TwoSlotsPerPath == Spec => []PathHoldsTwo
  <1>1. ReadsInv => PathHoldsTwo
    <2> SUFFICES ASSUME ReadsInv, NEW k \in Keys
                 PROVE  Cardinality({r \in Reads : rst[r] = "reading" /\ rkey[r] = k}) <= 2
      BY DEF PathHoldsTwo
    <2> DEFINE S == {r \in Reads : rst[r] = "reading" /\ rkey[r] = k}
               one == {reads[k]}
               two == {reads[k], abandoned[k]}
    <2>1. S \subseteq two
      BY SlotsAssumption DEF ReadsInv, LiveReadsTracked
    <2>2. IsFiniteSet(one) /\ Cardinality(one) = 1
      BY FS_Singleton
    <2>3. two = one \cup {abandoned[k]}
      OBVIOUS
    <2>4. IsFiniteSet(two) /\ Cardinality(two) \in {1, 2}
      BY <2>2, <2>3, FS_AddElement
    <2>5. Cardinality(S) <= Cardinality(two) /\ Cardinality(S) \in Nat
      BY <2>1, <2>4, FS_Subset, FS_CardinalityType
    <2> HIDE DEF S, two
    <2>6. Cardinality(S) <= 2
      BY <2>4, <2>5
    <2> QED
      BY <2>6 DEF S
  <1> QED
    BY <1>1, ReadsInductive, PTL

-----------------------------------------------------------------------------
\* The pools.

Reading == {r \in Reads : rst[r] = "reading"}
HeldBy(c) == {r \in Reads : holds[r] = c}

\* A lease holds its connection's slot only while its read runs; a read somebody waits for
\* has not settled; and the slot the deadline of a request gives back is the request's own
\* connection's, whoever else has joined, left or reused the read meanwhile.
LeaseHeld == \A r \in Reads : holds[r] # None => rst[r] = "reading"
WaitsForLive == \A q \in Requests : qread[q] # None => rst[qread[q]] # "free"
LeaderHolds ==
    \A q \in Requests :
        qst[q] = "leads" /\ qread[q] # None => holds[qread[q]] \in {ConnOf(q), None}

\* The inductive invariant of the pools.
PoolsInv == TypeOK /\ SlotsBalanced /\ LeaseHeld /\ WaitsForLive /\ LeaderHolds

LEMMA CountsFinite ==
    /\ IsFiniteSet(Reading) /\ Cardinality(Reading) \in Nat
    /\ \A c : IsFiniteSet(HeldBy(c)) /\ Cardinality(HeldBy(c)) \in Nat
  <1>1. Reading \subseteq Reads /\ \A c : HeldBy(c) \subseteq Reads
    BY DEF Reading, HeldBy
  <1> QED
    BY <1>1, SlotsAssumption, FS_Subset, FS_CardinalityType

LEMMA Balanced ==
    SlotsBalanced <=> /\ process = Cardinality(Reading)
                      /\ \A c \in Conns : conn[c] = Cardinality(HeldBy(c))
  BY DEF SlotsBalanced, Reading, HeldBy

LEMMA PoolsInit == Init => PoolsInv
  <1> SUFFICES ASSUME Init PROVE PoolsInv
    OBVIOUS
  <1>1. TypeOK
    BY SlotsAssumption DEF Init, TypeOK
  <1>2. Reading = {} /\ \A c \in Conns : HeldBy(c) = {}
    BY SlotsAssumption DEF Init, Reading, HeldBy
  <1>3. SlotsBalanced
    BY <1>2, Balanced, FS_EmptySet DEF Init
  <1> QED
    BY <1>1, <1>3 DEF Init, PoolsInv, LeaseHeld, WaitsForLive, LeaderHolds

\* A step that touches neither leases nor pools, and makes nobody wait for a settled read
\* or a leader of somebody who did not start it.
LEMMA PoolsKept ==
    ASSUME PoolsInv, TypeOK', UNCHANGED <<rst, holds, process, conn>>,
           \A q \in Requests : \/ (qst'[q] = qst[q] /\ qread'[q] = qread[q])
                              \/ qread'[q] = None
                              \/ (qst'[q] = "joined" /\ rst[qread'[q]] # "free")
    PROVE  PoolsInv'
  <1>1. SlotsBalanced'
    BY DEF PoolsInv, SlotsBalanced
  <1>2. LeaseHeld' /\ WaitsForLive'
    BY DEF PoolsInv, LeaseHeld, WaitsForLive
  <1>3. LeaderHolds'
    BY DEF PoolsInv, LeaderHolds
  <1> QED
    BY <1>1, <1>2, <1>3 DEF PoolsInv

\* acquirePools: the new read takes one slot of each pool, and had none.
LEMMA StartReadPools ==
    ASSUME PoolsInv, ReadsInv, NEW q \in Requests, NEW k \in Keys \cup {None}, NEW r \in Reads,
           StartRead(q, k, r), reads' \in [Keys -> Reads \cup {None}],
           abandoned' \in [Keys -> Reads \cup {None}]
    PROVE  PoolsInv'
  <1>0. None \notin Reads /\ None \notin Conns /\ ConnOf(q) \in Conns
    BY SlotsAssumption DEF Requests, ConnOf
  <1>1. /\ rst[r] = "free" /\ holds[r] = None /\ \A p \in Requests : qread[p] # r
        /\ rst' = [rst EXCEPT ![r] = "reading"] /\ holds' = [holds EXCEPT ![r] = ConnOf(q)]
        /\ qst' = [qst EXCEPT ![q] = "leads"] /\ qread' = [qread EXCEPT ![q] = r]
    BY <1>0 DEF StartRead, PoolsInv, TypeOK, LeaseHeld, WaitsForLive
  <1>2. Reading' = Reading \cup {r} /\ r \notin Reading
    BY <1>1 DEF Reading, PoolsInv, TypeOK
  <1>3. /\ HeldBy(ConnOf(q))' = HeldBy(ConnOf(q)) \cup {r} /\ r \notin HeldBy(ConnOf(q))
        /\ \A c \in Conns : c # ConnOf(q) => HeldBy(c)' = HeldBy(c)
    BY <1>0, <1>1 DEF HeldBy, PoolsInv, TypeOK
  <1>4. /\ Cardinality(Reading)' = Cardinality(Reading) + 1
        /\ Cardinality(HeldBy(ConnOf(q)))' = Cardinality(HeldBy(ConnOf(q))) + 1
    BY <1>2, <1>3, CountsFinite, FS_AddElement
  <1>5. /\ process' = process + 1 /\ process < ProcessSlots
        /\ conn' = [conn EXCEPT ![ConnOf(q)] = @ + 1] /\ conn[ConnOf(q)] < ConnSlots
    BY DEF StartRead, Acquire
  <1>6. SlotsBalanced'
    <2>1. process' = Cardinality(Reading)'
      BY <1>4, <1>5, Balanced DEF PoolsInv
    <2>2. \A c \in Conns : conn'[c] = Cardinality(HeldBy(c))'
      BY <1>0, <1>3, <1>4, <1>5, Balanced DEF PoolsInv, TypeOK
    <2> QED
      BY <2>1, <2>2 DEF SlotsBalanced, Reading, HeldBy
  <1>7. TypeOK'
    <2>1. process' \in 0..ProcessSlots /\ conn' \in [Conns -> 0..ConnSlots]
      BY <1>0, <1>5, SlotsAssumption DEF PoolsInv, TypeOK
    <2>2. rkey' \in [Reads -> Keys \cup {None}] /\ age' \in [Reads -> {"fresh", "late", "stale"}]
      BY DEF StartRead, PoolsInv, TypeOK
    <2> QED
      BY <1>0, <1>1, <2>1, <2>2 DEF PoolsInv, TypeOK
  <1>8. LeaseHeld' /\ WaitsForLive' /\ LeaderHolds'
    BY <1>0, <1>1 DEF PoolsInv, TypeOK, LeaseHeld, WaitsForLive, LeaderHolds
  <1> QED
    BY <1>6, <1>7, <1>8 DEF PoolsInv

\* workLease.release: the read's slot of the process, and its connection's if it has it still.
LEMMA ReadReturnsPools ==
    ASSUME PoolsInv, NEW r \in Reads, ReadReturns(r)
    PROVE  PoolsInv'
  <1>0. None \notin Reads /\ None \notin Conns
    BY SlotsAssumption
  <1>1. /\ rst[r] = "reading" /\ rst' = [rst EXCEPT ![r] = "released"]
        /\ holds' = [holds EXCEPT ![r] = None] /\ process' = process - 1
        /\ conn' = [c \in Conns |-> IF holds[r] = c THEN conn[c] - 1 ELSE conn[c]]
        /\ UNCHANGED <<reads, abandoned, rkey, age, qst, qread>>
    BY DEF ReadReturns
  <1>2. Reading' = Reading \ {r} /\ r \in Reading
    BY <1>1 DEF Reading, PoolsInv, TypeOK
  <1>3. \A c \in Conns : HeldBy(c)' = HeldBy(c) \ {r} /\ (r \in HeldBy(c) <=> holds[r] = c)
    BY <1>0, <1>1 DEF HeldBy, PoolsInv, TypeOK
  <1>4. process' = Cardinality(Reading)' /\ process' \in 0..ProcessSlots
    <2>1. Cardinality(Reading)' = Cardinality(Reading) - 1 /\ Cardinality(Reading)' \in Nat
      BY <1>2, CountsFinite, FS_RemoveElement, FS_CardinalityType
    <2> QED
      BY <1>1, <2>1, Balanced, SlotsAssumption DEF PoolsInv, TypeOK
  <1>5. ASSUME NEW c \in Conns
        PROVE  conn'[c] = Cardinality(HeldBy(c))' /\ conn'[c] \in 0..ConnSlots
    <2>1. /\ Cardinality(HeldBy(c))' = IF holds[r] = c THEN Cardinality(HeldBy(c)) - 1
                                                      ELSE Cardinality(HeldBy(c))
          /\ Cardinality(HeldBy(c))' \in Nat
      BY <1>3, CountsFinite, FS_RemoveElement, FS_CardinalityType
    <2>2. conn[c] = Cardinality(HeldBy(c)) /\ conn[c] \in 0..ConnSlots
      BY Balanced DEF PoolsInv, TypeOK
    <2> QED
      BY <1>1, <2>1, <2>2, SlotsAssumption
  <1>6. SlotsBalanced'
    BY <1>4, <1>5 DEF SlotsBalanced, Reading, HeldBy
  <1>7. TypeOK'
    <2>1. conn' \in [Conns -> 0..ConnSlots]
      BY <1>1, <1>5
    <2> QED
      BY <1>1, <1>4, <2>1 DEF PoolsInv, TypeOK
  <1>8. LeaseHeld' /\ WaitsForLive' /\ LeaderHolds'
    BY <1>0, <1>1 DEF PoolsInv, TypeOK, LeaseHeld, WaitsForLive, LeaderHolds
  <1> QED
    BY <1>6, <1>7, <1>8 DEF PoolsInv

\* close(read.done): nobody waits for the read any more, so it may be reused.
LEMMA SettlePools ==
    ASSUME PoolsInv, NEW r \in Reads, Settle(r)
    PROVE  PoolsInv'
  <1>0. None \notin Reads /\ None \notin Conns
    BY SlotsAssumption
  <1>1. /\ rst[r] = "released" /\ rst' = [rst EXCEPT ![r] = "free"]
        /\ UNCHANGED <<holds, process, conn>>
        /\ \A q \in Requests :
             IF qread[q] = r THEN qread'[q] = None ELSE qst'[q] = qst[q] /\ qread'[q] = qread[q]
    BY DEF Settle, Publish
  <1>2. Reading' = Reading
    BY <1>1 DEF Reading, PoolsInv, TypeOK
  <1>3. SlotsBalanced'
    BY <1>1, <1>2 DEF PoolsInv, SlotsBalanced, Reading
  <1>4. TypeOK'
    BY DEF Settle, Publish, PoolsInv, TypeOK
  <1>5. LeaseHeld' /\ WaitsForLive' /\ LeaderHolds'
    BY <1>0, <1>1 DEF PoolsInv, TypeOK, LeaseHeld, WaitsForLive, LeaderHolds
  <1> QED
    BY <1>3, <1>4, <1>5 DEF PoolsInv

\* releasePool: the slot given back early is one the lease still has, and is the request's.
LEMMA DeadlinePools ==
    ASSUME PoolsInv, NEW q \in Requests, Deadline(q)
    PROVE  PoolsInv'
  <1> DEFINE r == qread[q]
             c == ConnOf(q)
             back == qst[q] = "leads" /\ holds[r] # None
  <1>0. None \notin Reads /\ None \notin Conns /\ c \in Conns /\ r \in Reads
    BY SlotsAssumption DEF Requests, ConnOf, Deadline, PoolsInv, TypeOK
  <1>1. /\ conn' = [conn EXCEPT ![c] = IF back THEN @ - 1 ELSE @]
        /\ holds' = [holds EXCEPT ![r] = IF back THEN None ELSE @]
        /\ qst' = [qst EXCEPT ![q] = "idle"] /\ qread' = [qread EXCEPT ![q] = None]
        /\ UNCHANGED <<reads, abandoned, rst, rkey, age, process>>
    BY DEF Deadline, Answer, readVars
  <1> HIDE DEF r, c
  <1>2. CASE ~back
    <2>1. conn' = conn /\ holds' = holds
      BY <1>0, <1>1, <1>2 DEF PoolsInv, TypeOK
    <2>2. TypeOK'
      BY <1>1, <2>1 DEF PoolsInv, TypeOK
    <2>3. \A p \in Requests : (qst'[p] = qst[p] /\ qread'[p] = qread[p]) \/ qread'[p] = None
      BY <1>1 DEF PoolsInv, TypeOK
    <2> QED
      BY <1>1, <2>1, <2>2, <2>3, PoolsKept
  <1>3. CASE back
    <2>1. holds[r] = c /\ conn' = [conn EXCEPT ![c] = @ - 1] /\ holds' = [holds EXCEPT ![r] = None]
      BY <1>0, <1>1, <1>3 DEF PoolsInv, LeaderHolds, r, c
    <2>2. /\ HeldBy(c)' = HeldBy(c) \ {r} /\ r \in HeldBy(c)
          /\ \A d \in Conns : d # c => HeldBy(d)' = HeldBy(d)
      BY <1>0, <2>1 DEF HeldBy, PoolsInv, TypeOK
    <2>3. Cardinality(HeldBy(c))' = Cardinality(HeldBy(c)) - 1 /\ Cardinality(HeldBy(c))' \in Nat
      BY <2>2, CountsFinite, FS_RemoveElement, FS_CardinalityType
    <2>4. conn[c] = Cardinality(HeldBy(c)) /\ conn[c] \in 0..ConnSlots /\ conn \in [Conns -> 0..ConnSlots]
      BY <1>0, Balanced DEF PoolsInv, TypeOK
    <2>5. conn'[c] = conn[c] - 1 /\ conn'[c] \in 0..ConnSlots
      BY <1>0, <2>1, <2>3, <2>4, SlotsAssumption
    <2>6. conn' \in [Conns -> 0..ConnSlots]
      BY <1>0, <2>1, <2>4, <2>5
    <2>7. \A d \in Conns : conn'[d] = Cardinality(HeldBy(d))'
      BY <1>0, <2>1, <2>2, <2>3, <2>4, Balanced DEF PoolsInv
    <2>8. SlotsBalanced'
      BY <1>1, <2>7 DEF PoolsInv, SlotsBalanced, HeldBy
    <2>9. TypeOK'
      BY <1>0, <1>1, <2>1, <2>6 DEF PoolsInv, TypeOK
    <2>10. LeaseHeld' /\ WaitsForLive' /\ LeaderHolds'
      BY <1>0, <1>1, <2>1 DEF PoolsInv, TypeOK, LeaseHeld, WaitsForLive, LeaderHolds
    <2> QED
      BY <2>8, <2>9, <2>10 DEF PoolsInv
  <1> QED
    BY <1>2, <1>3

\* The connection's pool goes with the connection, and no lease holds a slot of it.
LEMMA ConnEndsPools ==
    ASSUME PoolsInv, NEW c \in Conns, ConnEnds(c)
    PROVE  PoolsInv'
  <1>0. None \notin Reads /\ None \notin Conns
    BY SlotsAssumption
  <1>1. /\ conn' = [conn EXCEPT ![c] = 0]
        /\ holds' = [r \in Reads |-> IF holds[r] = c THEN None ELSE holds[r]]
        /\ \A q \in Requests :
             IF ConnOf(q) = c THEN qread'[q] = None ELSE qst'[q] = qst[q] /\ qread'[q] = qread[q]
        /\ UNCHANGED <<reads, abandoned, rst, rkey, age, process>>
    BY DEF ConnEnds, readVars
  <1>2. HeldBy(c)' = {} /\ \A d \in Conns : d # c => HeldBy(d)' = HeldBy(d)
    BY <1>0, <1>1 DEF HeldBy, PoolsInv, TypeOK
  <1>3. \A d \in Conns : conn'[d] = Cardinality(HeldBy(d))'
    BY <1>1, <1>2, Balanced, FS_EmptySet DEF PoolsInv, TypeOK
  <1>4. SlotsBalanced'
    BY <1>1, <1>3 DEF PoolsInv, SlotsBalanced, HeldBy
  <1>5. TypeOK'
    <2>1. conn' \in [Conns -> 0..ConnSlots]
      BY <1>1, SlotsAssumption DEF PoolsInv, TypeOK
    <2>2. qst' \in [Requests -> {"idle", "leads", "joined", "ready"}]
          /\ qread' \in [Requests -> Reads \cup {None}]
      BY DEF ConnEnds, PoolsInv, TypeOK
    <2> QED
      BY <1>1, <2>1, <2>2 DEF PoolsInv, TypeOK
  <1>6. LeaseHeld' /\ WaitsForLive' /\ LeaderHolds'
    BY <1>0, <1>1 DEF PoolsInv, TypeOK, LeaseHeld, WaitsForLive, LeaderHolds
  <1> QED
    BY <1>4, <1>5, <1>6 DEF PoolsInv

LEMMA PoolsStep == ASSUME ReadsInv, PoolsInv, [Next]_vars PROVE PoolsInv'
  <1>0. None \notin Reads
    BY SlotsAssumption
  <1>1. ASSUME NEW q \in Requests, NEW k \in Keys, Join(q, k) PROVE PoolsInv'
    <2>1. TypeOK' /\ UNCHANGED <<rst, holds, process, conn>>
      BY <1>1 DEF Join, readVars, PoolsInv, TypeOK
    <2>2. rst[reads[k]] # "free"
      BY <1>1 DEF Join, ReadsInv, MapsHoldLiveReads
    <2>3. \A p \in Requests : \/ (qst'[p] = qst[p] /\ qread'[p] = qread[p])
                             \/ (qst'[p] = "joined" /\ rst[qread'[p]] # "free")
      BY <1>1, <2>2 DEF Join, PoolsInv, TypeOK
    <2> QED
      BY <2>1, <2>3, PoolsKept
  <1>2. ASSUME NEW q \in Requests, NEW k \in Keys, NEW r \in Reads, Lead(q, k, r)
        PROVE  PoolsInv'
    <2>1. /\ reads' \in [Keys -> Reads \cup {None}] /\ abandoned' \in [Keys -> Reads \cup {None}]
          /\ StartRead(q, k, r)
      BY <1>2 DEF Lead, PoolsInv, TypeOK
    <2> QED
      BY <2>1, StartReadPools
  <1>3. ASSUME NEW q \in Requests, NEW r \in Reads, LeadUnkeyed(q, r) PROVE PoolsInv'
    BY <1>3, StartReadPools DEF LeadUnkeyed, PoolsInv, TypeOK
  <1>4. ASSUME NEW q \in Requests, Answered(q) PROVE PoolsInv'
    <2>1. TypeOK' /\ UNCHANGED <<rst, holds, process, conn>>
      BY <1>4 DEF Answered, Answer, readVars, PoolsInv, TypeOK
    <2>2. \A p \in Requests : (qst'[p] = qst[p] /\ qread'[p] = qread[p]) \/ qread'[p] = None
      BY <1>4 DEF Answered, Answer, PoolsInv, TypeOK
    <2> QED
      BY <2>1, <2>2, PoolsKept
  <1>5. ASSUME NEW q \in Requests, Deadline(q) PROVE PoolsInv'
    BY <1>5, DeadlinePools
  <1>6. ASSUME NEW r \in Reads, Age(r) PROVE PoolsInv'
    <2>1. TypeOK' /\ UNCHANGED <<rst, holds, process, conn, qst, qread>>
      BY <1>6 DEF Age, PoolsInv, TypeOK
    <2> QED
      BY <2>1, PoolsKept
  <1>7. ASSUME NEW r \in Reads, ReadReturns(r) PROVE PoolsInv'
    BY <1>7, ReadReturnsPools
  <1>8. ASSUME NEW r \in Reads, Settle(r) PROVE PoolsInv'
    BY <1>8, SettlePools
  <1>9. ASSUME NEW c \in Conns, ConnEnds(c) PROVE PoolsInv'
    BY <1>9, ConnEndsPools
  <1>10. CASE UNCHANGED vars
    <2>1. TypeOK' /\ UNCHANGED <<rst, holds, process, conn, qst, qread>>
      BY <1>10 DEF vars, PoolsInv, TypeOK
    <2> QED
      BY <2>1, PoolsKept
  <1> QED
    BY <1>1, <1>2, <1>3, <1>4, <1>5, <1>6, <1>7, <1>8, <1>9, <1>10 DEF Next

\* The pools, the leases and the waiting requests agree in every reachable state.
THEOREM PoolsInductive == Spec => []PoolsInv
  <1> QED
    BY ReadsInductive, PoolsInit, PoolsStep, PTL DEF Spec

\* Type correctness for every number of phones, paths, reads and slots: neither pool of
\* listing slots is ever overdrawn or returned too often.
THEOREM TypeCorrect == Spec => []TypeOK
  <1>1. PoolsInv => TypeOK
    BY DEF PoolsInv
  <1> QED
    BY <1>1, PoolsInductive, PTL

\* workLease, releasePool: for every number of phones, requests and reads, the slots taken
\* are exactly those of the reads that run, however the deadline's early release, the
\* read's own and the end of the connection cross.
THEOREM PoolsCountReads == Spec => []SlotsBalanced
  <1>1. PoolsInv => SlotsBalanced
    BY DEF PoolsInv
  <1> QED
    BY <1>1, PoolsInductive, PTL
===============================================================================
