----------------------------- MODULE FolderLister -----------------------------
(***************************************************************************)
(* Folder listings (internal/bridge/fs_listing.go, fsListSettling in fs.go *)
(* and the leases of limits.go).                                           *)
(*                                                                         *)
(* The read of a folder may block in macOS for as long as it likes.  Its   *)
(* goroutine holds a slot of the process and one of the phone that asked;  *)
(* the phone's request waits at most fsListTimeout (10 s) and then gives   *)
(* the phone's slot back.  Requests for a path that is being read join the *)
(* read; a read older than fsStaleAfter (60 s) may be replaced once.       *)
(***************************************************************************)
EXTENDS Integers, FiniteSets

CONSTANTS
    Conns,        \* phone connections
    PerConn,      \* requests a connection may have waiting at once
    Keys,         \* requested paths, as the phone spelled them
    Reads,        \* folderRead objects, reused once they have settled
    ConnSlots,    \* listing slots of a connection (2)
    ProcessSlots, \* listing slots of the process (8)
    None          \* no read, no key, no connection

ASSUME SlotsAssumption ==
    /\ ConnSlots \in Nat \ {0} /\ ProcessSlots \in Nat \ {0} /\ PerConn \in Nat
    /\ None \notin Reads \cup Keys \cup Conns
    /\ IsFiniteSet(Reads) /\ IsFiniteSet(Conns)

Requests == Conns \X (1..PerConn)
ConnOf(q) == q[1]

VARIABLES
    reads,      \* folderLister.reads
    abandoned,  \* folderLister.abandoned
    rst,        \* a read's goroutine: "free", "reading", "released" (its lease)
    rkey,       \* the path it reads, None for a request without one
    age,        \* "fresh", "late" (past fsListTimeout), "stale" (past fsStaleAfter)
    holds,      \* the connection whose slot its lease holds, or None
    process,    \* slots taken in folderLister.processSlots
    conn,       \* slots taken in each connection's fsSlots
    qst,        \* a request: "idle", "leads" (it started its read), "joined", "ready" (its
                \* read has published an answer)
    qread       \* the read it waits for

readVars == <<rst, rkey, age>>
vars == <<reads, abandoned, rst, rkey, age, holds, process, conn, qst, qread>>

TypeOK ==
    /\ reads \in [Keys -> Reads \cup {None}]
    /\ abandoned \in [Keys -> Reads \cup {None}]
    /\ rst \in [Reads -> {"free", "reading", "released"}]
    /\ rkey \in [Reads -> Keys \cup {None}]
    /\ age \in [Reads -> {"fresh", "late", "stale"}]
    /\ holds \in [Reads -> Conns \cup {None}]
    /\ process \in 0..ProcessSlots
    /\ conn \in [Conns -> 0..ConnSlots]
    /\ qst \in [Requests -> {"idle", "leads", "joined", "ready"}]
    /\ qread \in [Requests -> Reads \cup {None}]

Init ==
    /\ reads = [k \in Keys |-> None]
    /\ abandoned = [k \in Keys |-> None]
    /\ rst = [r \in Reads |-> "free"]
    /\ rkey = [r \in Reads |-> None]
    /\ age = [r \in Reads |-> "fresh"]
    /\ holds = [r \in Reads |-> None]
    /\ process = 0
    /\ conn = [c \in Conns |-> 0]
    /\ qst = [q \in Requests |-> "idle"]
    /\ qread = [q \in Requests |-> None]

\* The request returns to its phone.
Answer(q) ==
    /\ qst' = [qst EXCEPT ![q] = "idle"]
    /\ qread' = [qread EXCEPT ![q] = None]

(***************************************************************************)
(* list, in one critical section.  EBUSY when a pool is full, ETIMEDOUT    *)
(* when the current read is past the deadline or a second one is stale     *)
(* already: both answer at once and change nothing.                        *)
(***************************************************************************)
Join(q, k) ==
    /\ qst[q] = "idle"
    /\ reads[k] # None
    /\ age[reads[k]] = "fresh"
    /\ qst' = [qst EXCEPT ![q] = "joined"]
    /\ qread' = [qread EXCEPT ![q] = reads[k]]
    /\ UNCHANGED <<reads, abandoned, readVars, holds, process, conn>>

\* Mutant: a stale read is replaced whenever somebody asks.
Replaceable(k) == reads[k] # None => age[reads[k]] = "stale"

\* Nothing reads the path, or a stale read that is the first to be replaced.
MayRead(k) == reads[k] # None => age[reads[k]] = "stale" /\ abandoned[k] = None

\* acquirePools(connSlots, processSlots), without waiting: both or none.
Acquire(q) == conn[ConnOf(q)] < ConnSlots /\ process < ProcessSlots

\* The slots are taken and fsListSettling starts the read r of path k.
StartRead(q, k, r) ==
    /\ qst[q] = "idle"
    /\ Acquire(q)
    /\ rst[r] = "free"
    /\ process' = process + 1
    /\ conn' = [conn EXCEPT ![ConnOf(q)] = @ + 1]
    /\ rst' = [rst EXCEPT ![r] = "reading"]
    /\ rkey' = [rkey EXCEPT ![r] = k]
    /\ age' = [age EXCEPT ![r] = "fresh"]
    /\ holds' = [holds EXCEPT ![r] = ConnOf(q)]
    /\ qst' = [qst EXCEPT ![q] = "leads"]
    /\ qread' = [qread EXCEPT ![q] = r]

\* A new read replaces a stale one, which stays in abandoned until macOS returns.
Lead(q, k, r) ==
    /\ MayRead(k)
    /\ StartRead(q, k, r)
    /\ abandoned' = [abandoned EXCEPT ![k] = IF reads[k] # None THEN reads[k] ELSE @]
    /\ reads' = [reads EXCEPT ![k] = r]

\* A request that names no path, or whose query does not parse, has a read of its own that
\* nobody joins. Its answer is 400; it does not hang, though here it may.
LeadUnkeyed(q, r) ==
    /\ StartRead(q, None, r)
    /\ UNCHANGED <<reads, abandoned>>

(***************************************************************************)
(* The read's own goroutine.                                               *)
(***************************************************************************)
\* Time passes while macOS reads.
Age(r) ==
    /\ rst[r] \in {"reading", "released"} /\ age[r] # "stale"
    /\ age' = [age EXCEPT ![r] = IF @ = "fresh" THEN "late" ELSE "stale"]
    /\ UNCHANGED <<reads, abandoned, rst, rkey, holds, process, conn, qst, qread>>

\* Mutant: the connection's slot is given back a second time.
ReleaseTwice(r) ==
    /\ rst[r] = "reading"
    /\ rst' = [rst EXCEPT ![r] = "released"]
    /\ process' = process - 1
    /\ \E c \in Conns : conn' = [conn EXCEPT ![c] = @ - 1]
    /\ holds' = [holds EXCEPT ![r] = None]
    /\ UNCHANGED <<reads, abandoned, rkey, age, qst, qread>>

\* macOS returns, in time or not: workLease.release gives back what the lease still has.
ReadReturns(r) ==
    /\ rst[r] = "reading"
    /\ rst' = [rst EXCEPT ![r] = "released"]
    /\ process' = process - 1
    /\ conn' = [c \in Conns |-> IF holds[r] = c THEN conn[c] - 1 ELSE conn[c]]
    /\ holds' = [holds EXCEPT ![r] = None]
    /\ UNCHANGED <<reads, abandoned, rkey, age, qst, qread>>

\* close(read.done): everybody who waits for the read has its answer.
Publish(r) ==
    /\ rst' = [rst EXCEPT ![r] = "free"]
    /\ rkey' = [rkey EXCEPT ![r] = None]
    /\ age' = [age EXCEPT ![r] = "fresh"]
    /\ qst' = [q \in Requests |-> IF qread[q] = r THEN "ready" ELSE qst[q]]
    /\ qread' = [q \in Requests |-> IF qread[q] = r THEN None ELSE qread[q]]

\* Mutant: only the current read is removed from the maps.
SettleCurrent(r) ==
    /\ rst[r] = "released"
    /\ Publish(r)
    /\ reads' = [k \in Keys |-> IF reads[k] = r THEN None ELSE reads[k]]
    /\ UNCHANGED <<abandoned, holds, process, conn>>

\* settle -> folderLister.finish: the read leaves whichever map it is in and its answer is
\* published.
Settle(r) ==
    /\ rst[r] = "released"
    /\ Publish(r)
    /\ reads' = [k \in Keys |-> IF reads[k] = r THEN None ELSE reads[k]]
    /\ abandoned' = [k \in Keys |-> IF abandoned[k] = r THEN None ELSE abandoned[k]]
    /\ UNCHANGED <<holds, process, conn>>

(***************************************************************************)
(* The request waits for the read, its deadline or its connection's end.   *)
(***************************************************************************)
\* The published answer is returned; the deadline's, should it have passed as well, is
\* no different for the slots, which the lease has given back.
Answered(q) ==
    /\ qst[q] = "ready"
    /\ Answer(q)
    /\ UNCHANGED <<reads, abandoned, readVars, holds, process, conn>>

\* Mutant: the slot stays with the read.
DeadlineKeepsSlot(q) ==
    /\ qread[q] # None /\ age[qread[q]] # "fresh"
    /\ Answer(q)
    /\ UNCHANGED <<reads, abandoned, readVars, holds, process, conn>>

\* Mutant: the slot is given back whether or not the lease still has it.
DeadlineReleasesAgain(q) ==
    /\ qread[q] # None /\ age[qread[q]] # "fresh"
    /\ Answer(q)
    /\ conn' = [conn EXCEPT ![ConnOf(q)] = IF qst[q] = "leads" THEN @ - 1 ELSE @]
    /\ holds' = [holds EXCEPT ![qread[q]] = IF qst[q] = "leads" THEN None ELSE @]
    /\ UNCHANGED <<reads, abandoned, readVars, process>>

\* Mutant: only the request that started the read has a deadline.
DeadlineOfLeader(q) ==
    /\ qst[q] = "leads" /\ age[qread[q]] # "fresh"
    /\ Answer(q)
    /\ LET back == holds[qread[q]] # None IN
       /\ conn' = [conn EXCEPT ![ConnOf(q)] = IF back THEN @ - 1 ELSE @]
       /\ holds' = [holds EXCEPT ![qread[q]] = IF back THEN None ELSE @]
    /\ UNCHANGED <<reads, abandoned, readVars, process>>

\* ETIMEDOUT; the request that started the read gives its connection's slot back
\* (releasePool), unless the lease has been released meanwhile.
Deadline(q) ==
    /\ qread[q] # None /\ age[qread[q]] # "fresh"
    /\ Answer(q)
    /\ LET back == qst[q] = "leads" /\ holds[qread[q]] # None IN
       /\ conn' = [conn EXCEPT ![ConnOf(q)] = IF back THEN @ - 1 ELSE @]
       /\ holds' = [holds EXCEPT ![qread[q]] = IF back THEN None ELSE @]
    /\ UNCHANGED <<reads, abandoned, readVars, process>>

\* The connection's context is cancelled: its requests return without an answer and its
\* pool goes with it; the reads go on. The slot's next connection has a new pool.
ConnEnds(c) ==
    /\ \E q \in Requests : ConnOf(q) = c /\ qst[q] # "idle"
    /\ qst' = [q \in Requests |-> IF ConnOf(q) = c THEN "idle" ELSE qst[q]]
    /\ qread' = [q \in Requests |-> IF ConnOf(q) = c THEN None ELSE qread[q]]
    /\ conn' = [conn EXCEPT ![c] = 0]
    /\ holds' = [r \in Reads |-> IF holds[r] = c THEN None ELSE holds[r]]
    /\ UNCHANGED <<reads, abandoned, readVars, process>>

(***************************************************************************)
(* The specification.                                                      *)
(***************************************************************************)
Next ==
    \/ \E q \in Requests, k \in Keys :
        Join(q, k) \/ \E r \in Reads : Lead(q, k, r)
    \/ \E q \in Requests, r \in Reads : LeadUnkeyed(q, r)
    \/ \E q \in Requests : Answered(q) \/ Deadline(q)
    \/ \E r \in Reads : Age(r) \/ ReadReturns(r) \/ Settle(r)
    \/ \E c \in Conns : ConnEnds(c)

Spec == Init /\ [][Next]_vars

\* Timers fire and goroutines run, but macOS need not ever return from a read.
Fairness ==
    /\ \A q \in Requests : WF_vars(Answered(q) \/ Deadline(q))
    /\ \A r \in Reads : WF_vars(Age(r)) /\ WF_vars(Settle(r))

FairSpec == Spec /\ Fairness

(***************************************************************************)
(* Properties.                                                             *)
(***************************************************************************)
\* workLease: the pools count exactly the reads that hold their slots, however the
\* deadline's early release and the read's own cross, and whatever connection ends.
SlotsBalanced ==
    /\ process = Cardinality({r \in Reads : rst[r] = "reading"})
    /\ \A c \in Conns : conn[c] = Cardinality({r \in Reads : holds[r] = c})

\* folderLister.abandoned: no identical requested path holds more than two process slots.
PathHoldsTwo ==
    \A k \in Keys : Cardinality({r \in Reads : rst[r] = "reading" /\ rkey[r] = k}) <= 2

\* folderLister.finish: a read that has ended is in neither map, so no later request joins
\* it, is refused because of it or loses its one replacement to it.
MapsHoldLiveReads ==
    \A k \in Keys : \A r \in {reads[k], abandoned[k]} \ {None} :
        rst[r] \in {"reading", "released"} /\ rkey[r] = k

\* fsListSettling, folderRead.wait: every request is answered, even if macOS never returns.
RequestAnswered == \A q \in Requests : qst[q] # "idle" ~> qst[q] = "idle"

\* releasePool: a read that never ends does not keep its phone's slot.
PhoneSlotReturned == \A r \in Reads : holds[r] # None ~> holds[r] = None
===============================================================================
