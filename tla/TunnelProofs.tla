------------------------------ MODULE TunnelProofs ------------------------------
(***************************************************************************)
(* Proofs about Tunnel, for every number of requests, terminals and slots: *)
(* type correctness together with the exact count of the pools, and that   *)
(* no running shell is out of closeAll's reach.                            *)
(***************************************************************************)
EXTENDS Tunnel, FiniteSetTheorems, TLAPS

Holders(p) == {q \in Requests : p \in lease[q]}

\* The pools count the leases.
Counted ==
    /\ conn = Cardinality(Holders("conn"))
    /\ process = others + Cardinality(Holders("process"))

\* A request in the hands of a worker has both slots, one being admitted is the reader's.
Covered ==
    \A q \in Requests :
        /\ req[q] \in {"call", "reply"} => lease[q] = Pools
        /\ req[q] = "admit" => Admitting(q)

PoolInv == TypeOK /\ Counted /\ Covered

\* Before the dial and after the return nobody reads.
Quiet == tun \in {"dialling", "returned"} => rd = "done"

-----------------------------------------------------------------------------
\* The pools.

\* Sets of holders are finite, and lose or gain exactly the request a step is about.
LEMMA HoldersFinite ==
    ASSUME NEW p
    PROVE  IsFiniteSet(Holders(p)) /\ Cardinality(Holders(p)) \in Nat
<1>1. Holders(p) \subseteq Requests
  BY DEF Holders
<1> QED BY <1>1, TunnelAssumption, FS_Subset, FS_CardinalityType

LEMMA HolderGained ==
    ASSUME NEW p, NEW q \in Requests, p \notin lease[q], p \in lease'[q],
           \A r \in Requests : r # q => (p \in lease'[r] <=> p \in lease[r])
    PROVE  Cardinality(Holders(p)') = Cardinality(Holders(p)) + 1
<1>1. Holders(p)' = Holders(p) \cup {q} /\ q \notin Holders(p)
  BY DEF Holders
<1> QED BY <1>1, HoldersFinite, FS_AddElement

LEMMA HolderLost ==
    ASSUME NEW p, NEW q \in Requests, p \notin lease'[q],
           \A r \in Requests : r # q => (p \in lease'[r] <=> p \in lease[r])
    PROVE  /\ Cardinality(Holders(p)') = Cardinality(Holders(p)) - (IF p \in lease[q] THEN 1 ELSE 0)
           /\ Cardinality(Holders(p)') \in Nat
<1>1. Holders(p)' = Holders(p) \ {q} /\ (q \in Holders(p) <=> p \in lease[q])
  BY DEF Holders
<1>2. IsFiniteSet(Holders(p)) /\ Cardinality(Holders(p)) \in Nat
  BY HoldersFinite
<1>3. /\ IsFiniteSet(Holders(p) \ {q})
      /\ Cardinality(Holders(p) \ {q}) =
            IF q \in Holders(p) THEN Cardinality(Holders(p)) - 1 ELSE Cardinality(Holders(p))
  BY <1>2, FS_RemoveElement
<1>4. Cardinality(Holders(p) \ {q}) \in Nat
  BY <1>3, FS_CardinalityType
<1> QED BY <1>1, <1>2, <1>3, <1>4

\* workLease.release gives back exactly what the lease holds: the pools stay typed and counted.
LEMMA ReleaseCounts ==
    ASSUME PoolInv, NEW q \in Requests, Release(q), UNCHANGED others
    PROVE  /\ lease' \in [Requests -> SUBSET Pools] /\ lease'[q] = {}
           /\ \A r \in Requests : r # q => lease'[r] = lease[r]
           /\ conn' \in 0..ConnSlots /\ process' \in 0..ProcessSlots /\ others' \in 0..process'
           /\ Counted'
<1>1. /\ lease' \in [Requests -> SUBSET Pools] /\ lease'[q] = {}
      /\ \A r \in Requests : r # q => lease'[r] = lease[r]
  BY DEF PoolInv, TypeOK, Release
<1>2. \A p \in Pools :
        /\ Cardinality(Holders(p)') = Cardinality(Holders(p)) - (IF p \in lease[q] THEN 1 ELSE 0)
        /\ Cardinality(Holders(p)') \in Nat
  BY <1>1, HolderLost
<1>3. "conn" \in Pools /\ "process" \in Pools
  BY DEF Pools
<1>4. conn' = Cardinality(Holders("conn")') /\ conn' \in Nat /\ conn' <= conn
  BY <1>2, <1>3, HoldersFinite DEF Release, PoolInv, Counted
<1>5. /\ process' = others + Cardinality(Holders("process")')
      /\ process' <= process /\ others <= process'
  BY <1>2, <1>3, HoldersFinite DEF Release, PoolInv, Counted, TypeOK
<1> QED BY <1>1, <1>4, <1>5, TunnelAssumption DEF PoolInv, TypeOK, Counted

\* A step that leaves requests and slots alone, and the reader where it is unless it was not
\* admitting anything.
LEMMA PoolKept ==
    ASSUME PoolInv, TypeOK', UNCHANGED <<req, lease, conn, process, others>>,
           UNCHANGED <<rd, at>> \/ rd \notin {"admit", "wait"}
    PROVE  PoolInv'
BY DEF PoolInv, Counted, Covered, Holders, Admitting

LEMMA PoolInit == Init => PoolInv
<1> SUFFICES ASSUME Init PROVE PoolInv
  OBVIOUS
<1>1. TypeOK
  BY TunnelAssumption DEF Init, TypeOK, Pools
<1>2. Holders("conn") = {} /\ Holders("process") = {}
  BY DEF Init, Holders
<1>3. Counted
  BY <1>2, FS_EmptySet DEF Init, Counted
<1> QED BY <1>1, <1>3 DEF Init, PoolInv, Covered

LEMMA QuietInit == Init => Quiet
BY DEF Init, Quiet

LEMMA QuietStep == ASSUME Quiet, [Next]_vars PROVE Quiet'
<1> USE DEF Quiet, Fail, Send, ReaderReplies, reqVars, termVars
<1>1. CASE \/ Dialled \/ DialFails \/ ParentCancels \/ Returns
           \/ \E l \in {"gateway", "ticker"} : LoopEnds(l)
           \/ OthersTake \/ OthersRelease \/ UNCHANGED vars
  BY <1>1 DEF Dialled, DialFails, ParentCancels, Returns, LoopEnds, OthersTake, OthersRelease, vars
<1>2. ASSUME NEW q \in Requests,
             \/ RequestRefused(q) \/ RequestArrives(q) \/ TakeConn(q) \/ TakeProcess(q)
             \/ StartWait(q) \/ Busy(q) \/ AdmissionCancelled(q)
      PROVE  Quiet'
  BY <1>2
     DEF RequestRefused, RequestArrives, TakeConn, TakeProcess, StartWait, Busy,
         AdmissionCancelled, Admitting
<1>3. CASE \/ ReaderEnds \/ OpenRefused \/ Typed
           \/ \E s \in Shells : OpenTerminal(s)
           \/ \E i \in Ids : StatFolder(i) \/ TypeInto(i) \/ ResizeFails(i) \/ CloseTerminal(i)
  BY <1>3
     DEF ReaderEnds, OpenRefused, Typed, StatFolder, OpenTerminal, TypeInto, ResizeFails,
         CloseTerminal
<1>4. CASE \E q \in Requests : Worker(q)
  BY <1>4 DEF Worker, CallReturns, CallCancelled, FinishHTTP, ProxyReturns
<1>5. CASE \E s \in Shells : ShellExits(s) \/ Pump(s)
  BY <1>5
     DEF ShellExits, Pump, OutputFails, PumpReadEnds, PumpWaits, PumpDeletes, PumpReports
<1> QED BY <1>1, <1>2, <1>3, <1>4, <1>5 DEF Next, Reader

\* tunnel, its loops and the reader's own replies.
LEMMA LoopsPool ==
    ASSUME PoolInv, Quiet,
           \/ Dialled \/ DialFails \/ ParentCancels \/ Returns
           \/ \E l \in {"gateway", "ticker"} : LoopEnds(l)
           \/ ReaderEnds \/ OpenRefused \/ \E q \in Requests : RequestRefused(q)
    PROVE  PoolInv'
<1> USE DEF reqVars, termVars, Fail, Send, ReaderReplies
<1>1. TypeOK'
  <2>1. CASE Dialled \/ DialFails \/ ParentCancels \/ \E l \in {"gateway", "ticker"} : LoopEnds(l)
    BY <2>1 DEF PoolInv, TypeOK, Dialled, DialFails, ParentCancels, LoopEnds
  <2>2. CASE Returns
    BY <2>2 DEF PoolInv, TypeOK, Returns, HangUp
  <2>3. CASE ReaderEnds \/ OpenRefused \/ \E q \in Requests : RequestRefused(q)
    BY <2>3 DEF PoolInv, TypeOK, ReaderEnds, OpenRefused, RequestRefused
  <2> QED BY <2>1, <2>2, <2>3
<1>2. UNCHANGED <<req, lease, conn, process, others>>
  BY DEF Dialled, DialFails, ParentCancels, Returns, LoopEnds, ReaderEnds, OpenRefused, RequestRefused
<1>3. UNCHANGED <<rd, at>> \/ rd \notin {"admit", "wait"}
  BY DEF Quiet, Dialled, DialFails, ParentCancels, Returns, LoopEnds, ReaderEnds, OpenRefused, RequestRefused
<1> QED BY <1>1, <1>2, <1>3, PoolKept

\* The terminals touch neither requests nor slots.
LEMMA TerminalsPool ==
    ASSUME PoolInv,
           \/ \E s \in Shells : OpenTerminal(s)
           \/ \E i \in Ids : StatFolder(i) \/ TypeInto(i) \/ ResizeFails(i) \/ CloseTerminal(i)
           \/ Typed
           \/ \E s \in Shells : ShellExits(s) \/ Pump(s)
    PROVE  PoolInv'
<1> USE DEF reqVars, Fail, Send
<1>1. TypeOK'
  <2>1. ASSUME NEW s \in Shells, OpenTerminal(s) PROVE TypeOK'
    BY <2>1 DEF PoolInv, TypeOK, OpenTerminal
  <2>2. ASSUME NEW i \in Ids, TypeInto(i) PROVE TypeOK'
    <3>1. open[i] \in Shells /\ rd' = "tty" /\ at' = open[i]
      BY <2>2 DEF PoolInv, TypeOK, TypeInto
    <3> QED BY <2>2, <3>1 DEF PoolInv, TypeOK, TypeInto, termVars
  <2>3. ASSUME NEW i \in Ids, ResizeFails(i) PROVE TypeOK'
    <3>1. tun' \in {"dialling", "up", "failed", "returned"} /\ rd' = "done"
      BY <2>3 DEF PoolInv, TypeOK, ResizeFails
    <3>2. UNCHANGED <<loops, at, req, lease, conn, process, others, open, shell, tty, tid, pump>>
      BY <2>3 DEF ResizeFails, termVars
    <3> QED BY <3>1, <3>2 DEF PoolInv, TypeOK
  <2>4. ASSUME NEW i \in Ids, CloseTerminal(i) PROVE TypeOK'
    BY <2>4 DEF PoolInv, TypeOK, CloseTerminal, HangUp
  <2>5. CASE Typed
    BY <2>5 DEF PoolInv, TypeOK, Typed, termVars
  <2>6. ASSUME NEW s \in Shells, ShellExits(s) \/ OutputFails(s) \/ PumpReadEnds(s) PROVE TypeOK'
    BY <2>6 DEF PoolInv, TypeOK, ShellExits, OutputFails, PumpReadEnds
  <2>7. ASSUME NEW s \in Shells, PumpWaits(s) \/ PumpDeletes(s) \/ PumpReports(s) PROVE TypeOK'
    BY <2>7 DEF PoolInv, TypeOK, PumpWaits, PumpDeletes, PumpReports
  <2>8. ASSUME NEW i \in Ids, StatFolder(i) PROVE TypeOK'
    BY <2>8 DEF PoolInv, TypeOK, StatFolder, termVars
  <2> QED BY <2>1, <2>2, <2>3, <2>4, <2>5, <2>6, <2>7, <2>8 DEF Pump
<1>2. UNCHANGED <<req, lease, conn, process, others>>
  BY DEF StatFolder, OpenTerminal, TypeInto, ResizeFails, CloseTerminal, Typed, ShellExits, Pump,
         OutputFails, PumpReadEnds, PumpWaits, PumpDeletes, PumpReports
<1>3. UNCHANGED <<rd, at>> \/ rd \notin {"admit", "wait"}
  BY DEF StatFolder, OpenTerminal, TypeInto, ResizeFails, CloseTerminal, Typed, ShellExits, Pump,
         OutputFails, PumpReadEnds, PumpWaits, PumpDeletes, PumpReports
<1> QED BY <1>1, <1>2, <1>3, PoolKept

\* Admission on the reader: acquirePools takes one pool after the other and rolls back.
LEMMA AdmissionPool ==
    ASSUME PoolInv, NEW q \in Requests,
           \/ RequestArrives(q) \/ TakeConn(q) \/ TakeProcess(q) \/ StartWait(q)
           \/ Busy(q) \/ AdmissionCancelled(q)
    PROVE  PoolInv'
<1> USE DEF reqVars, termVars
<1>0. "conn" # "process" /\ Pools = {"conn", "process"}
  BY DEF Pools
<1>1. CASE RequestArrives(q)
  <2>1. TypeOK'
    BY <1>1 DEF RequestArrives, PoolInv, TypeOK
  <2>2. Counted' /\ Covered'
    BY <1>1 DEF RequestArrives, PoolInv, TypeOK, Counted, Covered, Holders, Admitting
  <2> QED BY <2>1, <2>2 DEF PoolInv
<1>2. CASE TakeConn(q)
  <2>1. /\ lease'[q] = {"conn"} /\ lease[q] = {} /\ \A r \in Requests : r # q => lease'[r] = lease[r]
        /\ lease' \in [Requests -> SUBSET Pools]
    BY <1>0, <1>2 DEF TakeConn, PoolInv, TypeOK
  <2>2. Cardinality(Holders("conn")') = Cardinality(Holders("conn")) + 1
    BY <2>1, HolderGained
  <2>3. Holders("process")' = Holders("process")
    BY <1>0, <2>1 DEF Holders
  <2>4. TypeOK' /\ Counted'
    BY <1>2, <2>1, <2>2, <2>3, TunnelAssumption DEF TakeConn, PoolInv, TypeOK, Counted
  <2>5. Covered'
    BY <1>2, <2>1 DEF TakeConn, Admitting, PoolInv, TypeOK, Covered
  <2> QED BY <2>4, <2>5 DEF PoolInv
<1>3. CASE TakeProcess(q)
  <2>1. /\ lease'[q] = Pools /\ lease[q] = {"conn"} /\ \A r \in Requests : r # q => lease'[r] = lease[r]
        /\ lease' \in [Requests -> SUBSET Pools]
    BY <1>3 DEF TakeProcess, PoolInv, TypeOK
  <2>2. Cardinality(Holders("process")') = Cardinality(Holders("process")) + 1
    BY <1>0, <2>1, HolderGained
  <2>3. Holders("conn")' = Holders("conn")
    BY <1>0, <2>1 DEF Holders
  <2>4. TypeOK' /\ Counted'
    BY <1>3, <2>1, <2>2, <2>3, HoldersFinite, TunnelAssumption
       DEF TakeProcess, PoolInv, TypeOK, Counted
  <2>5. Covered'
    BY <1>3, <2>1 DEF TakeProcess, Admitting, PoolInv, TypeOK, Covered
  <2> QED BY <2>4, <2>5 DEF PoolInv
<1>4. CASE StartWait(q)
  BY <1>4 DEF StartWait, PoolInv, TypeOK, Counted, Covered, Holders, Admitting
<1>5. CASE Busy(q) \/ AdmissionCancelled(q)
  <2>1. Release(q) /\ UNCHANGED others
    BY <1>5 DEF Busy, AdmissionCancelled
  <2>2. TypeOK'
    BY <1>5, <2>1, ReleaseCounts
       DEF Busy, AdmissionCancelled, ReaderReplies, Send, Fail, PoolInv, TypeOK
  <2>3. Covered'
    BY <1>5, <2>1, ReleaseCounts DEF Busy, AdmissionCancelled, PoolInv, TypeOK, Covered, Admitting
  <2> QED BY <2>1, <2>2, <2>3, ReleaseCounts DEF PoolInv
<1> QED BY <1>1, <1>2, <1>3, <1>4, <1>5

\* Workers, and the other connections of the process.
LEMMA WorkersPool ==
    ASSUME PoolInv, (\E q \in Requests : Worker(q)) \/ OthersTake \/ OthersRelease
    PROVE  PoolInv'
<1> USE DEF termVars
<1>1. ASSUME NEW q \in Requests, CallReturns(q) PROVE PoolInv'
  <2>1. TypeOK'
    BY <1>1 DEF CallReturns, PoolInv, TypeOK
  <2>2. Counted' /\ Covered'
    BY <1>1 DEF CallReturns, PoolInv, TypeOK, Counted, Covered, Holders, Admitting
  <2> QED BY <2>1, <2>2 DEF PoolInv
<1>2. ASSUME NEW q \in Requests, CallCancelled(q) \/ FinishHTTP(q) \/ ProxyReturns(q) PROVE PoolInv'
  <2>1. Release(q) /\ UNCHANGED <<others, rd, at>> /\ req[q] # "admit"
    BY <1>2 DEF CallCancelled, FinishHTTP, ProxyReturns
  <2>2. PICK new \in {"idle", "finished"} : req' = [req EXCEPT ![q] = new]
    BY <1>2 DEF CallCancelled, FinishHTTP, ProxyReturns
  <2>3. tun' \in {"dialling", "up", "failed", "returned"}
    BY <1>2 DEF CallCancelled, FinishHTTP, ProxyReturns, Send, Fail, PoolInv, TypeOK
  <2>4. UNCHANGED <<loops, open, shell, tty, tid, pump>>
    BY <1>2 DEF CallCancelled, FinishHTTP, ProxyReturns
  <2>5. TypeOK'
    BY <2>1, <2>2, <2>3, <2>4, ReleaseCounts DEF PoolInv, TypeOK
  <2>6. Covered'
    BY <2>1, <2>2, ReleaseCounts DEF PoolInv, TypeOK, Covered, Admitting
  <2> QED BY <2>1, <2>5, <2>6, ReleaseCounts DEF PoolInv
<1>3. CASE OthersTake \/ OthersRelease
  <2>1. UNCHANGED <<req, lease, conn, rd, at>>
    BY <1>3 DEF OthersTake, OthersRelease
  <2>2. Holders("conn")' = Holders("conn") /\ Holders("process")' = Holders("process")
    BY <2>1 DEF Holders
  <2>3. TypeOK'
    <3>1. process' \in 0..ProcessSlots /\ others' \in 0..process'
      BY <1>3, TunnelAssumption DEF OthersTake, OthersRelease, PoolInv, TypeOK
    <3> QED BY <1>3, <3>1 DEF OthersTake, OthersRelease, PoolInv, TypeOK
  <2>5. Counted'
    <3>1. process \in Int /\ others \in Int /\ Cardinality(Holders("process")) \in Int
      BY HoldersFinite, TunnelAssumption DEF PoolInv, TypeOK
    <3>2. process' - others' = process - others /\ process' \in Int /\ others' \in Int
      BY <1>3, <3>1 DEF OthersTake, OthersRelease
    <3> QED BY <2>1, <2>2, <3>1, <3>2 DEF PoolInv, Counted
  <2>4. Covered'
    BY <2>1 DEF PoolInv, Covered, Admitting
  <2> QED BY <2>3, <2>4, <2>5 DEF PoolInv
<1> QED BY <1>1, <1>2, <1>3 DEF Worker

LEMMA PoolStep == ASSUME PoolInv, Quiet, [Next]_vars PROVE PoolInv'
<1>1. CASE UNCHANGED vars
  <2>1. TypeOK'
    BY <1>1 DEF vars, reqVars, termVars, PoolInv, TypeOK
  <2> QED BY <1>1, <2>1, PoolKept DEF vars, reqVars
<1> QED BY <1>1, LoopsPool, TerminalsPool, AdmissionPool, WorkersPool DEF Next, Reader

\* Every variable of a tunnel keeps to its type: no pool is ever below zero or above its size,
\* and the reader is only ever busy with a request it is admitting.
THEOREM TypeCorrect == Spec => []TypeOK
<1>1. PoolInv => TypeOK
  BY DEF PoolInv
<1> QED BY <1>1, PoolInit, PoolStep, QuietInit, QuietStep, PTL DEF Spec

\* acquirePools, release, proxyHTTP: for every number of requests and slots the pools count
\* exactly the leases, and a worker keeps both its slots until its response is written.
THEOREM CapacityIsCovered == Spec => []CapacityCoversReply
<1>1. PoolInv => CapacityCoversReply
  BY DEF PoolInv, Counted, Covered, Holders, CapacityCoversReply
<1> QED BY <1>1, PoolInit, PoolStep, QuietInit, QuietStep, PTL DEF Spec

-----------------------------------------------------------------------------
\* The shells.

\* A pump that has not yet deleted its entry finds it under its id; it gets there only after
\* its shell has ended; and a shell has a pump from its start.
Pumped ==
    \A s \in Shells :
        /\ pump[s] \in {"read", "wait", "delete"} => tid[s] \in Ids /\ open[tid[s]] = s
        /\ shell[s] \in {"running", "killed"} => pump[s] \in {"read", "wait"}
        /\ pump[s] # "none" => shell[s] # "unused"

\* No shell runs before the dial or after the return.
NoShellOutside == tun \in {"dialling", "returned"} => \A s \in Shells : shell[s] # "running"

ShellInv == Pumped /\ NoShellOutside

\* The id the reader found free stays free while it waits for the folder's stat.
RoomKept == rd = "stat" => open[at] = None

LEMMA RoomInit == Init => RoomKept
BY DEF Init, RoomKept

LEMMA RoomStep == ASSUME TypeOK, RoomKept, [Next]_vars PROVE RoomKept'
<1> USE DEF RoomKept, Fail, Send, ReaderReplies, reqVars, termVars
<1>1. CASE \/ Dialled \/ DialFails \/ ParentCancels \/ Returns
           \/ \E l \in {"gateway", "ticker"} : LoopEnds(l)
           \/ OthersTake \/ OthersRelease \/ UNCHANGED vars
  BY <1>1
     DEF Dialled, DialFails, ParentCancels, Returns, LoopEnds, OthersTake, OthersRelease, vars
<1>2. ASSUME NEW q \in Requests,
             \/ RequestRefused(q) \/ RequestArrives(q) \/ TakeConn(q) \/ TakeProcess(q)
             \/ StartWait(q) \/ Busy(q) \/ AdmissionCancelled(q) \/ Worker(q)
      PROVE  RoomKept'
  BY <1>2
     DEF RequestRefused, RequestArrives, TakeConn, TakeProcess, StartWait, Busy, Admitting,
         AdmissionCancelled, Worker, CallReturns, CallCancelled, FinishHTTP, ProxyReturns
<1>3. CASE \/ ReaderEnds \/ OpenRefused \/ Typed
           \/ \E s \in Shells : OpenTerminal(s)
           \/ \E i \in Ids : StatFolder(i) \/ TypeInto(i) \/ ResizeFails(i) \/ CloseTerminal(i)
  BY <1>3
     DEF ReaderEnds, OpenRefused, Typed, StatFolder, MayOpen, OpenTerminal, TypeInto,
         ResizeFails, CloseTerminal
<1>4. ASSUME NEW s \in Shells, ShellExits(s) \/ OutputFails(s) \/ PumpReadEnds(s) \/ PumpWaits(s)
      PROVE  RoomKept'
  BY <1>4 DEF ShellExits, OutputFails, PumpReadEnds, PumpWaits
<1>5. ASSUME NEW s \in Shells, PumpDeletes(s) \/ PumpReports(s) PROVE RoomKept'
  BY <1>5 DEF PumpDeletes, PumpReports, TypeOK
<1> QED BY <1>1, <1>2, <1>3, <1>4, <1>5 DEF Next, Reader, Pump

LEMMA ShellInit == Init => ShellInv
BY DEF Init, ShellInv, Pumped, NoShellOutside

\* Steps that leave the terminals alone: the tunnel does not come to its end by them.
LEMMA ShellKept ==
    ASSUME ShellInv, UNCHANGED termVars,
           tun' \in {"dialling", "returned"} => tun \in {"dialling", "returned"}
    PROVE  ShellInv'
BY DEF ShellInv, Pumped, NoShellOutside, termVars

LEMMA ShellStep == ASSUME TypeOK, Quiet, RoomKept, ShellInv, [Next]_vars PROVE ShellInv'
<1> USE DEF Fail, Send, ReaderReplies, reqVars
<1>1. CASE \/ Dialled \/ DialFails \/ ParentCancels
           \/ \E l \in {"gateway", "ticker"} : LoopEnds(l)
           \/ OthersTake \/ OthersRelease \/ UNCHANGED vars
  BY <1>1, ShellKept
     DEF Dialled, DialFails, ParentCancels, LoopEnds, OthersTake, OthersRelease, vars
<1>2. CASE Returns
  <2>1. \A s \in Shells : shell[s] = "running" => s \in Opened
    BY TunnelAssumption DEF ShellInv, Pumped, Opened
  <2>2. \A s \in Shells : shell'[s] = IF s \in Opened /\ shell[s] = "running" THEN "killed" ELSE shell[s]
    BY <1>2 DEF Returns, HangUp
  <2> QED BY <1>2, <2>1, <2>2 DEF Returns, ShellInv, Pumped, NoShellOutside
<1>3. ASSUME NEW q \in Requests,
             \/ RequestRefused(q) \/ RequestArrives(q) \/ TakeConn(q) \/ TakeProcess(q)
             \/ StartWait(q) \/ Busy(q) \/ AdmissionCancelled(q) \/ Worker(q)
      PROVE  ShellInv'
  BY <1>3, ShellKept
     DEF RequestRefused, RequestArrives, TakeConn, TakeProcess, StartWait, Busy,
         AdmissionCancelled, Worker, CallReturns, CallCancelled, FinishHTTP, ProxyReturns
<1>4. CASE \/ ReaderEnds \/ OpenRefused \/ Typed
           \/ \E i \in Ids : StatFolder(i) \/ TypeInto(i) \/ ResizeFails(i)
  BY <1>4, ShellKept DEF ReaderEnds, OpenRefused, Typed, StatFolder, TypeInto, ResizeFails
<1>5. ASSUME NEW s \in Shells, OpenTerminal(s) PROVE ShellInv'
  <2>1. tun \notin {"dialling", "returned"} /\ tun' = tun
    BY <1>5 DEF OpenTerminal, Quiet
  <2>2. \A r \in Shells : r # s => shell'[r] = shell[r] /\ pump'[r] = pump[r] /\ tid'[r] = tid[r]
    BY <1>5 DEF OpenTerminal, TypeOK
  <2>4. \A r \in Shells : tid[r] \in Ids /\ open[tid[r]] = r => open'[tid[r]] = r
    BY <1>5, TunnelAssumption DEF OpenTerminal, RoomKept, TypeOK
  <2>3. shell'[s] = "running" /\ pump'[s] = "read" /\ tid'[s] = at /\ at \in Ids /\ open'[at] = s
    BY <1>5 DEF OpenTerminal, TypeOK
  <2> QED BY <2>1, <2>2, <2>3, <2>4 DEF ShellInv, Pumped, NoShellOutside
<1>6. ASSUME NEW i \in Ids, CloseTerminal(i) PROVE ShellInv'
  <2>1. \A s \in Shells : shell'[s] = shell[s] \/ (shell[s] = "running" /\ shell'[s] = "killed")
    BY <1>6 DEF CloseTerminal, HangUp
  <2> QED BY <1>6, <2>1 DEF CloseTerminal, ShellInv, Pumped, NoShellOutside
<1>7. ASSUME NEW s \in Shells, ShellExits(s) PROVE ShellInv'
  BY <1>7 DEF ShellExits, TypeOK, ShellInv, Pumped, NoShellOutside
<1>8. ASSUME NEW s \in Shells, OutputFails(s) \/ PumpReadEnds(s) PROVE ShellInv'
  BY <1>8 DEF OutputFails, PumpReadEnds, TypeOK, ShellInv, Pumped, NoShellOutside
<1>9. ASSUME NEW s \in Shells, PumpWaits(s) PROVE ShellInv'
  BY <1>9 DEF PumpWaits, TypeOK, ShellInv, Pumped, NoShellOutside
<1>10. ASSUME NEW s \in Shells, PumpDeletes(s) PROVE ShellInv'
  <2>1. tid[s] \in Ids /\ open[tid[s]] = s
    BY <1>10 DEF PumpDeletes, ShellInv, Pumped
  <2>2. \A r \in Shells : r # s /\ tid[r] \in Ids /\ open[tid[r]] = r => open'[tid[r]] = r
    BY <1>10, <2>1 DEF PumpDeletes, TypeOK
  <2>3. pump' = [pump EXCEPT ![s] = "report"] /\ UNCHANGED <<tun, shell, tid>>
    BY <1>10 DEF PumpDeletes
  <2>4. shell[s] \notin {"running", "killed", "unused"}
    BY <1>10 DEF PumpDeletes, ShellInv, Pumped
  <2> QED BY <2>2, <2>3, <2>4 DEF TypeOK, ShellInv, Pumped, NoShellOutside
<1>11. ASSUME NEW s \in Shells, PumpReports(s) PROVE ShellInv'
  <2>1. /\ shell'[s] = "unused" /\ pump'[s] = "none"
        /\ \A r \in Shells : r # s => shell'[r] = shell[r] /\ pump'[r] = pump[r] /\ tid'[r] = tid[r]
        /\ open' = open
    BY <1>11 DEF PumpReports, TypeOK
  <2>2. tun' \in {"dialling", "returned"} => tun \in {"dialling", "returned"}
    BY <1>11 DEF PumpReports
  <2> QED BY <2>1, <2>2 DEF ShellInv, Pumped, NoShellOutside
<1> QED
  BY <1>1, <1>2, <1>3, <1>4, <1>5, <1>6, <1>7, <1>8, <1>9, <1>10, <1>11 DEF Next, Reader, Pump

\* openTerminal, pump, closeAll: however many terminals a phone opens, closes and reopens under
\* the same ids, a running shell is in the table under its id, and none is left to run when
\* the tunnel has returned.
THEOREM NoShellIsOrphaned == Spec => []NoOrphanShell
<1>1. ShellInv => NoOrphanShell
  BY TunnelAssumption DEF ShellInv, Pumped, NoShellOutside, NoOrphanShell
<1>2. PoolInv => TypeOK
  BY DEF PoolInv
<1> QED
  BY <1>1, <1>2, PoolInit, PoolStep, QuietInit, QuietStep, RoomInit, RoomStep, ShellInit, ShellStep,
     PTL DEF Spec
=============================================================================
