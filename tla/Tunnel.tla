--------------------------------- MODULE Tunnel ---------------------------------
(***************************************************************************)
(* One phone connection after its admission: conn.tunnel with its three    *)
(* loops (internal/bridge/tunnel.go), the HTTP requests its reader admits  *)
(* and the workers that answer them (proxy_http.go, bridge_routes.go,      *)
(* limits.go), and the shells it opens (pty.go).                           *)
(*                                                                         *)
(* The reader does everything in turn: it waits for pool slots, sends the  *)
(* refusals and writes what is typed into the terminals.  tunnel waits for *)
(* its three loops, and only then ends the shells; it waits neither for    *)
(* the workers nor for the goroutines that pump the shells' output.        *)
(*                                                                         *)
(* A send (conn.send: sealed and written under sendMu, 30 s a frame) is    *)
(* one step that succeeds or fails.  Frames that touch neither a request   *)
(* nor a shell (ws, ping, name, push, blob) leave this state alone.        *)
(***************************************************************************)
EXTENDS Integers, FiniteSets

CONSTANTS
    Requests,      \* HTTP requests the phone may have under way
    Ids,           \* terminal ids the phone uses
    Shells,        \* shells, reused once their pump has returned
    ConnSlots,     \* HTTP slots of the connection (8)
    ProcessSlots,  \* HTTP slots of the process (32)
    MaxTerminals,  \* maxTerminals (8)
    None           \* no shell, no request, no id

ASSUME TunnelAssumption ==
    /\ ConnSlots \in Nat \ {0} /\ ProcessSlots \in Nat \ {0} /\ MaxTerminals \in Nat
    /\ IsFiniteSet(Requests) /\ IsFiniteSet(Ids)
    /\ None \notin Requests \cup Shells \cup Ids

VARIABLES
    tun,        \* "dialling", "up", "failed" (ctx is cancelled, loops.Wait), "returned"
    loops,      \* of "gateway" and "ticker" the loops that run
    rd,         \* the reader: "read", "admit" or "wait" (acquirePools, before and after its
                \* wait began), "stat" (openTerminal, in isDir), "tty" (in tty.Write), "done"
    at,         \* the request, the terminal id or the shell the reader is busy with
    req,        \* a request: "idle", "admit", "call", "reply", "finished" (finishHTTP is back)
    lease,      \* the pools in its workLease
    conn,       \* slots taken in conn.httpSlots
    process,    \* slots taken in Server.httpSlots
    others,     \* those taken by other connections
    open,       \* terminalManager.open
    shell,      \* a shell: "unused", "running", "killed", "exited"
    tty,        \* whether its tty is open
    tid,        \* the id its pump was started with
    pump        \* its pump: "none", "read", "wait", "delete", "report"

reqVars  == <<req, lease, conn, process>>
termVars == <<open, shell, tty, tid, pump>>
vars == <<tun, loops, rd, at, reqVars, others, termVars>>

Pools == {"conn", "process"}

TypeOK ==
    /\ tun \in {"dialling", "up", "failed", "returned"}
    /\ loops \subseteq {"gateway", "ticker"}
    /\ rd \in {"read", "admit", "wait", "stat", "tty", "done"}
    /\ at \in Requests \cup Ids \cup Shells \cup {None}
    /\ rd \in {"admit", "wait"} => at \in Requests /\ req[at] = "admit"
    /\ rd = "stat" => at \in Ids
    /\ rd = "tty" => at \in Shells
    /\ req \in [Requests -> {"idle", "admit", "call", "reply", "finished"}]
    /\ lease \in [Requests -> SUBSET Pools]
    /\ conn \in 0..ConnSlots
    /\ process \in 0..ProcessSlots
    /\ others \in 0..process
    /\ open \in [Ids -> Shells \cup {None}]
    /\ shell \in [Shells -> {"unused", "running", "killed", "exited"}]
    /\ tty \in [Shells -> BOOLEAN]
    /\ tid \in [Shells -> Ids \cup {None}]
    /\ pump \in [Shells -> {"none", "read", "wait", "delete", "report"}]

Init ==
    /\ tun = "dialling"
    /\ loops = {}
    /\ rd = "done" /\ at = None
    /\ req = [q \in Requests |-> "idle"]
    /\ lease = [q \in Requests |-> {}]
    /\ conn = 0 /\ process = 0 /\ others = 0
    /\ open = [i \in Ids |-> None]
    /\ shell = [s \in Shells |-> "unused"]
    /\ tty = [s \in Shells |-> FALSE]
    /\ tid = [s \in Shells |-> None]
    /\ pump = [s \in Shells |-> "none"]

\* fail: the first error cancels the tunnel's context.
Fail == tun' = IF tun = "up" THEN "failed" ELSE tun

\* A send of any goroutine; the caller goes on as ok says, and fail is called if it failed.
Send(ok) == IF ok THEN UNCHANGED tun ELSE Fail

\* The context is cancelled.
Cancelled == tun # "up"

(***************************************************************************)
(* tunnel.                                                                 *)
(***************************************************************************)
\* dialGateway, and the ready message; the loops start.
Dialled ==
    /\ tun = "dialling"
    /\ tun' = "up"
    /\ loops' = {"gateway", "ticker"}
    /\ rd' = "read"
    /\ UNCHANGED <<at, reqVars, others, termVars>>

\* No gateway, or the ready message cannot be sent: tunnel returns, run closes the socket.
DialFails ==
    /\ tun = "dialling"
    /\ tun' = "returned"
    /\ UNCHANGED <<loops, rd, at, reqVars, others, termVars>>

\* The gateway -> phone loop or the ticker returns: the gateway's socket or the phone's is
\* gone, a frame is over the limit, the child restarts, or the context is cancelled.
LoopEnds(l) ==
    /\ l \in loops
    /\ loops' = loops \ {l}
    /\ Fail
    /\ UNCHANGED <<rd, at, reqVars, others, termVars>>

\* recv or dispatch fails: the phone closed, was silent for too long or sent what it may not,
\* the gateway takes no frame, or the context is cancelled.
ReaderEnds ==
    /\ rd = "read"
    /\ rd' = "done"
    /\ Fail
    /\ UNCHANGED <<loops, at, reqVars, others, termVars>>

\* The context of the connection ends from outside (the bridge stops).
ParentCancels ==
    /\ tun = "up"
    /\ Fail
    /\ UNCHANGED <<loops, rd, at, reqVars, others, termVars>>

\* closeTerminal for the shells of S: the tty is closed and the shell killed.
HangUp(S) ==
    /\ tty' = [s \in Shells |-> tty[s] /\ s \notin S]
    /\ shell' = [s \in Shells |->
                    IF s \in S /\ shell[s] = "running" THEN "killed" ELSE shell[s]]

Opened == {open[i] : i \in Ids} \ {None}

\* Mutant: the shells are ended without waiting for the reader.
ReturnsEarly ==
    /\ tun = "failed" /\ loops = {}
    /\ tun' = "returned"
    /\ HangUp(Opened)
    /\ UNCHANGED <<loops, rd, at, reqVars, others, open, tid, pump>>

\* loops.Wait, then the deferred closeAll, and run closes the socket.
Returns ==
    /\ tun = "failed"
    /\ loops = {} /\ rd = "done"
    /\ tun' = "returned"
    /\ HangUp(Opened)
    /\ UNCHANGED <<loops, rd, at, reqVars, others, open, tid, pump>>

(***************************************************************************)
(* HTTP requests: startProxyHTTP and startBridgeRoute, on the reader.      *)
(***************************************************************************)
\* The reader's own reply (bad path or query, forbidden or unknown route, busy): if it
\* cannot be sent the reader ends.
ReaderReplies(ok) ==
    /\ Send(ok)
    /\ rd' = IF ok THEN "read" ELSE "done"

\* Validation refuses the request before any slot is taken.
RequestRefused(q) ==
    /\ rd = "read" /\ req[q] = "idle"
    /\ \E ok \in BOOLEAN : ReaderReplies(ok)
    /\ UNCHANGED <<loops, at, reqVars, others, termVars>>

RequestArrives(q) ==
    /\ rd = "read" /\ req[q] = "idle"
    /\ rd' = "admit" /\ at' = q
    /\ req' = [req EXCEPT ![q] = "admit"]
    /\ UNCHANGED <<tun, loops, lease, conn, process, others, termVars>>

\* workLease.release, when released is not set; a second call does nothing.
Release(q) ==
    /\ lease' = [lease EXCEPT ![q] = {}]
    /\ conn' = conn - (IF "conn" \in lease[q] THEN 1 ELSE 0)
    /\ process' = process - (IF "process" \in lease[q] THEN 1 ELSE 0)

\* acquirePools tries conn.httpSlots, then Server.httpSlots.
Admitting(q) == rd \in {"admit", "wait"} /\ at = q

TakeConn(q) ==
    /\ Admitting(q) /\ lease[q] = {} /\ ~Cancelled
    /\ conn < ConnSlots
    /\ conn' = conn + 1
    /\ lease' = [lease EXCEPT ![q] = {"conn"}]
    /\ UNCHANGED <<tun, loops, rd, at, req, process, others, termVars>>

\* With both slots a worker starts and the reader goes on.
TakeProcess(q) ==
    /\ Admitting(q) /\ lease[q] = {"conn"} /\ ~Cancelled
    /\ process < ProcessSlots
    /\ process' = process + 1
    /\ lease' = [lease EXCEPT ![q] = Pools]
    /\ req' = [req EXCEPT ![q] = "call"]
    /\ rd' = "read" /\ at' = None
    /\ UNCHANGED <<tun, loops, conn, others, termVars>>

\* The next pool is full: httpAdmissionWait (2 s) begins, once for both pools.
StartWait(q) ==
    /\ Admitting(q) /\ rd = "admit"
    /\ \/ lease[q] = {} /\ conn = ConnSlots
       \/ lease[q] = {"conn"} /\ process = ProcessSlots
    /\ rd' = "wait"
    /\ UNCHANGED <<tun, loops, at, reqVars, others, termVars>>

\* Mutant: the wait for a slot has no end.
NeverBusy(q) ==
    /\ rd = "wait" /\ at = q /\ ~Cancelled /\ FALSE
    /\ UNCHANGED vars

\* The wait is over: what was taken goes back, and the reader answers 429 itself.
Busy(q) ==
    /\ rd = "wait" /\ at = q /\ ~Cancelled
    /\ Release(q)
    /\ req' = [req EXCEPT ![q] = "idle"]
    /\ \E ok \in BOOLEAN : ReaderReplies(ok)
    /\ at' = None
    /\ UNCHANGED <<loops, others, termVars>>

\* validateAdmission: the context is cancelled; dispatch returns its error.
AdmissionCancelled(q) ==
    /\ Admitting(q) /\ Cancelled
    /\ Release(q)
    /\ req' = [req EXCEPT ![q] = "idle"]
    /\ rd' = "done" /\ at' = None
    /\ UNCHANGED <<tun, loops, others, termVars>>

(***************************************************************************)
(* HTTP requests: proxyHTTP and the bridge routes' handlers, in workers.   *)
(***************************************************************************)
\* Mutant: the slots go back before the response is written.
FinishEarly(q) ==
    /\ req[q] = "call"
    /\ req' = [req EXCEPT ![q] = "reply"]
    /\ Release(q)
    /\ UNCHANGED <<tun, loops, rd, at, others, termVars>>

\* The gateway (60 s at most), the folder listing (FolderLister) or the handler answers, or
\* the call fails while the context lives: there is a response to write.
CallReturns(q) ==
    /\ req[q] = "call"
    /\ req' = [req EXCEPT ![q] = "reply"]
    /\ UNCHANGED <<tun, loops, rd, at, lease, conn, process, others, termVars>>

\* finishHTTPError, proxyFSList: the call ended with the context, nobody is answered.
CallCancelled(q) ==
    /\ req[q] = "call" /\ Cancelled
    /\ req' = [req EXCEPT ![q] = "finished"]
    /\ Release(q)
    /\ UNCHANGED <<tun, loops, rd, at, others, termVars>>

\* finishHTTP: the response is written, then the slots go back.
FinishHTTP(q) ==
    /\ req[q] = "reply"
    /\ \E ok \in BOOLEAN : Send(ok)
    /\ req' = [req EXCEPT ![q] = "finished"]
    /\ Release(q)
    /\ UNCHANGED <<loops, rd, at, others, termVars>>

\* Mutant: the release proxyHTTP defers gives the slots back once more.
ReleasedTwice(q) ==
    /\ req[q] = "finished"
    /\ req' = [req EXCEPT ![q] = "idle"]
    /\ conn > 0 /\ conn' = conn - 1
    /\ process > 0 /\ process' = process - 1
    /\ UNCHANGED <<tun, loops, rd, at, lease, others, termVars>>

\* proxyHTTP returns, and its deferred release finds the lease released.
ProxyReturns(q) ==
    /\ req[q] = "finished"
    /\ req' = [req EXCEPT ![q] = "idle"]
    /\ Release(q)
    /\ UNCHANGED <<tun, loops, rd, at, others, termVars>>

\* Other connections of the process take slots of Server.httpSlots and give them back.
OthersTake ==
    /\ process < ProcessSlots
    /\ process' = process + 1 /\ others' = others + 1
    /\ UNCHANGED <<tun, loops, rd, at, req, lease, conn, termVars>>

OthersRelease ==
    /\ others > 0
    /\ process' = process - 1 /\ others' = others - 1
    /\ UNCHANGED <<tun, loops, rd, at, req, lease, conn, termVars>>

(***************************************************************************)
(* Terminals: terminalManager.handle, on the reader.                       *)
(***************************************************************************)
MayOpen(i) ==
    /\ open[i] = None
    /\ Cardinality({j \in Ids : open[j] # None}) < MaxTerminals

\* openTerminal finds room and asks for the folder: os.Stat, which macOS may keep (fs.go).
StatFolder(i) ==
    /\ rd = "read" /\ MayOpen(i)
    /\ rd' = "stat" /\ at' = i
    /\ UNCHANGED <<tun, loops, reqVars, others, termVars>>

\* The shell starts. Only the reader adds terminals, so what it found under the mutex still
\* holds when it stores the new one; the context is not looked at again.
OpenTerminal(s) ==
    /\ rd = "stat" /\ shell[s] = "unused"
    /\ open' = [open EXCEPT ![at] = s]
    /\ shell' = [shell EXCEPT ![s] = "running"]
    /\ tty' = [tty EXCEPT ![s] = TRUE]
    /\ tid' = [tid EXCEPT ![s] = at]
    /\ pump' = [pump EXCEPT ![s] = "read"]
    /\ rd' = "read" /\ at' = None
    /\ UNCHANGED <<tun, loops, reqVars, others>>

\* The id is open, there are too many, or the shell does not start: refuse.
OpenRefused ==
    /\ rd = "stat" \/ (rd = "read" /\ \E i \in Ids : ~MayOpen(i))
    /\ \E ok \in BOOLEAN : ReaderReplies(ok)
    /\ at' = None
    /\ UNCHANGED <<loops, reqVars, others, termVars>>

\* write: the reader is in tty.Write until the program, or the terminal's buffer, takes it.
TypeInto(i) ==
    /\ rd = "read" /\ open[i] # None
    /\ rd' = "tty" /\ at' = open[i]
    /\ UNCHANGED <<tun, loops, reqVars, others, termVars>>

\* It returns; an error is the pump's business.
Typed ==
    /\ rd = "tty"
    /\ rd' = "read" /\ at' = None
    /\ UNCHANGED <<tun, loops, reqVars, others, termVars>>

\* resize changes nothing here while the tty is open. On a tty that was closed Setsize
\* fails, and with it the tunnel.
ResizeFails(i) ==
    /\ rd = "read" /\ open[i] # None /\ ~tty[open[i]]
    /\ rd' = "done"
    /\ Fail
    /\ UNCHANGED <<loops, at, reqVars, others, termVars>>

CloseTerminal(i) ==
    /\ rd = "read" /\ open[i] # None
    /\ HangUp({open[i]})
    /\ UNCHANGED <<tun, loops, rd, at, reqVars, others, open, tid, pump>>

(***************************************************************************)
(* Terminals: the shells and their pumps.                                  *)
(***************************************************************************)
\* The shell ends by itself, or because it was killed.
ShellExits(s) ==
    /\ shell[s] \in {"running", "killed"}
    /\ shell' = [shell EXCEPT ![s] = "exited"]
    /\ UNCHANGED <<tun, loops, rd, at, reqVars, others, open, tty, tid, pump>>

\* Output that cannot be sent ends the pump's loop, and the tunnel; the pump then waits for
\* a shell that may go on.
OutputFails(s) ==
    /\ pump[s] = "read" /\ tty[s]
    /\ Fail
    /\ pump' = [pump EXCEPT ![s] = "wait"]
    /\ UNCHANGED <<loops, rd, at, reqVars, others, open, shell, tty, tid>>

\* tty.Read fails: the shell is gone or closeTerminal closed the tty.
PumpReadEnds(s) ==
    /\ pump[s] = "read" /\ (~tty[s] \/ shell[s] = "exited")
    /\ pump' = [pump EXCEPT ![s] = "wait"]
    /\ UNCHANGED <<tun, loops, rd, at, reqVars, others, open, shell, tty, tid>>

\* Mutant: the pump does not wait for the shell.
PumpLeaves(s) ==
    /\ pump[s] = "wait"
    /\ tty' = [tty EXCEPT ![s] = FALSE]
    /\ pump' = [pump EXCEPT ![s] = "delete"]
    /\ UNCHANGED <<tun, loops, rd, at, reqVars, others, open, shell, tid>>

\* cmd.Wait returns.
PumpWaits(s) ==
    /\ pump[s] = "wait" /\ shell[s] = "exited"
    /\ tty' = [tty EXCEPT ![s] = FALSE]
    /\ pump' = [pump EXCEPT ![s] = "delete"]
    /\ UNCHANGED <<tun, loops, rd, at, reqVars, others, open, shell, tid>>

\* delete(m.open, id): whatever the id stands for.
PumpDeletes(s) ==
    /\ pump[s] = "delete"
    /\ open' = [open EXCEPT ![tid[s]] = None]
    /\ pump' = [pump EXCEPT ![s] = "report"]
    /\ UNCHANGED <<tun, loops, rd, at, reqVars, others, shell, tty, tid>>

\* The exit is reported.
PumpReports(s) ==
    /\ pump[s] = "report"
    /\ \E ok \in BOOLEAN : Send(ok)
    /\ pump' = [pump EXCEPT ![s] = "none"]
    /\ shell' = [shell EXCEPT ![s] = "unused"]
    /\ tid' = [tid EXCEPT ![s] = None]
    /\ UNCHANGED <<loops, rd, at, reqVars, others, open, tty>>

(***************************************************************************)
(* The specification.                                                      *)
(***************************************************************************)
Reader ==
    \/ ReaderEnds
    \/ \E q \in Requests :
        \/ RequestRefused(q) \/ RequestArrives(q)
        \/ TakeConn(q) \/ TakeProcess(q) \/ StartWait(q)
        \/ Busy(q) \/ AdmissionCancelled(q)
    \/ \E s \in Shells : OpenTerminal(s)
    \/ OpenRefused
    \/ \E i \in Ids : StatFolder(i) \/ TypeInto(i) \/ ResizeFails(i) \/ CloseTerminal(i)
    \/ Typed

Worker(q) == CallReturns(q) \/ CallCancelled(q) \/ FinishHTTP(q) \/ ProxyReturns(q)

Pump(s) ==
    OutputFails(s) \/ PumpReadEnds(s) \/ PumpWaits(s) \/ PumpDeletes(s) \/ PumpReports(s)

Next ==
    \/ Dialled \/ DialFails \/ ParentCancels \/ Returns
    \/ \E l \in {"gateway", "ticker"} : LoopEnds(l)
    \/ Reader
    \/ \E q \in Requests : Worker(q)
    \/ OthersTake \/ OthersRelease
    \/ \E s \in Shells : ShellExits(s) \/ Pump(s)

Spec == Init /\ [][Next]_vars

\* Every goroutine that is not blocked runs, and every wait that has a timeout ends. Once
\* the context is cancelled a read may still return what had arrived, but not for ever. A
\* loop need not end before the context is cancelled, a shell before it is killed; a write
\* to a terminal returns when its shell is gone, and otherwise only if the program reads;
\* a folder's stat may never return.
\* Other connections may keep their slots.
Fairness ==
    /\ WF_vars(Dialled \/ DialFails)
    /\ WF_vars(Returns)
    /\ \A l \in {"gateway", "ticker"} : WF_vars(Cancelled /\ LoopEnds(l))
    /\ SF_vars(Cancelled /\ ReaderEnds)
    /\ WF_vars(rd = "tty" /\ shell[at] # "running" /\ Typed)
    /\ \A q \in Requests :
        /\ WF_vars(TakeConn(q) \/ TakeProcess(q) \/ StartWait(q) \/ Busy(q))
        /\ WF_vars(AdmissionCancelled(q))
        /\ WF_vars(Worker(q))
    /\ \A s \in Shells :
        /\ WF_vars(shell[s] = "killed" /\ ShellExits(s))
        /\ WF_vars(PumpReadEnds(s) \/ PumpWaits(s) \/ PumpDeletes(s) \/ PumpReports(s))

FairSpec == Spec /\ Fairness

(***************************************************************************)
(* Properties.                                                             *)
(***************************************************************************)
\* acquirePools, workLease.release, proxyHTTP: the pools count exactly the leases, whatever
\* is rolled back, released twice or cancelled, and "Capacity covers the complete response
\* write to the phone": a worker has both its slots until the response is written. The
\* reader never leaves a request behind half admitted.
CapacityCoversReply ==
    /\ conn = Cardinality({q \in Requests : "conn" \in lease[q]})
    /\ process = others + Cardinality({q \in Requests : "process" \in lease[q]})
    /\ \A q \in Requests :
        /\ req[q] \in {"call", "reply"} => lease[q] = Pools
        /\ req[q] = "admit" => Admitting(q)

\* openTerminal, pump, closeAll: a running shell is always found under its id, by closeTerminal
\* and by closeAll, which comes after the last shell that can be opened. Its pump deletes
\* the entry by id and only after the shell has ended.
NoOrphanShell ==
    \A s \in Shells : shell[s] = "running" =>
        tun # "returned" /\ tid[s] # None /\ open[tid[s]] = s

\* acquirePools, proxyHTTP, finishHTTP: a request the reader has taken ends, with both pools
\* full for ever, the gateway silent or the connection lost.
RequestEnds == \A q \in Requests : req[q] # "idle" ~> req[q] = "idle"

Gone ==
    /\ tun = "returned"
    /\ \A q \in Requests : req[q] = "idle" /\ lease[q] = {}
    /\ \A s \in Shells : shell[s] = "unused"

\* tunnel: a connection that has failed returns and leaves no worker, slot, shell or pump
\* behind, unless its reader stays for ever in the write to a terminal or in the stat of the
\* folder a terminal is to open in.
LeavesNothing == (tun = "failed" ~> Gone) \/ <>[](rd = "tty") \/ <>[](rd = "stat")

\* pty.go: "Each phone connection owns the shells it opened; they die with the connection."
ShellsDie ==
    \A s \in Shells : (tun = "failed" /\ shell[s] = "running") ~> shell[s] # "running"
=================================================================================
