------------------------------ MODULE Supervisor ------------------------------
(***************************************************************************)
(* The gateway child and its supervisor (internal/gateway/supervisor.go),  *)
(* with the phone tunnels that hang off the child (dialGateway and the     *)
(* gateway and state loops of internal/bridge/tunnel.go) and the daemon    *)
(* that cancels the context and then calls Stop (daemon.go).               *)
(*                                                                         *)
(* Goroutines: Run; one watch per child that became ready; exec's          *)
(* goroutine that kills the child once the context ends; Stop; the         *)
(* tunnels.  The child is a process that may never print its sentinel,     *)
(* stop answering, ignore an interrupt or exit at any time.                *)
(***************************************************************************)
EXTENDS Integers, Sequences, FiniteSets

CONSTANTS
    MaxRestarts,    \* bound on the restarts of one behaviour
    ProbeFailures,  \* consecutive misses that end a child (3)
    Buffer,         \* capacity of a watcher's channel (8)
    Tunnels,        \* phone tunnels
    None            \* no child, no killer, no reason

ASSUME SupervisorAssumption ==
    /\ MaxRestarts \in Nat /\ ProbeFailures \in Nat \ {0} /\ Buffer \in Nat \ {0}
    /\ None \notin Int /\ None \notin {"run", "watch", "ctx", "stop"}

\* The children, in the order in which they are started.  A child stands for its port too:
\* the operating system picks a fresh one for each.
Children == 1..(MaxRestarts + 1)
States   == {"starting", "ready", "down"}

VARIABLES
    state,        \* Supervisor.state
    port,         \* Supervisor.port: the child it belongs to, or None for 0
    cmd,          \* Supervisor.cmd
    restarts,     \* Supervisor.restarts
    lastRestart,  \* Supervisor.lastRestart
    run,          \* where Run is: "begin", "spawn", "started", "await", "probe", "serve",
                  \* "reap" (killed, waits for the exit), "backoff", "done"
    why,          \* the reason runOnce returns once the child is reaped
    gen,          \* the child started last, 0 for none
    proc,         \* a child: "none", "booting", "serving", "wedged", "gone"
    said,         \* it has printed the line readyRe matches
    killer,       \* who sent a living child SIGKILL first
    watch,        \* its watch goroutine: "off", "tick", "probing", "flagged", "over"
    misses,       \* the watch's consecutive failures
    flagged,      \* runOnce's unresponsive
    ctxDone,      \* the daemon's context has ended
    stopClosed,   \* Supervisor.stop is closed
    stop,         \* Stop: "idle", "signal", "grace", "wait", "returned"
    stopCmd,      \* the command Stop read
    tun,          \* a tunnel: "idle", "dialling", "dialled", "watching", "failing", "ended"
    target,       \* the child it dials or is connected to
    queue         \* the states in its watcher's channel

runVars  == <<state, port, cmd, restarts, lastRestart, run, why, gen>>
procVars == <<proc, said, killer>>
wVars    == <<watch, misses, flagged>>
stopVars == <<ctxDone, stopClosed, stop, stopCmd>>
tunVars  == <<tun, target, queue>>
vars     == <<runVars, procVars, wVars, stopVars, tunVars>>

TypeOK ==
    /\ state \in States /\ port \in Children \cup {None} /\ cmd \in Children \cup {None}
    /\ restarts \in 0..MaxRestarts
    /\ lastRestart \in {None, "exited", "unresponsive", "start_failed"}
    /\ run \in {"begin", "spawn", "started", "await", "probe", "serve", "reap", "backoff", "done"}
    /\ why \in {None, "exited", "start_failed"} /\ gen \in {0} \cup Children
    /\ proc \in [Children -> {"none", "booting", "serving", "wedged", "gone"}]
    /\ said \in [Children -> BOOLEAN]
    /\ killer \in [Children -> {None, "run", "watch", "ctx", "stop"}]
    /\ watch \in [Children -> {"off", "tick", "probing", "flagged", "over"}]
    /\ misses \in [Children -> 0..ProbeFailures] /\ flagged \in [Children -> BOOLEAN]
    /\ ctxDone \in BOOLEAN /\ stopClosed \in BOOLEAN
    /\ stop \in {"idle", "signal", "grace", "wait", "returned"}
    /\ stopCmd \in Children \cup {None}
    /\ tun \in [Tunnels -> {"idle", "dialling", "dialled", "watching", "failing", "ended"}]
    /\ target \in [Tunnels -> Children \cup {None}]
    /\ \A t \in Tunnels : queue[t] \in Seq(States) /\ Len(queue[t]) <= Buffer

Init ==
    /\ state = "down" /\ port = None /\ cmd = None
    /\ restarts = 0 /\ lastRestart = None
    /\ run = "begin" /\ why = None /\ gen = 0
    /\ proc = [g \in Children |-> "none"] /\ said = [g \in Children |-> FALSE]
    /\ killer = [g \in Children |-> None]
    /\ watch = [g \in Children |-> "off"] /\ misses = [g \in Children |-> 0]
    /\ flagged = [g \in Children |-> FALSE]
    /\ ctxDone = FALSE /\ stopClosed = FALSE /\ stop = "idle" /\ stopCmd = None
    /\ tun = [t \in Tunnels |-> "idle"] /\ target = [t \in Tunnels |-> None]
    /\ queue = [t \in Tunnels |-> <<>>]

Alive(g)  == proc[g] \in {"booting", "serving", "wedged"}

\* A plausible slip: Run never asks whether it is to end.
NeverStopping == FALSE

Stopping  == ctxDone \/ stopClosed
Watching  == {t \in Tunnels : tun[t] \in {"watching", "failing"}}

\* Process.Kill: the first to kill a living child is remembered.
Kill(g, who) ==
    killer' = [killer EXCEPT ![g] = IF Alive(g) /\ @ = None THEN who ELSE @]

(***************************************************************************)
(* setState.  Only Run's goroutine calls it; it sends to the watchers that *)
(* were registered when it held the lock, and a full channel drops the     *)
(* send.  "failing" tunnels have not called Unwatch yet.                   *)
(***************************************************************************)
SetState(st, p) ==
    /\ state' = st
    /\ port' = p
    /\ queue' = [t \in Tunnels |->
                   IF t \in Watching /\ Len(queue[t]) < Buffer
                     THEN Append(queue[t], st) ELSE queue[t]]

-----------------------------------------------------------------------------
(***************************************************************************)
(* Run and runOnce.                                                        *)
(***************************************************************************)
RunOnce ==
    /\ run = "begin"
    /\ run' = "spawn"
    /\ SetState("starting", None)
    /\ UNCHANGED <<cmd, restarts, lastRestart, why, gen, procVars, wVars, stopVars, tun, target>>

\* What Run does when runOnce has returned.
Returned(reason) ==
    IF Stopping
      THEN /\ run' = "done"
           /\ UNCHANGED <<state, port, restarts, lastRestart, queue>>
      ELSE /\ run' = "backoff"
           /\ restarts' = restarts + 1
           /\ lastRestart' = reason
           /\ SetState("down", None)

\* The pipes or cmd.Start fail.  Start does fail when the context has ended.
StartFails ==
    /\ run = "spawn"
    /\ Stopping \/ restarts < MaxRestarts
    /\ Returned("start_failed")
    /\ UNCHANGED <<cmd, why, gen, procVars, wVars, stopVars, tun, target>>

Start ==
    /\ run = "spawn" /\ ~ctxDone
    /\ gen' = gen + 1
    /\ proc' = [proc EXCEPT ![gen + 1] = "booting"]
    /\ run' = "started"
    /\ UNCHANGED <<state, port, cmd, restarts, lastRestart, why, said, killer, wVars, stopVars, tunVars>>

RecordCmd ==
    /\ run = "started"
    /\ cmd' = gen
    /\ run' = "await"
    /\ UNCHANGED <<state, port, restarts, lastRestart, why, gen, procVars, wVars, stopVars, tunVars>>

\* pump has found the sentinel and filled portCh.  The child may have ended since: the
\* select then chooses.
PortSeen ==
    /\ run = "await" /\ said[gen]
    /\ run' = "probe"
    /\ UNCHANGED <<state, port, cmd, restarts, lastRestart, why, gen, procVars, wVars, stopVars, tunVars>>

ExitedBeforeReady ==
    /\ run = "await" /\ proc[gen] = "gone"
    /\ Stopping \/ restarts < MaxRestarts
    /\ Returned("start_failed")
    /\ UNCHANGED <<cmd, why, gen, procVars, wVars, stopVars, tun, target>>

Reaping(reason) ==
    /\ why' = reason
    /\ run' = "reap"

StartTimeout ==
    /\ run = "await"
    /\ Kill(gen, "run")
    /\ Reaping("start_failed")
    /\ UNCHANGED <<state, port, cmd, restarts, lastRestart, gen, proc, said, wVars, stopVars, tunVars>>

\* The interrupt is up to the child; ChildExits may answer it.
StopSeen ==
    /\ run = "await" /\ stopClosed
    /\ Reaping("exited")
    /\ UNCHANGED <<state, port, cmd, restarts, lastRestart, gen, procVars, wVars, stopVars, tunVars>>

\* A plausible slip: the child is killed, and the next one started without waiting for it.
ProbeFailsUnreaped ==
    /\ run = "probe"
    /\ Stopping \/ restarts < MaxRestarts
    /\ Kill(gen, "run")
    /\ Returned("start_failed")
    /\ UNCHANGED <<cmd, why, gen, proc, said, wVars, stopVars, tun, target>>

\* The first probe fails, for any reason.
ProbeFails ==
    /\ run = "probe"
    /\ Kill(gen, "run")
    /\ Reaping("start_failed")
    /\ UNCHANGED <<state, port, cmd, restarts, lastRestart, gen, proc, said, wVars, stopVars, tunVars>>

Ready ==
    /\ run = "probe" /\ proc[gen] = "serving"
    /\ SetState("ready", gen)
    /\ watch' = [watch EXCEPT ![gen] = "tick"]
    /\ run' = "serve"
    /\ UNCHANGED <<cmd, restarts, lastRestart, why, gen, procVars, misses, flagged, stopVars, tun, target>>

\* cmd.Wait has returned for a child that was killed or interrupted before it was ready.
Reaped ==
    /\ run = "reap" /\ proc[gen] = "gone"
    /\ Stopping \/ restarts < MaxRestarts
    /\ Returned(why)
    /\ UNCHANGED <<cmd, why, gen, procVars, wVars, stopVars, tun, target>>

\* cmd.Wait has returned for a child that was ready: close(exited) and unresponsive.Load().
ReadyChildEnds ==
    /\ run = "serve" /\ proc[gen] = "gone"
    /\ Stopping \/ restarts < MaxRestarts
    /\ Returned(IF flagged[gen] THEN "unresponsive" ELSE "exited")
    /\ UNCHANGED <<cmd, why, gen, procVars, wVars, stopVars, tun, target>>

BackoffEnds ==
    /\ run = "backoff"
    /\ run' = "begin"
    /\ UNCHANGED <<state, port, cmd, restarts, lastRestart, why, gen, procVars, wVars, stopVars, tunVars>>

BackoffStops ==
    /\ run = "backoff" /\ Stopping
    /\ run' = "done"
    /\ UNCHANGED <<state, port, cmd, restarts, lastRestart, why, gen, procVars, wVars, stopVars, tunVars>>

-----------------------------------------------------------------------------
(***************************************************************************)
(* The watch of a ready child.                                             *)
(***************************************************************************)
Exited(g) == gen # g \/ run # "serve"

WatchEnds(g) ==
    /\ watch[g] = "tick" /\ (Exited(g) \/ Stopping)
    /\ watch' = [watch EXCEPT ![g] = "over"]
    /\ UNCHANGED <<runVars, procVars, misses, flagged, stopVars, tunVars>>

\* The select may take the tick although the child has exited.
WatchTick(g) ==
    /\ watch[g] = "tick"
    /\ watch' = [watch EXCEPT ![g] = "probing"]
    /\ UNCHANGED <<runVars, procVars, misses, flagged, stopVars, tunVars>>

WatchHit(g) ==
    /\ watch[g] = "probing" /\ proc[g] = "serving"
    /\ misses' = [misses EXCEPT ![g] = 0]
    /\ watch' = [watch EXCEPT ![g] = "tick"]
    /\ UNCHANGED <<runVars, procVars, flagged, stopVars, tunVars>>

\* A plausible slip: the count starts again with every tick.
MissForgotten(n) == 1

Missed(n) == n + 1

\* A plausible slip: one miss more than ProbeFailures.
WatchMissTolerant(g) ==
    /\ watch[g] = "probing"
    /\ misses' = [misses EXCEPT ![g] = Missed(@)]
    /\ flagged' = [flagged EXCEPT ![g] = Missed(misses[g]) > ProbeFailures]
    /\ watch' = [watch EXCEPT ![g] = IF flagged'[g] THEN "flagged" ELSE "tick"]
    /\ UNCHANGED <<runVars, procVars, stopVars, tunVars>>

\* A plausible slip: the flag is not up yet when the child is killed.
WatchMissUnflagged(g) ==
    /\ watch[g] = "probing"
    /\ misses' = [misses EXCEPT ![g] = Missed(@)]
    /\ watch' = [watch EXCEPT ![g] = IF misses'[g] >= ProbeFailures THEN "flagged" ELSE "tick"]
    /\ UNCHANGED <<runVars, procVars, flagged, stopVars, tunVars>>

\* A probe of a healthy child may miss too.  The last miss raises the flag before the kill.
WatchMiss(g) ==
    /\ watch[g] = "probing"
    /\ misses' = [misses EXCEPT ![g] = Missed(@)]
    /\ IF Missed(misses[g]) >= ProbeFailures
         THEN /\ watch' = [watch EXCEPT ![g] = "flagged"]
              /\ flagged' = [flagged EXCEPT ![g] = TRUE]
         ELSE /\ watch' = [watch EXCEPT ![g] = "tick"]
              /\ UNCHANGED flagged
    /\ UNCHANGED <<runVars, procVars, stopVars, tunVars>>

WatchKills(g) ==
    /\ watch[g] = "flagged"
    /\ Kill(g, "watch")
    /\ watch' = [watch EXCEPT ![g] = "over"]
    /\ UNCHANGED <<runVars, proc, said, misses, flagged, stopVars, tunVars>>

-----------------------------------------------------------------------------
(***************************************************************************)
(* The child.                                                              *)
(***************************************************************************)
ChildListens(g) ==
    /\ proc[g] = "booting"
    /\ proc' = [proc EXCEPT ![g] = "serving"]
    /\ said' = [said EXCEPT ![g] = TRUE]
    /\ UNCHANGED <<runVars, killer, wVars, stopVars, tunVars>>

ChildWedges(g) ==
    /\ proc[g] = "serving"
    /\ proc' = [proc EXCEPT ![g] = "wedged"]
    /\ UNCHANGED <<runVars, said, killer, wVars, stopVars, tunVars>>

\* By itself, in answer to an interrupt, or killed.
ChildExits(g) ==
    /\ Alive(g)
    /\ proc' = [proc EXCEPT ![g] = "gone"]
    /\ UNCHANGED <<runVars, said, killer, wVars, stopVars, tunVars>>

\* A killed child ends; others need not.
KilledChildExits(g) == killer[g] # None /\ ChildExits(g)

\* exec.CommandContext.
ContextKills(g) ==
    /\ ctxDone /\ Alive(g) /\ killer[g] = None
    /\ Kill(g, "ctx")
    /\ UNCHANGED <<runVars, proc, said, wVars, stopVars, tunVars>>

-----------------------------------------------------------------------------
(***************************************************************************)
(* The daemon: a signal or a failed listener ends the context, and only    *)
(* then is Stop called.                                                    *)
(***************************************************************************)
Cancel ==
    /\ ~ctxDone
    /\ ctxDone' = TRUE
    /\ UNCHANGED <<runVars, procVars, wVars, stopClosed, stop, stopCmd, tunVars>>

StopCloses ==
    /\ ctxDone /\ stop = "idle"
    /\ stopClosed' = TRUE
    /\ stop' = "signal"
    /\ UNCHANGED <<runVars, procVars, wVars, ctxDone, stopCmd, tunVars>>

StopSignals ==
    /\ stop = "signal"
    /\ stopCmd' = cmd
    /\ stop' = "grace"
    /\ UNCHANGED <<runVars, procVars, wVars, ctxDone, stopClosed, tunVars>>

StopGraceEnds ==
    /\ stop = "grace"
    /\ stop' = "wait"
    /\ IF stopCmd = None THEN UNCHANGED killer ELSE Kill(stopCmd, "stop")
    /\ UNCHANGED <<runVars, proc, said, wVars, ctxDone, stopClosed, stopCmd, tunVars>>

StopReturns ==
    /\ stop \in {"grace", "wait"} /\ run = "done"
    /\ stop' = "returned"
    /\ UNCHANGED <<runVars, procVars, wVars, ctxDone, stopClosed, stopCmd, tunVars>>

-----------------------------------------------------------------------------
(***************************************************************************)
(* Tunnels.  A tunnel reads the port, dials, and only then registers its   *)
(* watcher: a restart in between is not announced to it.                   *)
(***************************************************************************)
Move(t, from, to) ==
    /\ tun[t] = from
    /\ tun' = [tun EXCEPT ![t] = to]

DialReads(t) ==
    /\ Move(t, "idle", "dialling")
    /\ state = "ready"
    /\ target' = [target EXCEPT ![t] = port]
    /\ UNCHANGED <<runVars, procVars, wVars, stopVars, queue>>

DialSucceeds(t) ==
    /\ Move(t, "dialling", "dialled")
    /\ proc[target[t]] = "serving"
    /\ UNCHANGED <<runVars, procVars, wVars, stopVars, target, queue>>

\* The loop sleeps for a second and reads the port again, or gives up at its deadline, which
\* it also reaches with a gateway that is never ready.
DialFails(t) ==
    /\ \/ Move(t, "dialling", "idle") \/ Move(t, "dialling", "ended")
       \/ Move(t, "idle", "ended") /\ state # "ready"
    /\ target' = [target EXCEPT ![t] = None]
    /\ UNCHANGED <<runVars, procVars, wVars, stopVars, queue>>

RegisterWatcher(t) ==
    /\ Move(t, "dialled", "watching")
    /\ UNCHANGED <<runVars, procVars, wVars, stopVars, target, queue>>

\* A plausible slip: the gateway loop leaves the end of the child to the state loop.
ReadFailsAnnounced(t) ==
    /\ Move(t, "watching", "failing")
    /\ proc[target[t]] = "gone" /\ state # "ready" /\ queue[t] # <<>>
    /\ UNCHANGED <<runVars, procVars, wVars, stopVars, target, queue>>

\* gw.Read fails once the child's end of the socket is gone.
GatewayReadFails(t) ==
    /\ Move(t, "watching", "failing")
    /\ proc[target[t]] = "gone"
    /\ UNCHANGED <<runVars, procVars, wVars, stopVars, target, queue>>

\* The state is sent to the phone; one that is not ready ends the tunnel.
RelayState(t) ==
    /\ queue[t] # <<>>
    /\ queue' = [queue EXCEPT ![t] = Tail(@)]
    /\ Move(t, "watching", IF Head(queue[t]) = "ready" THEN "watching" ELSE "failing")
    /\ UNCHANGED <<runVars, procVars, wVars, stopVars, target>>

\* The phone closes, is disconnected or cannot be written to; before the loops have started
\* the tunnel simply returns.
PhoneEnds(t) ==
    /\ Move(t, "watching", "failing") \/ Move(t, "dialled", "ended")
    /\ UNCHANGED <<runVars, procVars, wVars, stopVars, target, queue>>

\* loops.Wait, with the deferred Unwatch of the state loop; a reader that is stuck in a
\* terminal never lets it return.
TunnelReturns(t) ==
    /\ Move(t, "failing", "ended")
    /\ queue' = [queue EXCEPT ![t] = <<>>]
    /\ UNCHANGED <<runVars, procVars, wVars, stopVars, target>>

-----------------------------------------------------------------------------
RunStep ==
    \/ RunOnce \/ StartFails \/ Start \/ RecordCmd \/ PortSeen \/ ExitedBeforeReady
    \/ StartTimeout \/ StopSeen \/ ProbeFails \/ Ready \/ Reaped \/ ReadyChildEnds
    \/ BackoffEnds \/ BackoffStops

WatchStep(g) == WatchEnds(g) \/ WatchTick(g) \/ WatchHit(g) \/ WatchMiss(g) \/ WatchKills(g)

ChildStep(g) == ChildListens(g) \/ ChildWedges(g) \/ ChildExits(g) \/ ContextKills(g)

StopStep == StopCloses \/ StopSignals \/ StopGraceEnds \/ StopReturns

TunnelStep(t) ==
    \/ DialReads(t) \/ DialSucceeds(t) \/ DialFails(t) \/ RegisterWatcher(t)
    \/ GatewayReadFails(t) \/ RelayState(t) \/ PhoneEnds(t) \/ TunnelReturns(t)

Next ==
    \/ RunStep \/ Cancel \/ StopStep
    \/ \E g \in Children : WatchStep(g) \/ ChildStep(g)
    \/ \E t \in Tunnels : TunnelStep(t)

Spec == Init /\ [][Next]_vars

(***************************************************************************)
(* Goroutines are scheduled, timers fire, a killed process ends and a      *)
(* socket of a dead process fails.  Nothing makes the child print its      *)
(* sentinel, answer, or obey an interrupt; nobody has to stop the daemon,  *)
(* no state reaches a phone that does not read, and a tunnel that has      *)
(* failed may wait for its reader for good (Tunnel).                       *)
(***************************************************************************)
Fairness ==
    /\ WF_vars(RunStep) /\ WF_vars(StopStep)
    /\ \A g \in Children : /\ WF_vars(WatchStep(g)) /\ WF_vars(KilledChildExits(g))
                           /\ WF_vars(ContextKills(g))
    /\ \A t \in Tunnels : WF_vars(RegisterWatcher(t)) /\ WF_vars(GatewayReadFails(t))

FairSpec == Spec /\ Fairness

-----------------------------------------------------------------------------
(***************************************************************************)
(* The bridge owns one gateway child: a second one is never started beside *)
(* a living one, however a start, a probe or a stop ends (runOnce reaps    *)
(* the child on every path).                                               *)
(***************************************************************************)
OneChild == Cardinality({g \in Children : Alive(g)}) <= 1

(***************************************************************************)
(* A restart after the probe watch ended the child is recorded as          *)
(* "unresponsive": the flag is raised before the kill that lets cmd.Wait   *)
(* return, in whatever order the two goroutines run.                       *)
(***************************************************************************)
WatchKillIsReported ==
    [][ (run = "serve" /\ restarts' # restarts /\ killer[gen] = "watch")
          => lastRestart' = "unresponsive" ]_vars

(***************************************************************************)
(* A ready child that stops answering does not stay: the watch, the        *)
(* child's own end or the daemon's removes it.                             *)
(***************************************************************************)
WedgedChildEnds ==
    \A g \in Children : (proc[g] = "wedged" /\ watch[g] # "off") ~> proc[g] = "gone"

(***************************************************************************)
(* Shutdown ends: once the context is cancelled Run and Stop return and no *)
(* child is left, whichever command Stop happened to read.                 *)
(***************************************************************************)
ShutdownEnds ==
    ctxDone ~> (run = "done" /\ stop = "returned" /\ \A g \in Children : ~Alive(g))

(***************************************************************************)
(* A tunnel does not go on without its child: it fails, which cancels its  *)
(* loops, even when the restart fell between its dial and its Watch and    *)
(* every state it hears is "ready".                                        *)
(***************************************************************************)
TunnelFollowsChild ==
    \A t \in Tunnels :
      (tun[t] \in {"dialled", "watching"} /\ proc[target[t]] = "gone")
          ~> tun[t] \in {"failing", "ended"}
===============================================================================
