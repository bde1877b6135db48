--------------------------- MODULE SupervisorProofs ---------------------------
(***************************************************************************)
(* Proofs about Supervisor, for every number of restarts, every probe      *)
(* limit and every number of tunnels: the bridge never owns two living     *)
(* gateway children, its state is well typed, and a child that the probe   *)
(* watch killed is reported so.                                            *)
(***************************************************************************)
EXTENDS Supervisor, FiniteSetTheorems, TLAPS

\* Where Run is while runOnce has a child that it has not reaped.
Owning == {"started", "await", "probe", "serve", "reap"}

\* The part of the type invariant the argument needs.
ChildTyped ==
    /\ restarts \in 0..MaxRestarts
    /\ gen \in Nat /\ gen <= restarts + 1
    /\ proc \in [Children -> {"none", "booting", "serving", "wedged", "gone"}]

\* Run is between two children: the next one still has a number.
NextNumbered == run \in {"begin", "spawn", "backoff"} => gen <= restarts

\* A living child is the one started last, and runOnce has not returned from it.
Owned ==
    /\ run \in Owning => gen \in Children
    /\ \A g \in Children : Alive(g) => g = gen /\ run \in Owning

ChildInv == ChildTyped /\ NextNumbered /\ Owned

-----------------------------------------------------------------------------
\* Initially there is no child: New returns before anything is started.
LEMMA ChildInit == Init => ChildInv
BY SupervisorAssumption
   DEF Init, ChildInv, ChildTyped, NextNumbered, Owned, Owning, Alive, Children

\* What happens when runOnce returns without a living child (Run, after runOnce).
LEMMA ReturnedInv ==
    ASSUME NEW reason, ChildInv, Returned(reason), Stopping \/ restarts < MaxRestarts,
           \A g \in Children : ~Alive(g), UNCHANGED <<gen, proc>>
    PROVE  ChildInv'
<1>1. CASE Stopping
  BY <1>1, SupervisorAssumption
     DEF Returned, ChildInv, ChildTyped, NextNumbered, Owned, Owning, Alive, Children
<1>2. CASE ~Stopping
  BY <1>2, SupervisorAssumption
     DEF Returned, ChildInv, ChildTyped, NextNumbered, Owned, Owning, Alive, Children
<1> QED BY <1>1, <1>2

\* Steps of Run: only Start brings a child to life, and it finds none alive.
LEMMA RunStepInv == ASSUME ChildInv, RunStep PROVE ChildInv'
<1> USE SupervisorAssumption
<1>1. CASE RunOnce
  BY <1>1 DEF RunOnce, procVars, ChildInv, ChildTyped, NextNumbered, Owned, Owning, Alive, Children
<1>2. CASE StartFails
  <2>1. \A g \in Children : ~Alive(g)
    BY <1>2 DEF StartFails, ChildInv, Owned, Owning
  <2> QED BY <1>2, <2>1, ReturnedInv DEF StartFails, procVars
<1>3. CASE Start
  <2>1. gen + 1 \in Children /\ gen' = gen + 1 /\ restarts' = restarts
    BY <1>3 DEF Start, ChildInv, ChildTyped, NextNumbered, Children
  <2>2. \A g \in Children : ~Alive(g)
    BY <1>3 DEF Start, ChildInv, Owned, Owning
  <2>3. proc' = [proc EXCEPT ![gen + 1] = "booting"] /\ run' = "started"
    BY <1>3 DEF Start
  <2>4. ChildTyped' /\ NextNumbered'
    BY <1>3, <2>1, <2>3 DEF Start, ChildInv, ChildTyped, NextNumbered, Children
  <2>5. Owned'
    BY <2>1, <2>2, <2>3 DEF ChildInv, ChildTyped, Owned, Owning, Alive, Children
  <2> QED BY <2>4, <2>5 DEF ChildInv
<1>4. CASE RecordCmd
  BY <1>4 DEF RecordCmd, procVars, ChildInv, ChildTyped, NextNumbered, Owned, Owning, Alive, Children
<1>5. CASE PortSeen
  BY <1>5 DEF PortSeen, procVars, ChildInv, ChildTyped, NextNumbered, Owned, Owning, Alive, Children
<1>6. CASE ExitedBeforeReady
  <2>1. \A g \in Children : ~Alive(g)
    BY <1>6 DEF ExitedBeforeReady, ChildInv, Owned, Alive
  <2> QED BY <1>6, <2>1, ReturnedInv DEF ExitedBeforeReady, procVars
<1>7. CASE StartTimeout
  BY <1>7 DEF StartTimeout, Reaping, ChildInv, ChildTyped, NextNumbered, Owned, Owning, Alive, Children
<1>8. CASE StopSeen
  BY <1>8 DEF StopSeen, Reaping, procVars, ChildInv, ChildTyped, NextNumbered, Owned, Owning, Alive, Children
<1>9. CASE ProbeFails
  BY <1>9 DEF ProbeFails, Reaping, ChildInv, ChildTyped, NextNumbered, Owned, Owning, Alive, Children
<1>10. CASE Ready
  BY <1>10 DEF Ready, procVars, ChildInv, ChildTyped, NextNumbered, Owned, Owning, Alive, Children
<1>11. CASE Reaped
  <2>1. \A g \in Children : ~Alive(g)
    BY <1>11 DEF Reaped, ChildInv, Owned, Alive
  <2> QED BY <1>11, <2>1, ReturnedInv DEF Reaped, procVars
<1>12. CASE ReadyChildEnds
  <2>1. \A g \in Children : ~Alive(g)
    BY <1>12 DEF ReadyChildEnds, ChildInv, Owned, Alive
  <2> DEFINE reason == IF flagged[gen] THEN "unresponsive" ELSE "exited"
  <2>2. Returned(reason) /\ (Stopping \/ restarts < MaxRestarts) /\ UNCHANGED <<gen, proc>>
    BY <1>12 DEF ReadyChildEnds, procVars
  <2> HIDE DEF reason
  <2> QED BY <2>1, <2>2, ReturnedInv
<1>13. CASE BackoffEnds
  BY <1>13 DEF BackoffEnds, procVars, ChildInv, ChildTyped, NextNumbered, Owned, Owning, Alive, Children
<1>14. CASE BackoffStops
  BY <1>14 DEF BackoffStops, procVars, ChildInv, ChildTyped, NextNumbered, Owned, Owning, Alive, Children
<1> QED BY <1>1, <1>2, <1>3, <1>4, <1>5, <1>6, <1>7, <1>8, <1>9, <1>10, <1>11, <1>12, <1>13, <1>14
        DEF RunStep

\* The child may listen, wedge or end on its own: it never comes to life again.
LEMMA ChildStepInv == ASSUME ChildInv, NEW c \in Children, ChildStep(c) PROVE ChildInv'
<1>1. run' = run /\ gen' = gen /\ restarts' = restarts
  BY DEF ChildStep, ChildListens, ChildWedges, ChildExits, ContextKills, runVars
<1>2. \E p \in {"serving", "wedged", "gone"} :
         Alive(c) /\ (proc' = [proc EXCEPT ![c] = p] \/ proc' = proc)
  BY DEF ChildStep, ChildListens, ChildWedges, ChildExits, ContextKills, Alive
<1>3. ChildTyped' /\ NextNumbered'
  BY <1>1, <1>2 DEF ChildInv, ChildTyped, NextNumbered
<1>4. Owned'
  BY <1>1, <1>2 DEF ChildInv, ChildTyped, Owned, Alive
<1> QED BY <1>3, <1>4 DEF ChildInv

\* The other goroutines leave the child and Run alone; a kill only marks the child.
LEMMA OthersInv ==
    ASSUME ChildInv,
           \/ Cancel \/ StopStep \/ UNCHANGED vars
           \/ \E g \in Children : WatchStep(g)
           \/ \E t \in Tunnels : TunnelStep(t)
    PROVE  ChildInv'
<1>1. UNCHANGED <<run, gen, restarts, proc>>
  <2>1. CASE Cancel BY <2>1 DEF Cancel, runVars, procVars
  <2>2. CASE StopStep
    BY <2>2 DEF StopStep, StopCloses, StopSignals, StopGraceEnds, StopReturns, runVars, procVars
  <2>3. CASE UNCHANGED vars BY <2>3 DEF vars, runVars, procVars
  <2>4. CASE \E g \in Children : WatchStep(g)
    BY <2>4 DEF WatchStep, WatchEnds, WatchTick, WatchHit, WatchMiss, WatchKills, runVars, procVars
  <2>5. CASE \E t \in Tunnels : TunnelStep(t)
    BY <2>5 DEF TunnelStep, DialReads, DialSucceeds, DialFails, RegisterWatcher, GatewayReadFails,
                RelayState, PhoneEnds, TunnelReturns, runVars, procVars
  <2> QED BY <2>1, <2>2, <2>3, <2>4, <2>5
<1> QED BY <1>1 DEF ChildInv, ChildTyped, NextNumbered, Owned, Alive

(***************************************************************************)
(* A living child is always the one Run is waiting for.  Needed because    *)
(* OneChild alone does not say that no child is alive when Start runs.     *)
(***************************************************************************)
THEOREM ChildInductive == Spec => []ChildInv
<1>1. Init => ChildInv BY ChildInit
<1>2. ChildInv /\ [Next]_vars => ChildInv'
  <2> SUFFICES ASSUME ChildInv, [Next]_vars PROVE ChildInv' OBVIOUS
  <2>1. CASE RunStep BY <2>1, RunStepInv
  <2>2. CASE \E g \in Children : ChildStep(g) BY <2>2, ChildStepInv
  <2>3. CASE \/ Cancel \/ StopStep \/ UNCHANGED vars
             \/ \E g \in Children : WatchStep(g)
             \/ \E t \in Tunnels : TunnelStep(t)
    BY <2>3, OthersInv
  <2> QED BY <2>1, <2>2, <2>3 DEF Next
<1> QED BY <1>1, <1>2, PTL DEF Spec

(***************************************************************************)
(* The bridge owns at most one living gateway child, on every path through *)
(* runOnce and whatever the watch, Stop and the daemon do meanwhile.       *)
(***************************************************************************)
THEOREM AtMostOneChild == Spec => []OneChild
<1>1. ChildInv => OneChild
  <2> SUFFICES ASSUME ChildInv PROVE OneChild OBVIOUS
  <2> DEFINE S == {g \in Children : Alive(g)}
  <2>1. S \subseteq {gen} BY DEF ChildInv, Owned
  <2>2. IsFiniteSet({gen}) /\ Cardinality({gen}) = 1 BY FS_Singleton
  <2>3. Cardinality(S) <= Cardinality({gen}) BY <2>1, <2>2, FS_Subset
  <2> QED BY <2>2, <2>3 DEF OneChild
<1> QED BY <1>1, ChildInductive, PTL
-----------------------------------------------------------------------------
\* Type correctness, one part for each goroutine's variables.

RunTyped ==
    /\ state \in States /\ port \in Children \cup {None} /\ cmd \in Children \cup {None}
    /\ restarts \in 0..MaxRestarts
    /\ lastRestart \in {None, "exited", "unresponsive", "start_failed"}
    /\ run \in {"begin", "spawn", "started", "await", "probe", "serve", "reap", "backoff", "done"}
    /\ why \in {None, "exited", "start_failed"} /\ gen \in {0} \cup Children

ProcTyped ==
    /\ proc \in [Children -> {"none", "booting", "serving", "wedged", "gone"}]
    /\ said \in [Children -> BOOLEAN]
    /\ killer \in [Children -> {None, "run", "watch", "ctx", "stop"}]

\* A watch that goes on has misses to spare.
WatchTyped ==
    /\ watch \in [Children -> {"off", "tick", "probing", "flagged", "over"}]
    /\ misses \in [Children -> 0..ProbeFailures] /\ flagged \in [Children -> BOOLEAN]
    /\ \A g \in Children : watch[g] \in {"off", "tick", "probing"} => misses[g] < ProbeFailures

StopTyped ==
    /\ ctxDone \in BOOLEAN /\ stopClosed \in BOOLEAN
    /\ stop \in {"idle", "signal", "grace", "wait", "returned"}
    /\ stopCmd \in Children \cup {None}

TunTyped ==
    /\ tun \in [Tunnels -> {"idle", "dialling", "dialled", "watching", "failing", "ended"}]
    /\ target \in [Tunnels -> Children \cup {None}]

QueueTyped ==
    queue \in [Tunnels -> Seq(States)] /\ \A t \in Tunnels : Len(queue[t]) <= Buffer

\* Only a child that was ready has a watch.
Unwatched ==
    \A g \in Children :
        g > gen \/ (g = gen /\ run \in {"started", "await", "probe"}) => watch[g] = "off"

TypeInv ==
    RunTyped /\ ProcTyped /\ WatchTyped /\ StopTyped /\ TunTyped /\ QueueTyped /\ Unwatched

LEMMA TypeInvTypes == TypeInv => TypeOK
BY DEF TypeInv, RunTyped, ProcTyped, WatchTyped, StopTyped, TunTyped, QueueTyped, TypeOK

LEMMA TypeInit == Init => TypeInv
<1> SUFFICES ASSUME Init PROVE TypeInv
  OBVIOUS
<1> USE SupervisorAssumption DEF Init
<1>1. RunTyped
  BY DEF RunTyped, States
<1>2. ProcTyped /\ WatchTyped
  BY DEF ProcTyped, WatchTyped
<1>3. StopTyped
  BY DEF StopTyped
<1>4. TunTyped
  BY DEF TunTyped
<1>5. QueueTyped /\ Unwatched
  BY DEF QueueTyped, Unwatched
<1> QED BY <1>1, <1>2, <1>3, <1>4, <1>5 DEF TypeInv

\* Process.Kill marks a child that exists.
LEMMA KillTyped ==
    ASSUME ProcTyped, NEW g \in Children, NEW who \in {"run", "watch", "ctx", "stop"},
           Kill(g, who), UNCHANGED <<proc, said>>
    PROVE  ProcTyped'
BY DEF ProcTyped, Kill

\* setState: a channel never holds more than its capacity.
LEMMA SetStateTyped ==
    ASSUME QueueTyped, NEW st \in States, NEW p, SetState(st, p)
    PROVE  QueueTyped'
<1>1. ASSUME NEW t \in Tunnels PROVE queue'[t] \in Seq(States) /\ Len(queue'[t]) <= Buffer
  <2>1. queue[t] \in Seq(States) /\ Len(queue[t]) <= Buffer
    BY DEF QueueTyped
  <2>2. CASE t \in Watching /\ Len(queue[t]) < Buffer
    <3>1. queue'[t] = Append(queue[t], st)
      BY <2>2 DEF SetState
    <3> QED BY <2>1, <2>2, <3>1, SupervisorAssumption
  <2>3. CASE ~(t \in Watching /\ Len(queue[t]) < Buffer)
    BY <2>1, <2>3 DEF SetState
  <2> QED BY <2>2, <2>3
<1> QED BY <1>1 DEF QueueTyped, SetState

\* What Run does once runOnce has returned.
LEMMA ReturnedTyped ==
    ASSUME RunTyped, QueueTyped, NEW reason \in {None, "exited", "unresponsive", "start_failed"},
           Returned(reason), Stopping \/ restarts < MaxRestarts, UNCHANGED <<cmd, why, gen>>
    PROVE  RunTyped' /\ QueueTyped'
<1>1. CASE Stopping
  BY <1>1 DEF Returned, RunTyped, QueueTyped
<1>2. CASE ~Stopping
  <2>1. /\ "down" \in States /\ SetState("down", None) /\ run' = "backoff"
        /\ restarts' = restarts + 1 /\ lastRestart' = reason
    BY <1>2 DEF Returned, States
  <2>2. QueueTyped'
    BY <2>1, SetStateTyped
  <2>3. restarts' \in 0..MaxRestarts
    BY <1>2, <2>1, SupervisorAssumption DEF RunTyped
  <2> QED BY <2>1, <2>2, <2>3 DEF RunTyped, SetState
<1> QED BY <1>1, <1>2

\* Run gives a child its watch when it is ready, and goes on to the next number after that.
LEMMA RunStepUnwatched == ASSUME TypeInv, ChildInv, RunStep PROVE Unwatched'
<1> USE DEF wVars, TypeInv, Unwatched
<1>1. CASE Start
  <2>1. gen + 1 \in Children /\ gen \in Nat /\ gen' = gen + 1 /\ watch' = watch
    BY <1>1, SupervisorAssumption DEF Start, ChildInv, ChildTyped, NextNumbered, Children
  <2>2. \A g \in Children : g \in Nat
    BY SupervisorAssumption DEF Children
  <2> QED BY <2>1, <2>2
<1>2. CASE Ready
  <2>1. gen \in Nat /\ gen' = gen /\ run' = "serve" /\ \A g \in Children : g # gen => watch'[g] = watch[g]
    BY <1>2 DEF Ready, ChildInv, ChildTyped, WatchTyped
  <2>2. \A g \in Children : g \in Nat
    BY SupervisorAssumption DEF Children
  <2> QED BY <2>1, <2>2
<1>3. CASE RecordCmd \/ PortSeen
  BY <1>3 DEF RecordCmd, PortSeen
<1>4. CASE \/ RunOnce \/ StartFails \/ ExitedBeforeReady \/ StartTimeout \/ StopSeen \/ ProbeFails
           \/ Reaped \/ ReadyChildEnds \/ BackoffEnds \/ BackoffStops
  <2>1. gen' = gen /\ watch' = watch /\ run' \notin {"started", "await", "probe"}
    BY <1>4
       DEF RunOnce, StartFails, ExitedBeforeReady, StartTimeout, StopSeen, ProbeFails, Reaped,
           ReadyChildEnds, BackoffEnds, BackoffStops, Returned, Reaping
  <2> QED BY <2>1
<1> QED BY <1>1, <1>2, <1>3, <1>4 DEF RunStep

LEMMA RunStepTyped == ASSUME TypeInv, ChildInv, RunStep PROVE TypeInv'
<1> USE DEF procVars, wVars, stopVars, tunVars
<1>0. Unwatched' /\ (run \in Owning => gen \in Children)
  BY RunStepUnwatched DEF ChildInv, Owned
<1>1. CASE RunOnce
  <2>1. "starting" \in States /\ SetState("starting", None) /\ run' = "spawn"
    BY <1>1 DEF RunOnce, States
  <2>2. QueueTyped'
    BY <2>1, SetStateTyped DEF TypeInv
  <2>3. RunTyped'
    BY <1>1, <2>1 DEF RunOnce, SetState, TypeInv, RunTyped
  <2> QED
    BY <1>0, <1>1, <2>2, <2>3 DEF RunOnce, TypeInv, ProcTyped, WatchTyped, StopTyped, TunTyped
<1>2. CASE StartFails \/ ExitedBeforeReady
  <2>1. Returned("start_failed") /\ (Stopping \/ restarts < MaxRestarts) /\ UNCHANGED <<cmd, why, gen>>
    BY <1>2 DEF StartFails, ExitedBeforeReady
  <2>2. RunTyped' /\ QueueTyped'
    BY <2>1, ReturnedTyped DEF TypeInv
  <2> QED
    BY <1>0, <1>2, <2>2 DEF StartFails, ExitedBeforeReady, TypeInv, ProcTyped, WatchTyped, StopTyped, TunTyped
<1>3. CASE Start
  <2>1. gen + 1 \in Children
    BY <1>3, SupervisorAssumption DEF Start, ChildInv, ChildTyped, NextNumbered, Children
  <2>2. RunTyped'
    BY <1>3, <2>1 DEF Start, TypeInv, RunTyped
  <2>3. ProcTyped'
    BY <1>3, <2>1 DEF Start, TypeInv, ProcTyped
  <2> QED
    BY <1>0, <1>3, <2>2, <2>3 DEF Start, TypeInv, WatchTyped, StopTyped, TunTyped, QueueTyped
<1>4. CASE RecordCmd \/ PortSeen \/ StopSeen \/ BackoffEnds \/ BackoffStops
  <2>1. RunTyped'
    BY <1>0, <1>4
       DEF RecordCmd, PortSeen, StopSeen, Reaping, BackoffEnds, BackoffStops, TypeInv, RunTyped, Owning
  <2> QED
    BY <1>0, <1>4, <2>1
       DEF RecordCmd, PortSeen, StopSeen, BackoffEnds, BackoffStops, TypeInv, ProcTyped,
           WatchTyped, StopTyped, TunTyped, QueueTyped
<1>5. CASE StartTimeout \/ ProbeFails
  <2>1. gen \in Children /\ Kill(gen, "run") /\ UNCHANGED <<proc, said>>
    BY <1>0, <1>5 DEF StartTimeout, ProbeFails, Owning
  <2>2. ProcTyped'
    BY <2>1, KillTyped DEF TypeInv
  <2>3. RunTyped'
    BY <1>5 DEF StartTimeout, ProbeFails, Reaping, TypeInv, RunTyped
  <2> QED
    BY <1>0, <1>5, <2>2, <2>3
       DEF StartTimeout, ProbeFails, TypeInv, WatchTyped, StopTyped, TunTyped, QueueTyped
<1>6. CASE Ready
  <2>1. "ready" \in States /\ gen \in Children /\ SetState("ready", gen)
    BY <1>0, <1>6 DEF Ready, States, Owning
  <2>2. QueueTyped'
    BY <2>1, SetStateTyped DEF TypeInv
  <2>3. RunTyped'
    BY <1>6, <2>1 DEF Ready, SetState, TypeInv, RunTyped
  <2>4. WatchTyped'
    BY <1>6, <2>1 DEF Ready, TypeInv, WatchTyped, Unwatched
  <2> QED BY <1>0, <1>6, <2>2, <2>3, <2>4 DEF Ready, TypeInv, ProcTyped, StopTyped, TunTyped
<1>7. CASE Reaped \/ ReadyChildEnds
  <2>1. PICK reason \in {None, "exited", "unresponsive", "start_failed"} : Returned(reason)
    BY <1>7 DEF Reaped, ReadyChildEnds, TypeInv, RunTyped
  <2>2. (Stopping \/ restarts < MaxRestarts) /\ UNCHANGED <<cmd, why, gen>>
    BY <1>7 DEF Reaped, ReadyChildEnds
  <2>3. RunTyped' /\ QueueTyped'
    BY <2>1, <2>2, ReturnedTyped DEF TypeInv
  <2> QED
    BY <1>0, <1>7, <2>3 DEF Reaped, ReadyChildEnds, TypeInv, ProcTyped, WatchTyped, StopTyped, TunTyped
<1> QED BY <1>1, <1>2, <1>3, <1>4, <1>5, <1>6, <1>7 DEF RunStep

LEMMA WatchStepTyped == ASSUME TypeInv, NEW g \in Children, WatchStep(g) PROVE TypeInv'
<1> USE DEF runVars, procVars, stopVars, tunVars
<1>1. UNCHANGED <<state, port, cmd, restarts, lastRestart, run, why, gen, proc, said>>
      /\ UNCHANGED <<ctxDone, stopClosed, stop, stopCmd, tun, target, queue>>
  BY DEF WatchStep, WatchEnds, WatchTick, WatchHit, WatchMiss, WatchKills
<1>2. ProcTyped'
  <2>1. CASE WatchKills(g)
    BY <2>1, KillTyped DEF WatchKills, TypeInv
  <2>2. CASE WatchEnds(g) \/ WatchTick(g) \/ WatchHit(g) \/ WatchMiss(g)
    BY <2>2 DEF WatchEnds, WatchTick, WatchHit, WatchMiss, TypeInv, ProcTyped
  <2> QED BY <2>1, <2>2 DEF WatchStep
<1>3. WatchTyped'
  <2>1. CASE WatchMiss(g)
    <3>1. misses[g] \in Nat /\ misses[g] < ProbeFailures /\ Missed(misses[g]) \in 0..ProbeFailures
      BY <2>1, SupervisorAssumption DEF WatchMiss, Missed, TypeInv, WatchTyped
    <3>2. CASE Missed(misses[g]) >= ProbeFailures
      BY <2>1, <3>1, <3>2 DEF WatchMiss, TypeInv, WatchTyped
    <3>3. CASE ~(Missed(misses[g]) >= ProbeFailures)
      BY <2>1, <3>1, <3>3, SupervisorAssumption DEF WatchMiss, Missed, TypeInv, WatchTyped
    <3> QED BY <3>2, <3>3
  <2>2. CASE WatchEnds(g) \/ WatchTick(g) \/ WatchHit(g) \/ WatchKills(g)
    BY <2>2, SupervisorAssumption
       DEF WatchEnds, WatchTick, WatchHit, WatchKills, TypeInv, WatchTyped
  <2> QED BY <2>1, <2>2 DEF WatchStep
<1>4. watch[g] # "off" /\ \A h \in Children : h # g => watch'[h] = watch[h]
  BY DEF WatchStep, WatchEnds, WatchTick, WatchHit, WatchMiss, WatchKills, TypeInv, WatchTyped
<1>5. Unwatched'
  BY <1>1, <1>4 DEF TypeInv, Unwatched
<1> QED BY <1>1, <1>2, <1>3, <1>5 DEF TypeInv, RunTyped, StopTyped, TunTyped, QueueTyped

LEMMA ChildStepTyped == ASSUME TypeInv, NEW g \in Children, ChildStep(g) PROVE TypeInv'
<1> USE DEF runVars, wVars, stopVars, tunVars
<1>1. ProcTyped'
  <2>1. CASE ContextKills(g)
    BY <2>1, KillTyped DEF ContextKills, TypeInv
  <2>2. CASE ChildListens(g) \/ ChildWedges(g) \/ ChildExits(g)
    BY <2>2 DEF ChildListens, ChildWedges, ChildExits, TypeInv, ProcTyped
  <2> QED BY <2>1, <2>2 DEF ChildStep
<1>2. UNCHANGED <<runVars, wVars, stopVars, tunVars>>
  BY DEF ChildStep, ChildListens, ChildWedges, ChildExits, ContextKills
<1> QED
  BY <1>1, <1>2 DEF TypeInv, RunTyped, WatchTyped, StopTyped, TunTyped, QueueTyped, Unwatched

LEMMA StopStepTyped == ASSUME TypeInv, Cancel \/ StopStep PROVE TypeInv'
<1> USE DEF runVars, procVars, wVars, tunVars
<1>1. ProcTyped'
  <2>1. CASE StopGraceEnds /\ stopCmd # None
    BY <2>1, KillTyped DEF StopGraceEnds, TypeInv, StopTyped
  <2>2. CASE ~(StopGraceEnds /\ stopCmd # None)
    BY <2>2 DEF Cancel, StopStep, StopCloses, StopSignals, StopGraceEnds, StopReturns, TypeInv, ProcTyped
  <2> QED BY <2>1, <2>2
<1>2. StopTyped'
  BY DEF Cancel, StopStep, StopCloses, StopSignals, StopGraceEnds, StopReturns, TypeInv, StopTyped, RunTyped
<1>3. UNCHANGED <<runVars, wVars, tunVars>>
  BY DEF Cancel, StopStep, StopCloses, StopSignals, StopGraceEnds, StopReturns
<1> QED
  BY <1>1, <1>2, <1>3 DEF TypeInv, RunTyped, WatchTyped, TunTyped, QueueTyped, Unwatched

LEMMA TunnelStepTyped == ASSUME TypeInv, NEW t \in Tunnels, TunnelStep(t) PROVE TypeInv'
<1> USE DEF runVars, procVars, wVars, stopVars
<1>1. TunTyped'
  BY DEF TunnelStep, DialReads, DialSucceeds, DialFails, RegisterWatcher, GatewayReadFails, RelayState,
         PhoneEnds, TunnelReturns, Move, TypeInv, TunTyped, RunTyped
<1>2. QueueTyped'
  <2>1. CASE RelayState(t)
    <3>1. queue[t] \in Seq(States) /\ queue[t] # <<>> /\ Len(queue[t]) <= Buffer
      BY <2>1 DEF RelayState, TypeInv, QueueTyped
    <3>2. Tail(queue[t]) \in Seq(States) /\ Len(Tail(queue[t])) <= Buffer
      BY <3>1, SupervisorAssumption
    <3> QED BY <2>1, <3>2 DEF RelayState, TypeInv, QueueTyped
  <2>2. CASE TunnelReturns(t)
    <3>1. <<>> \in Seq(States) /\ Len(<<>>) <= Buffer
      BY SupervisorAssumption
    <3> QED BY <2>2, <3>1 DEF TunnelReturns, TypeInv, QueueTyped
  <2>3. CASE \/ DialReads(t) \/ DialSucceeds(t) \/ DialFails(t) \/ RegisterWatcher(t)
             \/ GatewayReadFails(t) \/ PhoneEnds(t)
    BY <2>3
       DEF DialReads, DialSucceeds, DialFails, RegisterWatcher, GatewayReadFails, PhoneEnds,
           TypeInv, QueueTyped
  <2> QED BY <2>1, <2>2, <2>3 DEF TunnelStep
<1>3. UNCHANGED <<runVars, procVars, wVars, stopVars>>
  BY DEF TunnelStep, DialReads, DialSucceeds, DialFails, RegisterWatcher, GatewayReadFails, RelayState,
         PhoneEnds, TunnelReturns
<1> QED
  BY <1>1, <1>2, <1>3 DEF TypeInv, RunTyped, ProcTyped, WatchTyped, StopTyped, Unwatched

LEMMA TypeStep == ASSUME TypeInv, ChildInv, [Next]_vars PROVE TypeInv'
<1>1. CASE UNCHANGED vars
  BY <1>1
     DEF vars, runVars, procVars, wVars, stopVars, tunVars, TypeInv, RunTyped, ProcTyped, WatchTyped,
         StopTyped, TunTyped, QueueTyped, Unwatched
<1> QED
  BY <1>1, RunStepTyped, WatchStepTyped, ChildStepTyped, StopStepTyped, TunnelStepTyped DEF Next

\* The types hold in every reachable state, with what they need of the watch.
THEOREM TypeInductive == Spec => []TypeInv
BY ChildInductive, TypeInit, TypeStep, PTL DEF Spec

(***************************************************************************)
(* Type correctness for every number of restarts, probe failures, tunnels  *)
(* and every channel capacity: no watcher's channel overflows and no watch *)
(* counts past the limit.                                                  *)
(***************************************************************************)
THEOREM TypeCorrect == Spec => []TypeOK
BY TypeInductive, TypeInvTypes, PTL

-----------------------------------------------------------------------------
\* Who killed the child.

\* watch raises the flag before it kills, and nobody lowers it.
FlagFirst ==
    \A g \in Children : killer[g] = "watch" \/ watch[g] = "flagged" => flagged[g]

LEMMA FlagInit == Init => FlagFirst
BY SupervisorAssumption DEF Init, FlagFirst

LEMMA FlagStep == ASSUME TypeInv, FlagFirst, [Next]_vars PROVE FlagFirst'
<1> USE DEF procVars, wVars
<1>0. \A g \in Children, who \in {"run", "ctx", "stop"} : Kill(g, who) =>
        \A h \in Children : killer'[h] = "watch" => killer[h] = "watch"
  BY DEF Kill, TypeInv, ProcTyped
<1>1. ASSUME UNCHANGED <<watch, flagged>>,
             \A h \in Children : killer'[h] = "watch" => killer[h] = "watch"
      PROVE  FlagFirst'
  BY <1>1 DEF FlagFirst
<1>2. ASSUME NEW g \in Children, WatchStep(g) PROVE FlagFirst'
  <2>1. CASE WatchMiss(g)
    BY <2>1 DEF WatchMiss, FlagFirst, TypeInv, WatchTyped
  <2>2. CASE WatchKills(g)
    BY <2>2 DEF WatchKills, Kill, FlagFirst, TypeInv, WatchTyped, ProcTyped
  <2>3. CASE WatchEnds(g) \/ WatchTick(g) \/ WatchHit(g)
    BY <2>3 DEF WatchEnds, WatchTick, WatchHit, FlagFirst, TypeInv, WatchTyped
  <2> QED BY <1>2, <2>1, <2>2, <2>3 DEF WatchStep
<1>3. ASSUME NEW g \in Children, ChildStep(g) PROVE FlagFirst'
  BY <1>0, <1>1, <1>3 DEF ChildStep, ChildListens, ChildWedges, ChildExits, ContextKills
<1>4. CASE Cancel \/ StopStep
  <2>1. stopCmd # None => stopCmd \in Children
    BY DEF TypeInv, StopTyped
  <2> QED
    BY <1>0, <1>1, <1>4, <2>1 DEF Cancel, StopStep, StopCloses, StopSignals, StopGraceEnds, StopReturns
<1>5. CASE RunStep
  <2>1. CASE StartTimeout \/ ProbeFails
    <3>1. UNCHANGED <<watch, flagged>> /\ Kill(gen, "run")
      BY <2>1 DEF StartTimeout, ProbeFails
    <3>2. \A h \in Children : killer'[h] = "watch" => killer[h] = "watch"
      BY <3>1 DEF Kill, TypeInv, ProcTyped
    <3> QED BY <1>1, <3>1, <3>2
  <2>2. CASE Ready
    BY <2>2 DEF Ready, FlagFirst, TypeInv, WatchTyped
  <2>3. CASE ~(StartTimeout \/ ProbeFails \/ Ready)
    BY <1>1, <1>5, <2>3
       DEF RunStep, RunOnce, StartFails, Start, RecordCmd, PortSeen, ExitedBeforeReady, StopSeen,
           Reaped, ReadyChildEnds, BackoffEnds, BackoffStops
  <2> QED BY <2>1, <2>2, <2>3
<1>6. CASE \E t \in Tunnels : TunnelStep(t)
  BY <1>1, <1>6
     DEF TunnelStep, DialReads, DialSucceeds, DialFails, RegisterWatcher, GatewayReadFails, RelayState,
         PhoneEnds, TunnelReturns
<1>7. CASE UNCHANGED vars
  BY <1>1, <1>7 DEF vars
<1> QED BY <1>2, <1>3, <1>4, <1>5, <1>6, <1>7 DEF Next

(***************************************************************************)
(* Run, watch: a restart of a ready child that the probe watch killed is   *)
(* recorded as "unresponsive", however the kill, the child's exit, the     *)
(* daemon's context and Stop cross, for every limit of probe failures.     *)
(***************************************************************************)
THEOREM WatchKillReported == Spec => WatchKillIsReported
<1>1. ASSUME TypeInv, ChildInv, FlagFirst, [Next]_vars,
             run = "serve", restarts' # restarts, killer[gen] = "watch"
      PROVE  lastRestart' = "unresponsive"
  <2>1. CASE RunStep
    <3>1. ReadyChildEnds
      BY <1>1, <2>1
         DEF RunStep, RunOnce, StartFails, Start, RecordCmd, PortSeen, ExitedBeforeReady, StartTimeout,
             StopSeen, ProbeFails, Ready, Reaped, BackoffEnds, BackoffStops
    <3>2. gen \in Children /\ flagged[gen]
      BY <1>1 DEF FlagFirst, TypeInv, RunTyped, ChildInv, Owned, Owning
    <3> QED BY <1>1, <3>1, <3>2 DEF ReadyChildEnds, Returned
  <2>2. CASE Cancel \/ StopStep
    BY <1>1, <2>2 DEF Cancel, StopStep, StopCloses, StopSignals, StopGraceEnds, StopReturns, runVars
  <2>3. CASE \E g \in Children : WatchStep(g)
    BY <1>1, <2>3 DEF WatchStep, WatchEnds, WatchTick, WatchHit, WatchMiss, WatchKills, runVars
  <2>4. CASE \E g \in Children : ChildStep(g)
    BY <1>1, <2>4 DEF ChildStep, ChildListens, ChildWedges, ChildExits, ContextKills, runVars
  <2>5. CASE \E t \in Tunnels : TunnelStep(t)
    BY <1>1, <2>5
       DEF TunnelStep, DialReads, DialSucceeds, DialFails, RegisterWatcher, GatewayReadFails,
           RelayState, PhoneEnds, TunnelReturns, runVars
  <2>6. CASE UNCHANGED vars
    BY <1>1, <2>6 DEF vars, runVars
  <2> QED BY <1>1, <2>1, <2>2, <2>3, <2>4, <2>5, <2>6 DEF Next
<1> QED
  BY <1>1, FlagInit, FlagStep, TypeInductive, ChildInductive, PTL DEF Spec, WatchKillIsReported
===============================================================================
