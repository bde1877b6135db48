------------------------------- MODULE PushWatcher -------------------------------
(***************************************************************************)
(* Push notifications: the registry of phones that want them               *)
(* (internal/push/registry.go), the watcher that polls the gateway for     *)
(* phones that are not connected (watcher.go, gateway.go), and what the    *)
(* daemon does to both: registrations that arrive through a tunnel,        *)
(* revocations, crashes and restarts (cmd/hermote-bridge/daemon.go).       *)
(*                                                                         *)
(* One round of the watcher reads four things at four times: who is        *)
(* offline, which sessions there are, what happened in one, and, for each  *)
(* alert, who is still paired.  Everything else goes on meanwhile.         *)
(***************************************************************************)
EXTENDS Integers, Sequences

CONSTANTS
    Devices,    \* phones
    Sessions,   \* sessions of the gateway
    MaxEvents,  \* bound: events that happen in a behaviour
    None        \* no session, a session never observed

ASSUME PushAssumption == MaxEvents \in Nat /\ None \notin Sessions \cup Nat

Events == 1..MaxEvents

VARIABLES
    \* The bridge.
    push,      \* "down" (no daemon), "running", "disabled" (OpenRegistry failed)
    trusted,   \* phones in devices.json
    online,    \* Server.OnlineDevices
    revoking,  \* revocations committed by the daemon that have yet to drop the registration
    devices,   \* Registry.devices
    file,      \* the registrations in push-devices.json
    torn,      \* a write of the file ended half way
    \* The gateway (external).
    count,     \* events so far; an event is named by its number
    ring,      \* a session's events, oldest first; the sequence number is the position
    \* The watcher.
    wpc,       \* "idle", "sessions", "events" (of one session), "deliver" (one alert)
    offline,   \* the snapshot of offlineDevices
    todo,      \* sessions of this round that are still to do
    at,        \* the session it is at
    batch,     \* events of it still to be looked at: <<sequence number, event>>
    last,      \* its last sequence number when the round came to it
    seen,      \* Watcher.seen
    list,      \* the paired devices deliver has read
    to,        \* registrations deliver has still to look at
    alert,     \* the event it delivers
    \* What has happened, for the properties.
    sent,      \* how often an event was pushed to a phone, at most 2
    paired     \* the phones that were paired at some time since the event

regVars     == <<devices, file, torn>>
gatewayVars == <<count, ring>>
roundVars   == <<wpc, offline, todo, at, batch, last, list, to, alert>>
histVars    == <<sent, paired>>
vars == <<push, trusted, online, revoking, regVars, gatewayVars, roundVars, seen, histVars>>

TypeOK ==
    /\ push \in {"down", "running", "disabled"}
    /\ trusted \subseteq Devices /\ online \subseteq Devices /\ revoking \subseteq Devices
    /\ devices \subseteq Devices /\ file \subseteq Devices
    /\ torn \in BOOLEAN
    /\ count \in 0..MaxEvents
    /\ ring \in [Sessions -> Seq(1..count)]
    /\ wpc \in {"idle", "sessions", "events", "deliver"}
    /\ wpc # "idle" => push = "running"
    /\ offline \subseteq Devices /\ list \subseteq Devices /\ to \subseteq offline
    /\ todo \subseteq Sessions /\ at \in Sessions \cup {None}
    /\ batch \in Seq((1..count) \X (1..count))
    /\ last \in 0..count
    /\ seen \in [Sessions -> (0..count) \cup {None}]
    /\ alert \in 0..count
    /\ sent \in [Events \X Devices -> 0..2]
    /\ paired \in [Events -> SUBSET Devices]

Idle ==
    /\ wpc' = "idle" /\ offline' = {} /\ todo' = {} /\ at' = None
    /\ batch' = <<>> /\ last' = 0 /\ list' = {} /\ to' = {} /\ alert' = 0

Init ==
    /\ push = "running"
    /\ trusted = Devices /\ online = {} /\ revoking = {}
    /\ devices = {} /\ file = {} /\ torn = FALSE
    /\ count = 0 /\ ring = [s \in Sessions |-> <<>>]
    /\ wpc = "idle" /\ offline = {} /\ todo = {} /\ at = None
    /\ batch = <<>> /\ last = 0 /\ list = {} /\ to = {} /\ alert = 0
    /\ seen = [s \in Sessions |-> None]
    /\ sent = [p \in Events \X Devices |-> 0]
    /\ paired = [e \in Events |-> {}]

(***************************************************************************)
(* The registry.                                                           *)
(***************************************************************************)
\* Set, Remove: the map is changed, and persist writes the file or fails, at worst after
\* os.WriteFile has emptied it.
Persist(new) ==
    /\ devices' = new
    /\ \/ file' = new /\ torn' = FALSE
       \/ file' = file /\ torn' \in {torn, TRUE}

\* A push frame of a connected phone (OnPush), revoked or not: a token registers, an empty
\* token withdraws.
Register(d) ==
    /\ push = "running" /\ d \in online
    /\ \E new \in {devices \cup {d}, devices \ {d}} : Persist(new)
    /\ UNCHANGED <<push, trusted, online, revoking, gatewayVars, roundVars, seen, histVars>>

(***************************************************************************)
(* Phones come and go; the daemon and the CLI revoke.                      *)
(***************************************************************************)
Connect(d) ==
    /\ push # "down" /\ d \in trusted \ online
    /\ online' = online \cup {d}
    /\ UNCHANGED <<push, trusted, revoking, regVars, gatewayVars, roundVars, seen, histVars>>

Disconnect(d) ==
    /\ d \in online
    /\ online' = online \ {d}
    /\ UNCHANGED <<push, trusted, revoking, regVars, gatewayVars, roundVars, seen, histVars>>

\* A pairing records the phone.
Pair(d) ==
    /\ push # "down" /\ d \notin trusted
    /\ trusted' = trusted \cup {d}
    /\ paired' = [e \in Events |-> IF e <= count THEN paired[e] \cup {d} ELSE paired[e]]
    /\ UNCHANGED <<push, online, revoking, regVars, gatewayVars, roundVars, seen, sent>>

\* daemon.Revoke: the store has committed. With a diagnostic the registration is left alone,
\* otherwise it is dropped next; the phone's connections close by themselves.
Revoke(d) ==
    /\ push # "down" /\ d \in trusted
    /\ trusted' = trusted \ {d}
    /\ revoking' \in {revoking, IF push = "running" THEN revoking \cup {d} ELSE revoking}
    /\ UNCHANGED <<push, online, regVars, gatewayVars, roundVars, seen, histVars>>

RevokeDrops(d) ==
    /\ d \in revoking
    /\ revoking' = revoking \ {d}
    /\ Persist(devices \ {d})
    /\ UNCHANGED <<push, trusted, online, gatewayVars, roundVars, seen, histVars>>

\* `devices revoke` got no answer from the daemon, be it down or busy, and edits devices.json
\* itself: neither the registry nor the phone's connections are told.
CLIRevoke(d) ==
    /\ d \in trusted
    /\ trusted' = trusted \ {d}
    /\ UNCHANGED <<push, online, revoking, regVars, gatewayVars, roundVars, seen, histVars>>

\* The daemon stops or dies, at worst while it writes the file.
DaemonStops ==
    /\ push # "down"
    /\ push' = "down"
    /\ online' = {} /\ revoking' = {} /\ devices' = {}
    /\ Idle /\ seen' = [s \in Sessions |-> None]
    /\ \/ UNCHANGED <<file, torn>>
       \/ push = "running" /\ torn' = TRUE /\ UNCHANGED file
    /\ UNCHANGED <<trusted, gatewayVars, histVars>>

\* OpenRegistry, without an error: a torn file cannot be parsed, and any may be unreadable.
OpenRegistry == ~torn /\ devices' = file

\* startPush: without a registry push is disabled; registrations are not recorded
\* then and the watcher does not run. (Without an APNs key they are, and no round ever
\* begins.)
DaemonStarts ==
    /\ push = "down"
    /\ \/ push' = "running" /\ OpenRegistry
       \/ push' = "disabled" /\ UNCHANGED devices
    /\ UNCHANGED <<trusted, online, revoking, file, torn, gatewayVars, roundVars, seen, histVars>>

(***************************************************************************)
(* The gateway (external).                                                 *)
(***************************************************************************)
\* Something happens in a session.
Happens(s) ==
    /\ count < MaxEvents
    /\ count' = count + 1
    /\ ring' = [ring EXCEPT ![s] = Append(@, count + 1)]
    /\ paired' = [paired EXCEPT ![count + 1] = trusted]
    /\ UNCHANGED <<push, trusted, online, revoking, regVars, roundVars, seen, sent>>

\* The gateway restarts: the sessions keep their ids and count from one again.
GatewayRestarts ==
    /\ ring' = [s \in Sessions |-> <<>>]
    /\ UNCHANGED <<push, trusted, online, revoking, regVars, count, roundVars, seen, histVars>>

\* What session.events.since may answer: what is newer than the number it is given, and
\* perhaps some of what is not.
Replies(s, lastSeen) ==
    LET numbered == [n \in 1..Len(ring[s]) |-> <<n, ring[s][n]>>] IN
    {SubSeq(numbered, first, Len(numbered)) :
        first \in 1..(IF lastSeen < Len(numbered) THEN lastSeen + 1 ELSE Len(numbered) + 1)}

(***************************************************************************)
(* The watcher.                                                            *)
(***************************************************************************)
\* offlineDevices may answer: the registered phones that are not connected, but for those
\* that asked for no kind of alert.
OfflineDevices == SUBSET (devices \ online)

\* Poll: the offline phones, and the sessions; without the first or an answer to the second
\* the round is over.
Poll ==
    /\ push = "running" /\ wpc = "idle"
    /\ offline' \in OfflineDevices /\ offline' # {}
    /\ todo' = Sessions
    /\ wpc' = "sessions"
    /\ UNCHANGED <<push, trusted, online, revoking, regVars, gatewayVars, seen, histVars,
                   at, batch, last, list, to, alert>>

RoundEnds ==
    /\ wpc = "sessions" /\ todo = {}
    /\ Idle
    /\ UNCHANGED <<push, trusted, online, revoking, regVars, gatewayVars, seen, histVars>>

\* The gateway does not answer: the session is left for the next round.
EventsFail(s) ==
    /\ wpc = "sessions" /\ s \in todo
    /\ todo' = todo \ {s}
    /\ UNCHANGED <<push, trusted, online, revoking, regVars, gatewayVars, seen, histVars,
                   wpc, offline, at, batch, last, list, to, alert>>

\* maxSeq: the events of an answer are in order.
MaxSeq(events) == IF events = <<>> THEN 0 ELSE events[Len(events)][1]

\* Mutant: what a session has when it is first seen is news.
FirstSightNews(s) ==
    /\ wpc = "sessions" /\ s \in todo /\ seen[s] = None
    /\ todo' = todo \ {s}
    /\ seen' = [seen EXCEPT ![s] = 0]
    /\ UNCHANGED <<push, trusted, online, revoking, regVars, gatewayVars, histVars,
                   wpc, offline, at, batch, last, list, to, alert>>

\* A session seen for the first time: its history is not news.
FirstSight(s) ==
    /\ wpc = "sessions" /\ s \in todo /\ seen[s] = None
    /\ todo' = todo \ {s}
    /\ \E events \in Replies(s, 0) :
        seen' = [seen EXCEPT ![s] = MaxSeq(events)]
    /\ UNCHANGED <<push, trusted, online, revoking, regVars, gatewayVars, histVars,
                   wpc, offline, at, batch, last, list, to, alert>>

FetchEvents(s) ==
    /\ wpc = "sessions" /\ s \in todo /\ seen[s] # None
    /\ todo' = todo \ {s}
    /\ batch' \in Replies(s, seen[s])
    /\ at' = s /\ last' = seen[s]
    /\ wpc' = "events"
    /\ UNCHANGED <<push, trusted, online, revoking, regVars, gatewayVars, seen, histVars,
                   offline, list, to, alert>>

BatchEnds ==
    /\ wpc = "events" /\ batch = <<>>
    /\ wpc' = "sessions" /\ at' = None /\ last' = 0
    /\ UNCHANGED <<push, trusted, online, revoking, regVars, gatewayVars, seen, histVars,
                   offline, todo, batch, list, to, alert>>

\* The next event: an old one, or one Classify makes nothing of, or whose delivery finds the
\* paired devices unreadable, is passed over.
PassOver ==
    /\ wpc = "events" /\ batch # <<>>
    /\ LET seq == Head(batch)[1] IN
       seen' = [seen EXCEPT ![at] = IF seq > last /\ seq > @ THEN seq ELSE @]
    /\ batch' = Tail(batch)
    /\ UNCHANGED <<push, trusted, online, revoking, regVars, gatewayVars, histVars,
                   wpc, offline, todo, at, last, list, to, alert>>

\* deliver reads the paired devices.
Deliver ==
    /\ wpc = "events" /\ batch # <<>>
    /\ LET seq == Head(batch)[1] IN
       /\ seq > last
       /\ seen' = [seen EXCEPT ![at] = IF seq > @ THEN seq ELSE @]
    /\ alert' = Head(batch)[2]
    /\ batch' = Tail(batch)
    /\ list' = trusted
    /\ to' = offline
    /\ wpc' = "deliver"
    /\ UNCHANGED <<push, trusted, online, revoking, regVars, gatewayVars, histVars,
                   offline, todo, at, last>>

DeliverEnds ==
    /\ wpc = "deliver" /\ to = {}
    /\ wpc' = "events" /\ list' = {} /\ alert' = 0
    /\ UNCHANGED <<push, trusted, online, revoking, regVars, gatewayVars, seen, histVars,
                   offline, todo, at, batch, last, to>>

\* A phone that is not paired: its registration is dropped.
DropUnpaired(d) ==
    /\ wpc = "deliver" /\ d \in to \ list
    /\ to' = to \ {d}
    /\ Persist(devices \ {d})
    /\ UNCHANGED <<push, trusted, online, revoking, gatewayVars, seen, histVars,
                   wpc, offline, todo, at, batch, last, list, alert>>

\* Mutant: whoever is in the snapshot gets the alert.
SendAnyone(d) ==
    /\ wpc = "deliver" /\ d \in to
    /\ to' = to \ {d}
    /\ sent' = [sent EXCEPT ![<<alert, d>>] = IF @ < 2 THEN @ + 1 ELSE @]
    /\ UNCHANGED <<push, trusted, online, revoking, regVars, gatewayVars, seen, paired,
                   wpc, offline, todo, at, batch, last, list, alert>>

\* The alert goes to APNs.
Send(d) ==
    /\ wpc = "deliver" /\ d \in to \cap list
    /\ to' = to \ {d}
    /\ sent' = [sent EXCEPT ![<<alert, d>>] = IF @ < 2 THEN @ + 1 ELSE @]
    /\ UNCHANGED <<push, trusted, online, revoking, regVars, gatewayVars, seen, paired,
                   wpc, offline, todo, at, batch, last, list, alert>>

\* The phone does not want this kind of alert, or APNs does not take it; that a token is
\* unregistered costs the phone its registration, as it is by now.
SendFails(d) ==
    /\ wpc = "deliver" /\ d \in to \cap list
    /\ to' = to \ {d}
    /\ Persist(devices \ {d}) \/ UNCHANGED regVars
    /\ UNCHANGED <<push, trusted, online, revoking, gatewayVars, seen, histVars,
                   wpc, offline, todo, at, batch, last, list, alert>>

(***************************************************************************)
(* The specification.                                                      *)
(***************************************************************************)
Bridge ==
    \/ \E d \in Devices :
        \/ Register(d) \/ Connect(d) \/ Disconnect(d) \/ Pair(d)
        \/ Revoke(d) \/ RevokeDrops(d) \/ CLIRevoke(d)
    \/ DaemonStops \/ DaemonStarts

Watcher ==
    \/ Poll \/ RoundEnds \/ BatchEnds \/ PassOver \/ Deliver \/ DeliverEnds
    \/ \E s \in Sessions : EventsFail(s) \/ FirstSight(s) \/ FetchEvents(s)
    \/ \E d \in Devices : DropUnpaired(d) \/ Send(d) \/ SendFails(d)

Next ==
    \/ Bridge \/ Watcher
    \/ \E s \in Sessions : Happens(s)
    \/ GatewayRestarts

Spec == Init /\ [][Next]_vars

(***************************************************************************)
(* Properties.                                                             *)
(***************************************************************************)
\* Watcher.Trusted, deliver: a phone gets an alert only if it was paired at some time since
\* the event: neither the snapshot of the round, nor a registration that outlived the
\* revocation (a diagnostic, a late push frame, a revocation by the command line, a failed
\* write), makes the watcher push what happened after a phone was revoked.
PushesStayPaired ==
    \A e \in Events, d \in Devices : sent[<<e, d>>] > 0 => d \in paired[e]

\* Poll: nothing is pushed twice to a phone, although the ring replays what was handled, the
\* watcher forgets what it has seen when the daemon restarts, and a gateway that restarts
\* counts from one again.
PushedOnce == \A e \in Events, d \in Devices : sent[<<e, d>>] <= 1
==================================================================================
