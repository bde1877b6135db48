----------------------------- MODULE RelaySession -----------------------------
(***************************************************************************)
(* One attached bridge at the relay, from its attach to its end            *)
(* (internal/relay/relay.go: session, servePhone and the bridge->phones    *)
(* loop of serveBridge).                                                   *)
(*                                                                         *)
(* Every phone socket has its own goroutine, the bridge's frames are read  *)
(* by one loop, timers and closing goroutines run beside them; they share  *)
(* session.phones under session.mu.  What the bridge sends is arbitrary    *)
(* here: any channel, any token it may have seen.  A phone of the model    *)
(* may connect again, as a new socket with a new token, once its last      *)
(* socket is closed.                                                       *)
(***************************************************************************)
EXTENDS Integers, FiniteSets

CONSTANTS
    Phones,        \* phone sockets, each with its own 16-byte token
    Keys,          \* limitKey values: an IPv4 address or an IPv6 /64
    MaxChannel,    \* channel numbers are 1..MaxChannel (65535, uint16 without 0)
    MaxAdmitted,   \* Limits.MaxPhonesPerSession (4)
    MaxPending,    \* Limits.MaxPendingPerSession (8)
    MaxPerKey,     \* Limits.MaxPendingPerIP (4)
    NoPhone,       \* a channel nobody holds
    NoKey          \* the key of a phone that is not connected

ASSUME LimitsAssumption ==
    /\ MaxChannel \in Nat /\ MaxAdmitted \in Nat \ {0}
    /\ MaxPending \in Nat \ {0} /\ MaxPerKey \in Nat \ {0}
    /\ MaxChannel >= MaxAdmitted + MaxPending
    /\ NoPhone \notin Phones /\ NoKey \notin Keys
    /\ IsFiniteSet(Phones)

Channels == 1..MaxChannel

VARIABLES
    sess,       \* "live": in Server.sessions; "detached": superseded, drained or lost,
                \* its loop may be inside one last iteration; "ended": phones closed
    phones,     \* session.phones
    nextCh,     \* session.nextCh
    ppc,        \* where each phone's servePhone is
    key,        \* phone.key
    opened,     \* phone.opened, as a rank among the connected phones
    chan,       \* phone.ch
    frames,     \* phone.bridgeFrames; only 0, 1 and more are told apart
    admitted,   \* phone.admitted
    vouched,    \* phone.vouched
    sock,       \* the phone's socket: "open", "closing" (phone.shutdown was called
                \* and its goroutine has not run), "closed"
    bclose,     \* a channel the bridge loop has decided to close, or 0
    draining    \* Drain has taken the session and not closed its phones yet

structVars == <<key, opened, frames, admitted, vouched>>
vars == <<sess, phones, nextCh, ppc, key, opened, chan, frames, admitted, vouched, sock, bclose,
          draining>>

TypeOK ==
    /\ sess \in {"live", "detached", "ended"}
    /\ phones \in [Channels -> Phones \cup {NoPhone}]
    /\ nextCh \in 0..MaxChannel
    /\ ppc \in [Phones -> {"idle", "arrived", "registered", "serving"}]
    /\ key \in [Phones -> Keys \cup {NoKey}]
    /\ opened \in [Phones -> 0..Cardinality(Phones)]
    /\ chan \in [Phones -> 0..MaxChannel]
    /\ frames \in [Phones -> 0..2]
    /\ admitted \in [Phones -> BOOLEAN]
    /\ vouched \in [Phones -> BOOLEAN]
    /\ sock \in [Phones -> {"open", "closing", "closed"}]
    /\ bclose \in 0..MaxChannel
    /\ draining \in BOOLEAN

Init ==
    /\ sess = "live"
    /\ phones = [ch \in Channels |-> NoPhone]
    /\ nextCh = 0
    /\ ppc = [p \in Phones |-> "idle"]
    /\ key = [p \in Phones |-> NoKey]
    /\ opened = [p \in Phones |-> 0]
    /\ chan = [p \in Phones |-> 0]
    /\ frames = [p \in Phones |-> 0]
    /\ admitted = [p \in Phones |-> FALSE]
    /\ vouched = [p \in Phones |-> FALSE]
    /\ sock = [p \in Phones |-> "closed"]
    /\ bclose = 0
    /\ draining = FALSE

Holding     == {p \in Phones : \E ch \in Channels : phones[ch] = p}
Admitted    == {p \in Holding : admitted[p]}
Pending     == {p \in Holding : ~admitted[p]}

\* Mutant: a vouched phone may be displaced.
EligibleVouched(k) == {p \in Pending : key[p] = k}

\* Pending phones a newcomer may displace.
Eligible(k) == {p \in Pending : key[p] = k /\ ~vouched[p]}
Oldest(S)   == {p \in S : \A q \in S : opened[p] <= opened[q]}

\* phone.shutdown for the phones of S: their sockets are closed by other goroutines.
Shutdown(S) ==
    sock' = [p \in Phones |-> IF p \in S /\ sock[p] = "open" THEN "closing" ELSE sock[p]]

\* The phones of S are no longer reachable through session.phones: what their structs
\* said is never read again, and the ranks of the others close up.
Forget(S) ==
    /\ key' = [p \in Phones |-> IF p \in S THEN NoKey ELSE key[p]]
    /\ opened' = [p \in Phones |-> IF p \in S THEN 0 ELSE
                     Cardinality({q \in Phones \ S : 0 < opened[q] /\ opened[q] <= opened[p]})]
    /\ frames' = [p \in Phones |-> IF p \in S THEN 0 ELSE frames[p]]
    /\ admitted' = [p \in Phones |-> admitted[p] /\ p \notin S]
    /\ vouched' = [p \in Phones |-> vouched[p] /\ p \notin S]

\* session.phones without the phones of S.
Without(S) == [ch \in Channels |-> IF phones[ch] \in S THEN NoPhone ELSE phones[ch]]

(***************************************************************************)
(* servePhone.                                                             *)
(***************************************************************************)
\* The socket is accepted, the session looked up and the phone stamped.
Arrive(p, k) ==
    /\ sess = "live"
    /\ ppc[p] = "idle" /\ sock[p] = "closed"
    /\ key' = [key EXCEPT ![p] = k]
    /\ ppc' = [ppc EXCEPT ![p] = "arrived"]
    /\ opened' = [opened EXCEPT ![p] = Cardinality({q \in Phones : opened[q] > 0}) + 1]
    /\ sock' = [sock EXCEPT ![p] = "open"]
    /\ UNCHANGED <<sess, phones, nextCh, chan, frames, admitted, vouched, bclose, draining>>

\* Pending phones of a key, protected ones included.
SameKey(k) == Cardinality({p \in Pending : key[p] = k})

\* displacementVictim: the oldest eligible phone of this key when the key is full, else,
\* when the session is full, the oldest of the key with most eligible phones. A key
\* with no eligible phone is never picked, so the result may be empty.
DisplacementVictim(k) ==
    LET Busiest == {j \in Keys :
            /\ Eligible(j) # {}
            /\ \A i \in Keys : Cardinality(Eligible(i)) <= Cardinality(Eligible(j))}
    IN  CASE SameKey(k) >= MaxPerKey -> Oldest(Eligible(k))
          [] SameKey(k) < MaxPerKey /\ Cardinality(Pending) < MaxPending -> {}
          [] OTHER -> Oldest(UNION {Eligible(j) : j \in Busiest})

\* A newcomer of key k finds the pending slots of its key or of the session taken.
Crowded(k) == SameKey(k) >= MaxPerKey \/ Cardinality(Pending) >= MaxPending

\* The session has its admitted phones, or only protected pending ones: refused.
Refuse(p) ==
    /\ ppc[p] = "arrived"
    /\ \/ Cardinality(Admitted) >= MaxAdmitted
       \/ Crowded(key[p]) /\ DisplacementVictim(key[p]) = {}
    /\ ppc' = [ppc EXCEPT ![p] = "idle"]
    /\ Forget({p})
    /\ sock' = [sock EXCEPT ![p] = "closed"]
    /\ UNCHANGED <<sess, phones, nextCh, chan, bclose, draining>>

\* The first free channel after nextCh, counting on from 1 behind MaxChannel.
Distance(ch) == (ch - nextCh - 1) % MaxChannel

\* Mutant: the channel counter neither wraps nor skips channels in use.
NextUp(map) == nextCh + 1

FirstFree(map) ==
    CHOOSE ch \in Channels :
        /\ map[ch] = NoPhone
        /\ \A other \in Channels : map[other] = NoPhone => Distance(ch) <= Distance(other)

\* In one critical section: the victim, if any, loses its channel and p takes the next
\* free one. The victim's socket is shut down afterwards, by a goroutine of its own.
Register(p) ==
    /\ ppc[p] = "arrived"
    /\ Cardinality(Admitted) < MaxAdmitted
    /\ LET victim == DisplacementVictim(key[p])
           ch     == FirstFree(Without(victim))
       IN  /\ Crowded(key[p]) => victim # {}
           /\ nextCh' = ch
           /\ chan' = [chan EXCEPT ![p] = ch]
           /\ phones' = [Without(victim) EXCEPT ![ch] = p]
           /\ Forget(victim)
           /\ Shutdown(victim)
    /\ ppc' = [ppc EXCEPT ![p] = "registered"]
    /\ UNCHANGED <<sess, bclose, draining>>

\* The control message open(ch, token) is written to the bridge.
SendOpen(p) ==
    /\ ppc[p] = "registered"
    /\ sess = "live" /\ sock[p] # "closed"
    /\ ppc' = [ppc EXCEPT ![p] = "serving"]
    /\ UNCHANGED <<sess, phones, nextCh, chan, structVars, sock, bclose, draining>>

\* Mutant: the channel is given back whoever holds it.
FreesWhoeverHolds(p) == {phones[chan[p]]} \ {NoPhone}

\* Mutant: a channel taken after closeAllPhones is never given back.
KeepsChannel(p) == {}

\* The deferred function gives the channel back only if p still holds it.
GivesBack(p) == {p} \cap {phones[chan[p]]}

\* servePhone returns and tells the bridge: before the open was written, because the
\* write failed; after it, because the socket or the bridge failed or the phone left.
ServePhoneReturns(p) ==
    /\ ppc[p] \in {"registered", "serving"}
    /\ ppc[p] = "registered" => (sess # "live" \/ sock[p] = "closed")
    /\ ppc' = [ppc EXCEPT ![p] = "idle"]
    /\ phones' = Without(GivesBack(p))
    /\ Forget(GivesBack(p))
    /\ chan' = [chan EXCEPT ![p] = 0]
    /\ sock' = [sock EXCEPT ![p] = IF ppc[p] = "serving" THEN "closed" ELSE @]
    /\ UNCHANGED <<sess, nextCh, bclose, draining>>

\* The closing goroutine has closed the socket and cancelled the phone's context.
ShutdownRuns(p) ==
    /\ sock[p] = "closing"
    /\ sock' = [sock EXCEPT ![p] = "closed"]
    /\ UNCHANGED <<sess, phones, nextCh, ppc, chan, structVars, bclose, draining>>

\* Mutant: the timer spares vouched phones too.
AdmissionTimeoutSpares(p) ==
    /\ ppc[p] \in {"registered", "serving"}
    /\ phones[chan[p]] = p /\ ~admitted[p] /\ ~vouched[p]
    /\ phones' = Without({p})
    /\ Forget({p})
    /\ Shutdown({p})
    /\ UNCHANGED <<sess, nextCh, ppc, chan, bclose, draining>>

\* The admission timer -> closeIfPending: only a phone that still holds its channel and
\* has not been admitted meanwhile.
AdmissionTimeout(p) ==
    /\ ppc[p] \in {"registered", "serving"}
    /\ phones[chan[p]] = p /\ ~admitted[p]
    /\ phones' = Without({p})
    /\ Forget({p})
    /\ Shutdown({p})
    /\ UNCHANGED <<sess, nextCh, ppc, chan, bclose, draining>>

(***************************************************************************)
(* The bridge -> phones loop of serveBridge, one frame at a time.          *)
(***************************************************************************)
LoopReads == sess # "ended" /\ bclose = 0

\* Mutant: the room for another admitted phone was checked when the phone connected.
FrameAdmits(ch) ==
    /\ LoopReads
    /\ phones[ch] # NoPhone
    /\ LET p == phones[ch] IN
       /\ frames' = [frames EXCEPT ![p] = IF @ = 2 THEN 2 ELSE @ + 1]
       /\ admitted' = [admitted EXCEPT ![p] = @ \/ frames[p] = 1]
    /\ UNCHANGED <<sess, phones, nextCh, ppc, chan, key, opened, vouched, sock, bclose, draining>>

\* countBridgeFrame on a channel somebody holds: the second frame admits the phone, if
\* the session has room for another admitted phone, and is forwarded.
Frame(ch) ==
    /\ LoopReads
    /\ phones[ch] # NoPhone
    /\ LET p == phones[ch] IN
       /\ frames[p] = 1 /\ ~admitted[p] => Cardinality(Admitted) < MaxAdmitted
       /\ frames' = [frames EXCEPT ![p] = IF @ = 2 THEN 2 ELSE @ + 1]
       /\ admitted' = [admitted EXCEPT ![p] = @ \/ frames[p] = 1]
    /\ UNCHANGED <<sess, phones, nextCh, ppc, chan, key, opened, vouched, sock, bclose, draining>>

\* The frame would admit one phone too many, overruns the phone's rate or cannot be
\* written: the loop is about to close the channel, in a second critical section.
FrameFails(ch) ==
    /\ LoopReads
    /\ phones[ch] # NoPhone
    /\ LET p == phones[ch]
           admits == frames[p] = 1 /\ ~admitted[p] /\ Cardinality(Admitted) < MaxAdmitted
       IN  /\ frames' = [frames EXCEPT ![p] = IF @ = 2 THEN 2 ELSE @ + 1]
           /\ admitted' = [admitted EXCEPT ![p] = @ \/ admits]
    /\ bclose' = ch
    /\ UNCHANGED <<sess, phones, nextCh, ppc, chan, key, opened, vouched, sock, draining>>

\* closePhone(ch): whoever holds the channel by now is shut down.
ClosePhone ==
    /\ bclose # 0
    /\ phones' = [phones EXCEPT ![bclose] = NoPhone]
    /\ Forget({phones[bclose]})
    /\ Shutdown({phones[bclose]})
    /\ bclose' = 0
    /\ UNCHANGED <<sess, nextCh, ppc, chan, draining>>

\* Control close(ch, token of p): only the incarnation it names.
CloseFromBridge(ch, p) ==
    /\ LoopReads
    /\ phones[ch] = p
    /\ phones' = [phones EXCEPT ![ch] = NoPhone]
    /\ Forget({p})
    /\ Shutdown({p})
    /\ UNCHANGED <<sess, nextCh, ppc, chan, bclose, draining>>

\* Control vouch(ch, token of p): the session must be the current one and p a pending
\* phone the bridge has not answered yet.
Vouch(ch, p) ==
    /\ LoopReads /\ sess = "live"
    /\ phones[ch] = p
    /\ ~admitted[p] /\ frames[p] = 0 /\ ~vouched[p]
    /\ vouched' = [vouched EXCEPT ![p] = TRUE]
    /\ UNCHANGED <<sess, phones, nextCh, ppc, chan, key, opened, frames, admitted, sock,
                   bclose, draining>>

\* The bridge socket is lost or a newer one of the same bridge attaches: the session
\* leaves Server.sessions and its context is cancelled.
Detach ==
    /\ sess = "live"
    /\ sess' = "detached"
    /\ UNCHANGED <<phones, nextCh, ppc, chan, structVars, sock, bclose, draining>>

\* Drain: every session leaves Server.sessions and its context is cancelled ...
Drain ==
    /\ sess = "live"
    /\ sess' = "detached"
    /\ draining' = TRUE
    /\ UNCHANGED <<phones, nextCh, ppc, chan, structVars, sock, bclose>>

\* ... and its phones are closed, whether or not serveBridge has done so already.
DrainClosesPhones ==
    /\ draining
    /\ draining' = FALSE
    /\ phones' = [ch \in Channels |-> NoPhone]
    /\ Forget(Holding)
    /\ Shutdown(Holding)
    /\ UNCHANGED <<sess, nextCh, ppc, chan, bclose>>

\* serveBridge returns: closeAllPhones takes the map and shuts every phone down.
CloseAllPhones ==
    /\ sess = "detached" /\ bclose = 0
    /\ sess' = "ended"
    /\ phones' = [ch \in Channels |-> NoPhone]
    /\ Forget(Holding)
    /\ Shutdown(Holding)
    /\ UNCHANGED <<nextCh, ppc, chan, bclose, draining>>

(***************************************************************************)
(* The specification.                                                      *)
(***************************************************************************)
PhoneStep(p) == Refuse(p) \/ Register(p) \/ SendOpen(p) \/ ServePhoneReturns(p)

BridgeFrame ==
    \/ \E ch \in Channels : Frame(ch) \/ FrameFails(ch)
    \/ \E ch \in Channels, p \in Phones : CloseFromBridge(ch, p) \/ Vouch(ch, p)

Next ==
    \/ \E p \in Phones, k \in Keys : Arrive(p, k)
    \/ \E p \in Phones : PhoneStep(p) \/ ShutdownRuns(p) \/ AdmissionTimeout(p)
    \/ BridgeFrame \/ ClosePhone
    \/ Detach \/ CloseAllPhones
    \/ Drain \/ DrainClosesPhones

Spec == Init /\ [][Next]_vars

\* Goroutines that can go on do, and timers fire; nobody has to connect, to send a
\* frame or to disconnect. A serving phone returns when its socket is closed or its
\* context, which the session's ends, is cancelled.
Fairness ==
    /\ \A p \in Phones :
        /\ WF_vars(Refuse(p) \/ Register(p) \/ SendOpen(p))
        /\ WF_vars((sock[p] = "closed" \/ sess # "live") /\ ServePhoneReturns(p))
        /\ WF_vars(ShutdownRuns(p))
        /\ WF_vars(AdmissionTimeout(p))
    /\ WF_vars(ClosePhone)
    /\ WF_vars(CloseAllPhones)
    /\ WF_vars(DrainClosesPhones)

FairSpec == Spec /\ Fairness

(***************************************************************************)
(* Properties.                                                             *)
(***************************************************************************)
\* countBridgeFrame, servePhone: however frames, arrivals and closes interleave, the
\* session never holds more admitted phones, pending phones, or pending phones of
\* one key than its limits.
WithinLimits ==
    /\ Cardinality(Admitted) <= MaxAdmitted
    /\ Cardinality(Pending) <= MaxPending
    /\ \A k \in Keys : SameKey(k) <= MaxPerKey

\* session.phones: a phone holds at most one channel, the one it was told, while its
\* servePhone runs; and a phone whose socket nobody has closed holds it still, so no
\* stale timer, return or close takes the channel from the phone that reused it.
ChannelsOwned ==
    /\ \A ch \in Channels :
        phones[ch] # NoPhone =>
            chan[phones[ch]] = ch /\ ppc[phones[ch]] \in {"registered", "serving"}
    /\ \A p \in Phones :
        ppc[p] \in {"registered", "serving"} /\ sock[p] = "open" => phones[chan[p]] = p

\* displacementVictim: a newcomer displaces neither an admitted nor a vouched phone, and a
\* phone of another key only if that key crowds the session at least as much as its own.
DisplacementFair ==
    [][\A p, v \in Phones :
        /\ ppc[p] = "arrived" /\ ppc'[p] = "registered"
        /\ v \in Holding /\ \A ch \in Channels : phones'[ch] # v
        => /\ ~admitted[v] /\ ~vouched[v]
           /\ \/ key[v] = key[p]
              \/ Cardinality(Eligible(key[v])) >= Cardinality(Eligible(key[p]))]_vars

\* servePhone, closeIfPending, closeAllPhones: no phone stays pending, vouched or not, and a
\* phone that took a channel of a session that was ending gives it back.
PendingSettles ==
    \A p \in Phones : p \in Pending ~> p \notin Pending

EndedSessionDrains == sess = "ended" ~> [](Holding = {})
===============================================================================
