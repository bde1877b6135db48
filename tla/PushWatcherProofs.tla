--------------------------- MODULE PushWatcherProofs ---------------------------
(***************************************************************************)
(* Proofs about PushWatcher, for every number of phones, sessions and      *)
(* events: type correctness, that nobody is pushed what happened after a   *)
(* revocation, and that nothing is pushed twice.                           *)
(***************************************************************************)
EXTENDS PushWatcher, SequenceTheorems, TLAPS

Entries == (1..count) \X (1..count)

\* A session has no more events than have happened.
RingBounded == \A s \in Sessions : Len(ring[s]) <= count

\* deliver is done with a list of phones before another round takes its snapshot.
ListDone == wpc # "deliver" => to = {}

TypeInv == TypeOK /\ RingBounded /\ ListDone

\* What is happened is kept for the phones paired since: whoever is paired now has been
\* paired at some time since every event, and so has whoever deliver has read.
PairedNow == \A e \in 1..count : trusted \subseteq paired[e]
ListPaired == wpc = "deliver" => alert \in 1..count /\ list \subseteq paired[alert]

\* Only what has happened was pushed.
SentHappened == \A e \in Events, d \in Devices : sent[<<e, d>>] > 0 => e <= count

PairedInv == PairedNow /\ ListPaired /\ SentHappened /\ PushesStayPaired

-----------------------------------------------------------------------------
\* Typing of the gateway's answers (session.events.since).

\* Whatever session.events.since answers are numbers and events that exist.
LEMMA RepliesTyped ==
    ASSUME TypeInv, NEW s \in Sessions, NEW n \in 0..count, NEW r \in Replies(s, n)
    PROVE  r \in Seq(Entries)
<1> DEFINE numbered == [k \in 1..Len(ring[s]) |-> <<k, ring[s][k]>>]
<1>1. ring[s] \in Seq(1..count) /\ Len(ring[s]) <= count /\ count \in Nat
  BY PushAssumption DEF TypeInv, TypeOK, RingBounded, ListDone
<1>2. \A k \in 1..Len(ring[s]) : <<k, ring[s][k]>> \in Entries
  BY <1>1 DEF Entries
<1>3. numbered \in Seq(Entries) /\ Len(numbered) = Len(ring[s])
  BY <1>1, <1>2, IsASeq
<1>4. PICK first \in 1..(IF n < Len(numbered) THEN n + 1 ELSE Len(numbered) + 1) :
        r = SubSeq(numbered, first, Len(numbered))
  BY DEF Replies
<1>5. first \in 1..(Len(numbered) + 1)
  BY <1>1, <1>3, <1>4
<1> HIDE DEF numbered
<1> QED BY <1>3, <1>4, <1>5, SubSeqProperties

\* More events are more entries: a sequence of the old ones is one of the new ones.
LEMMA SeqGrows ==
    ASSUME NEW S, NEW T, S \subseteq T, NEW q \in Seq(S)
    PROVE  q \in Seq(T)
<1>1. q \in [1..Len(q) -> T] /\ Len(q) \in Nat
  OBVIOUS
<1> QED BY <1>1, SeqDef

-----------------------------------------------------------------------------
\* Type correctness.

LEMMA TypeInit == Init => TypeInv
<1> SUFFICES ASSUME Init PROVE TypeInv
  OBVIOUS
<1> USE PushAssumption DEF Init
<1>1. count \in 0..MaxEvents /\ last \in 0..count /\ alert \in 0..count
  OBVIOUS
<1>2. ring \in [Sessions -> Seq(1..count)] /\ RingBounded
  BY DEF RingBounded
<1>3. batch \in Seq((1..count) \X (1..count))
  OBVIOUS
<1>4. seen \in [Sessions -> (0..count) \cup {None}]
  OBVIOUS
<1>5. sent \in [Events \X Devices -> 0..2] /\ paired \in [Events -> SUBSET Devices]
  OBVIOUS
<1> QED BY <1>1, <1>2, <1>3, <1>4, <1>5 DEF TypeInv, TypeOK, ListDone

LEMMA PersistTyped ==
    ASSUME TypeInv, NEW new \in SUBSET Devices, Persist(new)
    PROVE  /\ devices' \subseteq Devices /\ file' \subseteq Devices
           /\ torn' \in BOOLEAN
BY Zenon DEF TypeInv, TypeOK, Persist

\* Phones, revocations and the daemon's life leave gateway and round typed.
LEMMA BridgeTyped == ASSUME TypeInv, Bridge PROVE TypeInv'
<1> USE DEF TypeInv, TypeOK, RingBounded, ListDone, regVars, gatewayVars, roundVars, histVars
<1>1. ASSUME NEW d \in Devices, Register(d) PROVE TypeInv'
  <2>1. PICK new \in {devices \cup {d}, devices \ {d}} : Persist(new)
    BY <1>1 DEF Register
  <2>2. new \in SUBSET Devices
    BY <2>1
  <2> QED BY <1>1, <2>1, <2>2, PersistTyped DEF Register
<1>2. ASSUME NEW d \in Devices, Connect(d) PROVE TypeInv'
  BY <1>2 DEF Connect
<1>3. ASSUME NEW d \in Devices, Disconnect(d) PROVE TypeInv'
  BY <1>3 DEF Disconnect
<1>4. ASSUME NEW d \in Devices, Pair(d) PROVE TypeInv'
  BY <1>4 DEF Pair
<1>5. ASSUME NEW d \in Devices, Revoke(d) PROVE TypeInv'
  BY <1>5 DEF Revoke
<1>6. ASSUME NEW d \in Devices, RevokeDrops(d) PROVE TypeInv'
  BY <1>6, PersistTyped DEF RevokeDrops
<1>7. ASSUME NEW d \in Devices, CLIRevoke(d) PROVE TypeInv'
  BY <1>7 DEF CLIRevoke
<1>8. CASE DaemonStops
  <2>1. batch' \in Seq((1..count') \X (1..count'))
    BY <1>8 DEF DaemonStops, Idle
  <2>2. seen' \in [Sessions -> (0..count') \cup {None}]
    BY <1>8 DEF DaemonStops
  <2>3. last' \in 0..count' /\ alert' \in 0..count'
    BY <1>8, PushAssumption DEF DaemonStops, Idle
  <2> QED BY <1>8, <2>1, <2>2, <2>3 DEF DaemonStops, Idle
<1>9. CASE DaemonStarts
  BY <1>9 DEF DaemonStarts, OpenRegistry
<1> QED BY <1>1, <1>2, <1>3, <1>4, <1>5, <1>6, <1>7, <1>8, <1>9 DEF Bridge

\* The watcher's round keeps to what the gateway and the registry gave it.
LEMMA WatcherTyped == ASSUME TypeInv, Watcher PROVE TypeInv'
<1> USE DEF TypeInv, TypeOK, RingBounded, ListDone, regVars, gatewayVars, histVars
<1>1. CASE Poll
  BY <1>1 DEF Poll, OfflineDevices
<1>2. CASE RoundEnds
  <2>1. batch' \in Seq((1..count') \X (1..count'))
    BY <1>2 DEF RoundEnds, Idle
  <2>2. last' \in 0..count' /\ alert' \in 0..count'
    BY <1>2, PushAssumption DEF RoundEnds, Idle
  <2> QED BY <1>2, <2>1, <2>2 DEF RoundEnds, Idle
<1>3. CASE BatchEnds
  BY <1>3, PushAssumption DEF BatchEnds
<1>4. CASE PassOver \/ Deliver
  <2>1. batch # <<>> /\ batch \in Seq(Entries) /\ batch' = Tail(batch)
    BY <1>4 DEF PassOver, Deliver, Entries
  <2>2. Head(batch) \in Entries /\ batch' \in Seq(Entries)
    BY <2>1
  <2>3. Head(batch)[1] \in 0..count /\ Head(batch)[2] \in 0..count
    BY <2>2 DEF Entries
  <2>4. seen' \in [Sessions -> (0..count) \cup {None}]
    BY <1>4, <2>3 DEF PassOver, Deliver
  <2>5. CASE PassOver
    BY <2>5, <2>2, <2>4 DEF PassOver, Entries
  <2>6. CASE Deliver
    BY <2>6, <2>2, <2>3, <2>4 DEF Deliver, Entries
  <2> QED BY <1>4, <2>5, <2>6
<1>5. CASE DeliverEnds
  BY <1>5, PushAssumption DEF DeliverEnds
<1>6. ASSUME NEW s \in Sessions, EventsFail(s) PROVE TypeInv'
  BY <1>6 DEF EventsFail
<1>7. ASSUME NEW s \in Sessions, FirstSight(s) PROVE TypeInv'
  <2>1. PICK events \in Replies(s, 0) :
          seen' = [seen EXCEPT ![s] = MaxSeq(events)]
    BY <1>7 DEF FirstSight
  <2>2. 0 \in 0..count
    BY PushAssumption
  <2>3. events \in Seq(Entries)
    BY <2>1, <2>2, RepliesTyped
  <2>4. events # <<>> => events[Len(events)] \in Entries
    BY <2>3
  <2>5. MaxSeq(events) \in 0..count
    BY <2>2, <2>4 DEF Entries, MaxSeq
  <2>6. seen' \in [Sessions -> (0..count) \cup {None}]
    BY <2>1, <2>5
  <2> QED BY <1>7, <2>6 DEF FirstSight
<1>8. ASSUME NEW s \in Sessions, FetchEvents(s) PROVE TypeInv'
  <2>1. seen[s] \in 0..count
    BY <1>8 DEF FetchEvents
  <2>2. batch' \in Seq(Entries)
    BY <1>8, <2>1, RepliesTyped DEF FetchEvents
  <2> QED BY <1>8, <2>1, <2>2 DEF FetchEvents, Entries
<1>9. ASSUME NEW d \in Devices, DropUnpaired(d) PROVE TypeInv'
  BY <1>9, PersistTyped DEF DropUnpaired
<1>10. ASSUME NEW d \in Devices, Send(d) PROVE TypeInv'
  <2>1. sent' \in [Events \X Devices -> 0..2]
    <3> DEFINE p == <<alert, d>>
               D == Events \X Devices
               more == IF sent[p] < 2 THEN sent[p] + 1 ELSE sent[p]
    <3>1. sent \in [D -> 0..2] /\ sent' = [sent EXCEPT ![p] = more]
      BY <1>10 DEF Send
    <3> HIDE DEF p, D
    <3>2. p \in D => more \in 0..2
      BY <3>1
    <3> HIDE DEF more
    <3>3. \A x \in D : sent'[x] \in 0..2
      BY <3>1, <3>2
    <3> QED BY <3>1, <3>3 DEF D
  <2> QED BY <1>10, <2>1 DEF Send
<1>11. ASSUME NEW d \in Devices, SendFails(d) PROVE TypeInv'
  <2>1. CASE Persist(devices \ {d})
    BY <1>11, <2>1, PersistTyped DEF SendFails
  <2>2. CASE UNCHANGED regVars
    BY <1>11, <2>2 DEF SendFails
  <2> QED BY <1>11, <2>1, <2>2 DEF SendFails
<1> QED
  BY <1>1, <1>2, <1>3, <1>4, <1>5, <1>6, <1>7, <1>8, <1>9, <1>10, <1>11 DEF Watcher

\* A new event, and a gateway that starts afresh.
LEMMA GatewayTyped ==
    ASSUME TypeInv, (\E s \in Sessions : Happens(s)) \/ GatewayRestarts
    PROVE  TypeInv'
<1> USE DEF TypeInv, TypeOK, RingBounded, ListDone, regVars, roundVars
<1>1. ASSUME NEW s \in Sessions, Happens(s) PROVE TypeInv'
  <2>1. /\ count \in Nat /\ count' = count + 1 /\ count' \in 0..MaxEvents
        /\ 1..count \subseteq 1..count' /\ 0..count \subseteq 0..count'
    BY <1>1, PushAssumption DEF Happens
  <2>2. batch' \in Seq((1..count') \X (1..count'))
    <3>1. batch' = batch /\ (1..count) \X (1..count) \subseteq (1..count') \X (1..count')
      BY <1>1, <2>1 DEF Happens
    <3> QED BY <3>1, SeqGrows
  <2>3. ASSUME NEW r \in Sessions
        PROVE  ring'[r] \in Seq(1..count') /\ Len(ring'[r]) <= count'
    <3>1. ring[r] \in Seq(1..count') /\ Len(ring[r]) <= count /\ Len(ring[r]) \in Nat
      BY <2>1, SeqGrows
    <3>2. CASE r = s
      BY <1>1, <2>1, <3>1, <3>2 DEF Happens
    <3>3. CASE r # s
      BY <1>1, <2>1, <3>1, <3>3 DEF Happens
    <3> QED BY <3>2, <3>3
  <2>4. ring' \in [Sessions -> Seq(1..count')]
    BY <1>1, <2>3 DEF Happens
  <2>5. seen' \in [Sessions -> (0..count') \cup {None}] /\ last' \in 0..count' /\ alert' \in 0..count'
    BY <1>1, <2>1 DEF Happens
  <2>6. paired' \in [Events -> SUBSET Devices]
    BY <1>1 DEF Happens
  <2> QED BY <1>1, <2>1, <2>2, <2>3, <2>4, <2>5, <2>6 DEF Happens
<1>2. CASE GatewayRestarts
  <2>1. ring' \in [Sessions -> Seq(1..count')] /\ \A s \in Sessions : Len(ring'[s]) <= count'
    BY <1>2, PushAssumption DEF GatewayRestarts
  <2> QED BY <1>2, <2>1 DEF GatewayRestarts, histVars
<1> QED BY <1>1, <1>2

LEMMA TypeStep == ASSUME TypeInv, [Next]_vars PROVE TypeInv'
<1>1. CASE UNCHANGED vars
  BY <1>1
     DEF vars, regVars, gatewayVars, roundVars, histVars, TypeInv, TypeOK, RingBounded, ListDone
<1> QED BY <1>1, BridgeTyped, WatcherTyped, GatewayTyped DEF Next

\* Every variable of the watcher and the registry keeps to its type, whatever the numbers of
\* phones, sessions and events; the sequence numbers the watcher keeps are never beyond
\* what has happened.
THEOREM TypeCorrect == Spec => []TypeOK
<1>1. TypeInv => TypeOK
  BY DEF TypeInv
<1> QED BY <1>1, TypeInit, TypeStep, PTL DEF Spec

-----------------------------------------------------------------------------
\* Pushes and pairing.

LEMMA PairedInit == Init => PairedInv
<1> SUFFICES ASSUME Init PROVE PairedInv
  OBVIOUS
<1>1. \A e \in Events, d \in Devices : sent[<<e, d>>] = 0
  BY DEF Init
<1> QED
  BY <1>1 DEF Init, PairedInv, PairedNow, ListPaired, SentHappened, PushesStayPaired

\* A step that neither pairs, pushes nor begins a delivery and adds no event changes nothing.
LEMMA PairedKept ==
    ASSUME PairedInv, trusted' \subseteq trusted, UNCHANGED <<count, sent, paired>>,
           wpc' = "deliver" => UNCHANGED <<wpc, alert, list>>
    PROVE  PairedInv'
BY DEF PairedInv, PairedNow, ListPaired, SentHappened, PushesStayPaired

LEMMA PairedStep == ASSUME TypeInv, PairedInv, [Next]_vars PROVE PairedInv'
<1> USE DEF regVars, gatewayVars, roundVars, histVars
<1>1. ASSUME NEW d \in Devices, Pair(d) PROVE PairedInv'
  <2>1. \A e \in Events : paired'[e] = IF e <= count THEN paired[e] \cup {d} ELSE paired[e]
    BY <1>1 DEF Pair
  <2>2. 1..count \subseteq Events
    BY PushAssumption DEF TypeInv, TypeOK, Events
  <2>3. PairedNow' /\ ListPaired'
    BY <1>1, <2>1, <2>2 DEF Pair, PairedInv, PairedNow, ListPaired, TypeInv, TypeOK
  <2>4. SentHappened' /\ PushesStayPaired'
    BY <1>1, <2>1 DEF Pair, PairedInv, SentHappened, PushesStayPaired
  <2> QED BY <2>3, <2>4 DEF PairedInv
<1>2. ASSUME NEW s \in Sessions, Happens(s) PROVE PairedInv'
  <2>1. count \in Nat /\ count' = count + 1 /\ 1..count \subseteq Events /\ count + 1 \in Events
    BY <1>2, PushAssumption DEF Happens, TypeInv, TypeOK, Events
  <2>2. \A e \in Events : paired'[e] = IF e = count + 1 THEN trusted ELSE paired[e]
    BY <1>2 DEF Happens, TypeInv, TypeOK
  <2>3. PairedNow' /\ ListPaired'
    BY <1>2, <2>1, <2>2 DEF Happens, PairedInv, PairedNow, ListPaired
  <2>4. \A d \in Devices : ~(sent[<<count + 1, d>>] > 0)
    BY <2>1 DEF PairedInv, SentHappened
  <2>5. SentHappened'
    BY <1>2, <2>1 DEF Happens, PairedInv, SentHappened, Events
  <2>6. PushesStayPaired'
    BY <1>2, <2>2, <2>4 DEF Happens, PairedInv, PushesStayPaired
  <2> QED BY <2>3, <2>5, <2>6 DEF PairedInv
<1>3. CASE Deliver
  <2>1. batch # <<>> /\ batch \in Seq(Entries)
    BY <1>3 DEF Deliver, TypeInv, TypeOK, Entries
  <2>2. Head(batch) \in Entries
    BY <2>1
  <2>3. alert' \in 1..count /\ list' = trusted
    BY <1>3, <2>2 DEF Deliver, Entries
  <2> QED
    BY <1>3, <2>3
       DEF Deliver, PairedInv, PairedNow, ListPaired, SentHappened, PushesStayPaired
<1>4. ASSUME NEW d \in Devices, Send(d) PROVE PairedInv'
  <2>1. alert \in 1..count /\ d \in paired[alert]
    BY <1>4 DEF Send, PairedInv, ListPaired
  <2>2. \A e \in Events, r \in Devices : sent'[<<e, r>>] = sent[<<e, r>>] \/ (e = alert /\ r = d)
    BY <1>4 DEF Send, TypeInv, TypeOK
  <2>3. alert <= count
    BY <2>1
  <2>4. SentHappened' /\ PushesStayPaired'
    BY <1>4, <2>1, <2>2, <2>3 DEF Send, PairedInv, SentHappened, PushesStayPaired
  <2> QED BY <1>4, <2>4 DEF Send, PairedInv, PairedNow, ListPaired
<1>5. CASE UNCHANGED vars
  BY <1>5, PairedKept DEF vars
<1>6. CASE \/ \E d \in Devices : \/ Register(d) \/ Connect(d) \/ Disconnect(d)
                                 \/ Revoke(d) \/ RevokeDrops(d) \/ CLIRevoke(d)
           \/ DaemonStops \/ DaemonStarts \/ GatewayRestarts
  BY <1>6, PairedKept
     DEF Register, Connect, Disconnect, Revoke, RevokeDrops, CLIRevoke, DaemonStops,
         DaemonStarts, GatewayRestarts, Idle
<1>7. CASE \/ Poll \/ RoundEnds \/ BatchEnds \/ PassOver \/ DeliverEnds
           \/ \E s \in Sessions : EventsFail(s) \/ FirstSight(s) \/ FetchEvents(s)
           \/ \E d \in Devices : DropUnpaired(d) \/ SendFails(d)
  BY <1>7, PairedKept
     DEF Poll, RoundEnds, BatchEnds, PassOver, DeliverEnds, EventsFail, FirstSight,
         FetchEvents, DropUnpaired, SendFails, Idle
<1> QED BY <1>1, <1>2, <1>3, <1>4, <1>5, <1>6, <1>7 DEF Next, Bridge, Watcher

\* Watcher.Trusted, deliver: however many phones, sessions and events there are, and whatever
\* snapshot, registration or file outlives a revocation, a phone is pushed only what
\* happened before it was last unpaired.
THEOREM NoPushAfterRevocation == Spec => []PushesStayPaired
<1>1. TypeInv /\ PairedInv => PushesStayPaired
  BY DEF PairedInv
<1> QED BY <1>1, TypeInit, TypeStep, PairedInit, PairedStep, PTL DEF Spec

-----------------------------------------------------------------------------
\* Nothing is pushed twice.

Unsent(e) == \A d \in Devices : sent[<<e, d>>] = 0

\* An event has one place in one ring.
RingsDistinct ==
    \A s, t \in Sessions : \A n \in 1..Len(ring[s]), m \in 1..Len(ring[t]) :
        ring[s][n] = ring[t][m] => s = t /\ n = m

\* What is beyond the watcher's number of a session it has seen was not pushed.
NewIsUnsent ==
    \A s \in Sessions : \A n \in 1..Len(ring[s]) :
        seen[s] # None /\ n > seen[s] => Unsent(ring[s][n])

\* The batch: each event once; it is where the batch says, or the gateway has forgotten it;
\* what is new in it was not pushed.
BatchSound ==
    /\ wpc \in {"idle", "sessions"} => batch = <<>>
    /\ wpc \in {"events", "deliver"} => at \in Sessions /\ seen[at] # None
    /\ \A i \in 1..Len(batch) :
        /\ \A j \in 1..Len(batch) : batch[i][2] = batch[j][2] => i = j
        /\ \A s \in Sessions : \A n \in 1..Len(ring[s]) :
            ring[s][n] = batch[i][2] => s = at /\ n = batch[i][1]
        /\ batch[i][1] > last => Unsent(batch[i][2])

\* The alert under way: the watcher will not meet it again, and whoever has still to be
\* looked at has not got it.
AlertSound ==
    wpc = "deliver" =>
        /\ alert \in 1..count
        /\ \A i \in 1..Len(batch) : batch[i][2] # alert
        /\ \A s \in Sessions : \A n \in 1..Len(ring[s]) :
            ring[s][n] = alert => seen[s] # None /\ n <= seen[s]
        /\ \A d \in to : sent[<<alert, d>>] = 0

OnceInv ==
    RingsDistinct /\ NewIsUnsent /\ BatchSound /\ AlertSound /\ SentHappened /\ PushedOnce

LEMMA OnceInit == Init => OnceInv
<1> SUFFICES ASSUME Init PROVE OnceInv
  OBVIOUS
<1>1. \A e \in Events, d \in Devices : sent[<<e, d>>] = 0
  BY DEF Init
<1>2. \A s \in Sessions : Len(ring[s]) = 0 /\ seen[s] = None
  BY DEF Init
<1>3. Len(batch) = 0
  BY DEF Init
<1> QED
  BY <1>1, <1>2, <1>3
     DEF Init, OnceInv, RingsDistinct, NewIsUnsent, BatchSound, AlertSound, SentHappened, PushedOnce

\* Facts about types the steps below use over and over.
LEMMA OnceTypes ==
    ASSUME TypeInv
    PROVE  /\ count \in Nat /\ count <= MaxEvents /\ last \in Nat
           /\ \A s \in Sessions : /\ ring[s] \in Seq(1..count) /\ Len(ring[s]) \in Nat
                                  /\ \A n \in 1..Len(ring[s]) : ring[s][n] \in 1..count
                                  /\ seen[s] # None => seen[s] \in Nat
           /\ batch \in Seq(Entries) /\ Len(batch) \in Nat
           /\ \A i \in 1..Len(batch) : batch[i][1] \in Nat /\ batch[i][2] \in 1..count
           /\ 1..count \subseteq Events
<1>1. count \in Nat /\ count <= MaxEvents /\ last \in Nat /\ 1..count \subseteq Events
  BY PushAssumption DEF TypeInv, TypeOK, Events
<1>2. ASSUME NEW s \in Sessions
      PROVE  /\ ring[s] \in Seq(1..count) /\ Len(ring[s]) \in Nat
             /\ \A n \in 1..Len(ring[s]) : ring[s][n] \in 1..count
             /\ seen[s] # None => seen[s] \in Nat
  <2>1. ring[s] \in Seq(1..count)
    BY DEF TypeInv, TypeOK
  <2>2. Len(ring[s]) \in Nat /\ \A n \in 1..Len(ring[s]) : ring[s][n] \in 1..count
    BY <2>1, ElementOfSeq, LenProperties
  <2>3. seen[s] \in (0..count) \cup {None}
    BY DEF TypeInv, TypeOK
  <2> QED BY <1>1, <2>1, <2>2, <2>3
<1>3. batch \in Seq(Entries)
  BY DEF TypeInv, TypeOK, Entries
<1>4. Len(batch) \in Nat /\ \A i \in 1..Len(batch) : batch[i] \in Entries
  BY <1>3
<1>5. \A i \in 1..Len(batch) : batch[i][1] \in Nat /\ batch[i][2] \in 1..count
  BY <1>4 DEF Entries
<1> QED BY <1>1, <1>2, <1>3, <1>4, <1>5

\* What an answer of session.events.since looks like: the end of the ring, with its numbers.
LEMMA RepliesAre ==
    ASSUME TypeInv, NEW s \in Sessions, NEW n \in 0..count, NEW r \in Replies(s, n)
    PROVE  \E first \in 1..(Len(ring[s]) + 1) :
             /\ n = 0 => first = 1
             /\ Len(r) = Len(ring[s]) + 1 - first
             /\ \A i \in 1..Len(r) : /\ first + i - 1 \in 1..Len(ring[s])
                                     /\ r[i] = <<first + i - 1, ring[s][first + i - 1]>>
<1> DEFINE numbered == [k \in 1..Len(ring[s]) |-> <<k, ring[s][k]>>]
<1>1. ring[s] \in Seq(1..count) /\ Len(ring[s]) <= count /\ count \in Nat
  BY PushAssumption DEF TypeInv, TypeOK, RingBounded
<1>2. \A k \in 1..Len(ring[s]) : <<k, ring[s][k]>> \in Entries
  BY <1>1 DEF Entries
<1>3. /\ numbered \in Seq(Entries) /\ Len(numbered) = Len(ring[s]) /\ Len(ring[s]) \in Nat
      /\ \A k \in 1..Len(ring[s]) : numbered[k] = <<k, ring[s][k]>>
  BY <1>1, <1>2, IsASeq
<1>4. PICK first \in 1..(IF n < Len(numbered) THEN n + 1 ELSE Len(numbered) + 1) :
        r = SubSeq(numbered, first, Len(numbered))
  BY DEF Replies
<1> HIDE DEF numbered
<1>5. first \in 1..(Len(ring[s]) + 1) /\ (n = 0 => first = 1)
  BY <1>1, <1>3, <1>4
<1>6. Len(r) = Len(ring[s]) + 1 - first
  BY <1>3, <1>4, <1>5, SubSeqProperties
<1>7. \A i \in 1..Len(r) : first + i - 1 \in 1..Len(ring[s]) /\ r[i] = numbered[first + i - 1]
  BY <1>3, <1>4, <1>5, <1>6, SubSeqProperties
<1> QED BY <1>3, <1>5, <1>6, <1>7

\* A step that leaves the gateway, the pushes and the watcher's numbers alone, and at most
\* shortens the list of an alert or ends it.
LEMMA OnceKept ==
    ASSUME OnceInv, UNCHANGED <<count, ring, sent, seen, batch, at, last>>,
           wpc' = "deliver" => wpc = "deliver" /\ alert' = alert /\ to' \subseteq to,
           wpc' = wpc \/ (batch = <<>> /\ wpc' \in {"idle", "sessions"})
    PROVE  OnceInv'
BY DEF OnceInv, RingsDistinct, NewIsUnsent, BatchSound, AlertSound, SentHappened, PushedOnce, Unsent
\* Happens: the new event is new everywhere.
LEMMA OnceHappens == ASSUME TypeInv, OnceInv, NEW s \in Sessions, Happens(s) PROVE OnceInv'
<1> USE DEF roundVars
<1>0. PICK e \in Events : e = count + 1
  BY PushAssumption DEF Happens, TypeInv, TypeOK, Events
<1>1. count' = e /\ sent' = sent /\ UNCHANGED <<wpc, at, batch, last, alert, to, seen>>
  BY <1>0 DEF Happens
<1>2. Unsent(e)
  <2>1. \A d \in Devices : sent[<<e, d>>] \in 0..2 /\ ~(sent[<<e, d>>] > 0)
    BY <1>0, OnceTypes DEF OnceInv, SentHappened, TypeInv, TypeOK
  <2>2. ASSUME NEW d \in Devices PROVE sent[<<e, d>>] = 0
    BY <2>1
  <2> QED BY <2>2 DEF Unsent
<1>3. ASSUME NEW t \in Sessions, NEW n \in 1..Len(ring'[t])
      PROVE  \/ t = s /\ n = Len(ring[s]) + 1 /\ ring'[t][n] = e
             \/ n \in 1..Len(ring[t]) /\ ring'[t][n] = ring[t][n] /\ ring[t][n] \in 1..count
  <2>1. CASE t = s
    <3>1. ring[s] \in Seq(1..count) /\ Len(ring[s]) \in Nat
      BY OnceTypes
    <3>2. ring'[s] = Append(ring[s], e)
      BY <1>0 DEF Happens, TypeInv, TypeOK
    <3>3. /\ Len(ring'[s]) = Len(ring[s]) + 1 /\ ring'[s][Len(ring[s]) + 1] = e
          /\ \A k \in 1..Len(ring[s]) : ring'[s][k] = ring[s][k]
      BY <3>1, <3>2
    <3> QED BY <2>1, <1>3, <3>1, <3>3, OnceTypes
  <2>2. CASE t # s
    BY <2>2, <1>3, OnceTypes DEF Happens, TypeInv, TypeOK
  <2> QED BY <2>1, <2>2
<1>4. count \in Nat /\ e = count + 1 /\ \A n \in 1..count : n # e
  BY <1>0, OnceTypes
<1>5. Unsent(e)' /\ \A x : Unsent(x)' <=> Unsent(x)
  BY <1>1, <1>2 DEF Unsent
<1>6. RingsDistinct'
  <2>1. ASSUME NEW t \in Sessions, NEW u \in Sessions,
               NEW n \in 1..Len(ring'[t]), NEW m \in 1..Len(ring'[u]), ring'[t][n] = ring'[u][m]
        PROVE  t = u /\ n = m
    <3>1. CASE ring'[t][n] = e
      <4>1. t = s /\ n = Len(ring[s]) + 1
        BY <1>3, <1>4, <3>1
      <4>2. ring'[u][m] = e
        BY <2>1, <3>1
      <4>3. u = s /\ m = Len(ring[s]) + 1
        BY <1>3, <1>4, <4>2
      <4> QED BY <4>1, <4>3
    <3>2. CASE ring'[t][n] # e
      BY <1>3, <2>1, <3>2 DEF OnceInv, RingsDistinct
    <3> QED BY <3>1, <3>2
  <2> QED BY <2>1 DEF RingsDistinct
<1>7. NewIsUnsent'
  BY <1>1, <1>3, <1>5 DEF OnceInv, NewIsUnsent
<1>8. BatchSound'
  <2>1. \A i \in 1..Len(batch) : batch[i][2] \in 1..count
    BY OnceTypes
  <2>2. ASSUME NEW i \in 1..Len(batch), NEW t \in Sessions, NEW n \in 1..Len(ring'[t]),
               ring'[t][n] = batch[i][2]
        PROVE  t = at /\ n = batch[i][1]
    <3>1. ring'[t][n] # e
      BY <1>4, <2>1, <2>2
    <3>2. n \in 1..Len(ring[t]) /\ ring[t][n] = batch[i][2]
      BY <1>3, <2>2, <3>1
    <3> QED BY <3>2 DEF OnceInv, BatchSound
  <2> QED BY <1>1, <1>5, <2>2 DEF OnceInv, BatchSound
<1>9. AlertSound'
  BY <1>1, <1>3, <1>4 DEF OnceInv, AlertSound
<1>10. SentHappened' /\ PushedOnce'
  BY <1>1, <1>4 DEF OnceInv, SentHappened, PushedOnce, Events
<1> QED BY <1>6, <1>7, <1>8, <1>9, <1>10 DEF OnceInv

\* GatewayRestarts: the rings are empty, and what the watcher has in hand is nowhere else.
LEMMA OnceRestart == ASSUME OnceInv, GatewayRestarts PROVE OnceInv'
<1>1. \A s \in Sessions : Len(ring'[s]) = 0
  BY DEF GatewayRestarts
<1>2. UNCHANGED <<count, sent, seen, wpc, at, batch, last, alert, to>>
  BY DEF GatewayRestarts, roundVars, histVars
<1> QED
  BY <1>1, <1>2
     DEF OnceInv, RingsDistinct, NewIsUnsent, BatchSound, AlertSound, SentHappened, PushedOnce, Unsent

\* DaemonStops: the watcher forgets, and nothing counts as new any more.
LEMMA OnceStops == ASSUME OnceInv, DaemonStops PROVE OnceInv'
<1>1. \A s \in Sessions : seen'[s] = None
  BY DEF DaemonStops
<1>2. wpc' = "idle" /\ batch' = <<>> /\ Len(batch') = 0 /\ UNCHANGED <<count, ring, sent>>
  BY DEF DaemonStops, Idle, gatewayVars, histVars
<1> QED
  BY <1>1, <1>2
     DEF OnceInv, RingsDistinct, NewIsUnsent, BatchSound, AlertSound, SentHappened, PushedOnce

\* FirstSight: the number taken is the last of the ring.
LEMMA OnceFirstSight == ASSUME TypeInv, OnceInv, NEW s \in Sessions, FirstSight(s) PROVE OnceInv'
<1>1. PICK events \in Replies(s, 0) :
        seen' = [seen EXCEPT ![s] = MaxSeq(events)]
  BY DEF FirstSight
<1>2. 0 \in 0..count /\ Len(ring[s]) \in Nat
  BY OnceTypes
<1>3. /\ Len(events) = Len(ring[s])
      /\ \A i \in 1..Len(events) : events[i] = <<i, ring[s][i]>>
  BY <1>1, <1>2, RepliesAre
<1>4. events \in Seq(Entries)
  BY <1>1, <1>2, RepliesTyped
<1>5. seen'[s] = Len(ring[s])
  <2>1. CASE events = <<>>
    BY <1>1, <1>3, <2>1 DEF MaxSeq, TypeInv, TypeOK
  <2>2. CASE events # <<>>
    <3>1. Len(events) \in 1..Len(events)
      BY <1>4, <2>2
    <3>2. events[Len(events)][1] = Len(ring[s])
      BY <1>3, <3>1
    <3> QED BY <1>1, <2>2, <3>2 DEF MaxSeq, TypeInv, TypeOK
  <2> QED BY <2>1, <2>2
<1>6. \A t \in Sessions : t # s => seen'[t] = seen[t]
  BY <1>1 DEF TypeInv, TypeOK
<1>7. /\ wpc = "sessions"
      /\ UNCHANGED <<count, ring, sent, wpc, at, batch, last, alert, to>>
  BY DEF FirstSight, gatewayVars, histVars
<1>8. NewIsUnsent'
  BY <1>2, <1>5, <1>6, <1>7 DEF OnceInv, NewIsUnsent, Unsent
<1> QED
  BY <1>7, <1>8
     DEF OnceInv, RingsDistinct, BatchSound, AlertSound, SentHappened, PushedOnce, Unsent

\* FetchEvents: the batch is the end of the ring, and what is beyond the number is unsent.
LEMMA OnceFetch == ASSUME TypeInv, OnceInv, NEW s \in Sessions, FetchEvents(s) PROVE OnceInv'
<1>1. seen[s] \in 0..count
  BY DEF FetchEvents, TypeInv, TypeOK
<1>2. PICK first \in 1..(Len(ring[s]) + 1) :
        /\ Len(batch') = Len(ring[s]) + 1 - first
        /\ \A i \in 1..Len(batch') : /\ first + i - 1 \in 1..Len(ring[s])
                                     /\ batch'[i] = <<first + i - 1, ring[s][first + i - 1]>>
  BY <1>1, RepliesAre DEF FetchEvents
<1>3. /\ wpc' = "events" /\ at' = s /\ last' = seen[s] /\ seen[s] # None
      /\ UNCHANGED <<count, ring, sent, seen>>
  BY DEF FetchEvents, gatewayVars, histVars
<1> DEFINE size == Len(batch')
<1>6. \A i \in 1..size : /\ first + i - 1 \in 1..Len(ring[s])
                         /\ batch'[i][1] = first + i - 1
                         /\ batch'[i][2] = ring[s][first + i - 1]
  BY <1>2
<1>7. size \in Nat /\ first \in Nat
  BY <1>2, OnceTypes
<1>4. ASSUME NEW i \in 1..Len(batch')
      PROVE  /\ \A j \in 1..Len(batch') : batch'[i][2] = batch'[j][2] => i = j
             /\ \A t \in Sessions : \A n \in 1..Len(ring[t]) :
                 ring[t][n] = batch'[i][2] => t = s /\ n = batch'[i][1]
             /\ batch'[i][1] > seen[s] => Unsent(batch'[i][2])
  <2>1. /\ first + i - 1 \in 1..Len(ring[s])
        /\ batch'[i][1] = first + i - 1 /\ batch'[i][2] = ring[s][first + i - 1]
    BY <1>6
  <2>2. \A t \in Sessions : \A n \in 1..Len(ring[t]) :
          ring[t][n] = batch'[i][2] => t = s /\ n = batch'[i][1]
    BY <2>1 DEF OnceInv, RingsDistinct
  <2>3. batch'[i][1] > seen[s] => Unsent(batch'[i][2])
    BY <1>3, <2>1 DEF OnceInv, NewIsUnsent
  <2>4. ASSUME NEW j \in 1..Len(batch'), batch'[i][2] = batch'[j][2] PROVE i = j
    <3>1. first + j - 1 \in 1..Len(ring[s]) /\ batch'[j][2] = ring[s][first + j - 1]
      BY <1>6
    <3>2. ring[s][first + j - 1] = ring[s][first + i - 1]
      BY <2>1, <2>4, <3>1
    <3>3. first + j - 1 = first + i - 1
      BY <2>1, <3>1, <3>2 DEF OnceInv, RingsDistinct
    <3> QED BY <1>7, <3>3
  <2> QED BY <2>2, <2>3, <2>4
<1>5. BatchSound'
  BY <1>3, <1>4 DEF BatchSound, Unsent
<1> QED
  BY <1>3, <1>5
     DEF OnceInv, RingsDistinct, NewIsUnsent, AlertSound, SentHappened, PushedOnce, Unsent

\* PassOver and Deliver take the head of the batch; the session's number never goes down.
LEMMA OnceTakes == ASSUME TypeInv, OnceInv, PassOver \/ Deliver PROVE OnceInv'
<1> DEFINE seq == Head(batch)[1]
<1>1. batch # <<>> /\ batch \in Seq(Entries) /\ wpc = "events" /\ batch' = Tail(batch)
  BY OnceTypes DEF PassOver, Deliver
<1>2. /\ Len(batch) \in Nat \ {0} /\ Len(batch') = Len(batch) - 1
      /\ \A i \in 1..Len(batch') : batch'[i] = batch[i + 1]
      /\ Head(batch) = batch[1]
  BY <1>1
<1>3. seq \in Nat /\ at \in Sessions /\ seen[at] # None /\ seen[at] \in Nat
  BY <1>1, <1>2, OnceTypes DEF OnceInv, BatchSound
<1>4. /\ \A t \in Sessions : t # at => seen'[t] = seen[t]
      /\ seen'[at] \in Nat /\ seen'[at] >= seen[at]
      /\ Deliver => seen'[at] >= seq
  BY <1>3 DEF PassOver, Deliver, TypeInv, TypeOK
<1>5. seen'[at] # None
  BY <1>4, PushAssumption
<1>6. UNCHANGED <<count, ring, sent, at, last>> /\ wpc' \in {"events", "deliver"}
  BY <1>1 DEF PassOver, Deliver, gatewayVars, histVars
<1>7. NewIsUnsent'
  <2>1. ASSUME NEW t \in Sessions, NEW n \in 1..Len(ring[t]), seen'[t] # None, n > seen'[t]
        PROVE  seen[t] # None /\ n > seen[t]
    <3>1. CASE t = at
      <4>1. n \in Nat
        BY OnceTypes
      <4> QED BY <1>3, <1>4, <2>1, <3>1, <4>1
    <3>2. CASE t # at
      BY <1>4, <2>1, <3>2
    <3> QED BY <3>1, <3>2
  <2> QED BY <1>6, <2>1 DEF OnceInv, NewIsUnsent, Unsent
<1>8. BatchSound'
  <2>1. \A i \in 1..Len(batch') : i + 1 \in 1..Len(batch)
    BY <1>2
  <2>2. ASSUME NEW i \in 1..Len(batch'), NEW j \in 1..Len(batch'), batch'[i][2] = batch'[j][2]
        PROVE  i = j
    <3>1. i + 1 \in 1..Len(batch) /\ j + 1 \in 1..Len(batch)
      BY <2>1
    <3>2. batch[i + 1][2] = batch[j + 1][2]
      BY <1>2, <2>2
    <3>3. i + 1 = j + 1
      BY <3>1, <3>2 DEF OnceInv, BatchSound
    <3> QED BY <3>3
  <2>3. wpc' \in {"idle", "sessions"} => batch' = <<>>
    BY <1>6
  <2>4. at' \in Sessions /\ seen'[at'] # None
    BY <1>3, <1>5, <1>6
  <2>5. ASSUME NEW i \in 1..Len(batch'), NEW s \in Sessions, NEW n \in 1..Len(ring[s]),
               ring[s][n] = batch'[i][2]
        PROVE  s = at /\ n = batch'[i][1]
    <3>1. i + 1 \in 1..Len(batch) /\ batch'[i] = batch[i + 1]
      BY <1>2, <2>1
    <3> QED BY <2>5, <3>1 DEF OnceInv, BatchSound
  <2>6. ASSUME NEW i \in 1..Len(batch'), batch'[i][1] > last
        PROVE  Unsent(batch'[i][2])
    <3>1. i + 1 \in 1..Len(batch) /\ batch'[i] = batch[i + 1]
      BY <1>2, <2>1
    <3> QED BY <2>6, <3>1 DEF OnceInv, BatchSound
  <2>7. \A i \in 1..Len(batch') : batch'[i][1] > last' =>
            \A d \in Devices : sent'[<<batch'[i][2], d>>] = 0
    BY <1>6, <2>6 DEF Unsent
  <2> QED BY <1>6, <2>2, <2>3, <2>4, <2>5, <2>7 DEF BatchSound, Unsent
<1>9. AlertSound'
  <2>1. CASE PassOver
    BY <1>1, <2>1 DEF PassOver, AlertSound
  <2>2. CASE Deliver
    <3>1. /\ alert' = batch[1][2] /\ seq > last /\ to' = offline /\ offline \subseteq Devices
          /\ 1 \in 1..Len(batch)
      BY <1>2, <2>2 DEF Deliver, TypeInv, TypeOK
    <3>2. alert' \in 1..count /\ Unsent(alert')
      BY <1>2, <3>1, OnceTypes DEF OnceInv, BatchSound
    <3>3. \A i \in 1..Len(batch') : batch'[i][2] # alert'
      BY <1>2, <3>1 DEF OnceInv, BatchSound
    <3>4. \A t \in Sessions : \A n \in 1..Len(ring[t]) :
            ring[t][n] = alert' => t = at /\ n = seq
      BY <1>2, <3>1 DEF OnceInv, BatchSound
    <3>5. \A t \in Sessions : \A n \in 1..Len(ring[t]) :
            ring[t][n] = alert' => seen'[t] # None /\ n <= seen'[t]
      BY <1>3, <1>4, <1>5, <2>2, <3>4
    <3> QED BY <1>6, <3>1, <3>2, <3>3, <3>5 DEF AlertSound, Unsent
  <2> QED BY <2>1, <2>2
<1> QED BY <1>6, <1>7, <1>8, <1>9 DEF OnceInv, RingsDistinct, SentHappened, PushedOnce

\* Send: the phone had not got the alert, and neither batch nor rings hold it as new.
LEMMA OnceSend == ASSUME TypeInv, OnceInv, NEW d \in Devices, Send(d) PROVE OnceInv'
<1>1. /\ wpc = "deliver" /\ d \in to /\ to' = to \ {d} /\ to \subseteq Devices
      /\ UNCHANGED <<count, ring, seen, wpc, at, batch, last, alert>>
  BY DEF Send, gatewayVars, TypeInv, TypeOK
<1>2. alert \in 1..count /\ alert \in Events /\ sent[<<alert, d>>] = 0
  BY <1>1, OnceTypes DEF OnceInv, AlertSound
<1>3. /\ sent'[<<alert, d>>] = 1
      /\ \A e \in Events, r \in Devices : e # alert \/ r # d => sent'[<<e, r>>] = sent[<<e, r>>]
  BY <1>2 DEF Send, TypeInv, TypeOK
<1>4. \A e \in Events : e # alert /\ Unsent(e) => Unsent(e)'
  BY <1>3 DEF Unsent
<1>5. NewIsUnsent'
  BY <1>1, <1>4, OnceTypes DEF OnceInv, NewIsUnsent, AlertSound
<1>6. BatchSound'
  BY <1>1, <1>4, OnceTypes DEF OnceInv, BatchSound, AlertSound
<1>7. AlertSound'
  BY <1>1, <1>2, <1>3 DEF OnceInv, AlertSound
<1>8. SentHappened'
  BY <1>1, <1>2, <1>3, OnceTypes DEF OnceInv, SentHappened
<1>9. ASSUME NEW e \in Events, NEW r \in Devices PROVE sent'[<<e, r>>] <= 1
  <2>1. CASE e = alert /\ r = d
    BY <1>3, <2>1
  <2>2. CASE e # alert \/ r # d
    BY <1>3, <2>2 DEF OnceInv, PushedOnce
  <2> QED BY <2>1, <2>2
<1>10. PushedOnce'
  BY <1>9 DEF PushedOnce
<1> QED BY <1>1, <1>5, <1>6, <1>7, <1>8, <1>10 DEF OnceInv, RingsDistinct

LEMMA OnceStep == ASSUME TypeInv, OnceInv, [Next]_vars PROVE OnceInv'
<1> USE DEF regVars, gatewayVars, roundVars, histVars
<1>0. ASSUME UNCHANGED <<count, ring, sent, seen, roundVars>> PROVE OnceInv'
  <2>1. UNCHANGED <<count, ring, sent, seen, batch, at, last, wpc, alert, to>>
    BY <1>0
  <2> QED BY <2>1, OnceKept
<1>1. CASE \/ \E d \in Devices : \/ Register(d) \/ Connect(d) \/ Disconnect(d) \/ Pair(d)
                                 \/ Revoke(d) \/ RevokeDrops(d) \/ CLIRevoke(d)
           \/ DaemonStarts \/ UNCHANGED vars
  <2>1. UNCHANGED <<count, ring, sent, seen, roundVars>>
    BY <1>1
       DEF Register, Connect, Disconnect, Pair, Revoke, RevokeDrops, CLIRevoke, DaemonStarts, vars
  <2> QED BY <1>0, <2>1
<1>2. CASE \/ Poll \/ \E s \in Sessions : EventsFail(s)
           \/ \E d \in Devices : DropUnpaired(d) \/ SendFails(d)
  <2>1. UNCHANGED <<count, ring, sent, seen, batch, at, last>>
    BY <1>2 DEF Poll, EventsFail, DropUnpaired, SendFails
  <2>2. wpc' = "deliver" => wpc = "deliver" /\ alert' = alert /\ to' \subseteq to
    BY <1>2 DEF Poll, EventsFail, DropUnpaired, SendFails
  <2>3. wpc' = wpc \/ (batch = <<>> /\ wpc' \in {"idle", "sessions"})
    <3>1. CASE Poll
      BY <3>1 DEF Poll, OnceInv, BatchSound
    <3> QED BY <1>2, <3>1 DEF EventsFail, DropUnpaired, SendFails
  <2> QED BY <2>1, <2>2, <2>3, OnceKept
<1>3. CASE RoundEnds \/ BatchEnds
  BY <1>3
     DEF RoundEnds, BatchEnds, Idle, OnceInv, RingsDistinct, NewIsUnsent, BatchSound, AlertSound,
         SentHappened, PushedOnce, Unsent
<1>4. CASE DeliverEnds
  BY <1>4
     DEF DeliverEnds, OnceInv, RingsDistinct, NewIsUnsent, BatchSound, AlertSound, SentHappened,
         PushedOnce, Unsent
<1> QED
  BY <1>1, <1>2, <1>3, <1>4, OnceHappens, OnceRestart, OnceStops, OnceFirstSight, OnceFetch,
     OnceTakes, OnceSend DEF Next, Bridge, Watcher

\* Poll, deliver: for every number of phones, sessions and events, whatever the ring replays,
\* the daemon forgets and a restarted gateway counts anew, no phone gets an alert twice.
THEOREM NoSecondPush == Spec => []PushedOnce
<1>1. TypeInv /\ OnceInv => PushedOnce
  BY DEF OnceInv
<1> QED BY <1>1, TypeInit, TypeStep, OnceInit, OnceStep, PTL DEF Spec
=============================================================================
