------------------------------- MODULE RelayLink -------------------------------
(***************************************************************************)
(* The one socket between a bridge and the relay, and the phones that      *)
(* share it: the bridge's read loop, write gate and channels               *)
(* (internal/bridge/relay_client.go), what serveLink does with a channel   *)
(* (server.go: run, handshake), and, at the other end, the relay's         *)
(* servePhone goroutines and bridge->phones loop (internal/relay/relay.go; *)
(* its limits are the subject of RelaySession).                            *)
(*                                                                         *)
(* Control messages name a channel and the token of the phone socket they  *)
(* are about; data frames, and all messages of an older relay, name the    *)
(* channel only.  A phone of the model is one socket with one token.       *)
(* Either end may drop a phone at any time, so that a close and the open   *)
(* of the phone that took its number over pass each other in every way.    *)
(***************************************************************************)
EXTENDS Integers, Sequences, SequencesExt

CONSTANTS
    Phones,        \* phone sockets: one token each
    MaxChannel,    \* channel numbers are 1..MaxChannel (65535)
    Backlog,       \* capacity of relayChannel.inbox (256)
    Buffer,        \* frames the socket takes in one direction before a write waits
    None           \* no phone

ASSUME LinkAssumption ==
    /\ MaxChannel \in Nat \ {0} /\ Backlog \in Nat \ {0} /\ Buffer \in Nat \ {0}
    /\ None \notin Phones

Channels == 1..MaxChannel
Message == [k : {"open", "close", "data"}, c : Channels, t : Phones]

VARIABLES
    \* The attachment.
    link,      \* runOnce: "down", or "up" (its read loop runs)
    wire,      \* the socket is alive
    tokens,    \* the relay gives its phones tokens (an older one does not)
    down,      \* frames on their way to the bridge
    up,        \* frames on their way to the relay
    \* The relay.
    phones,    \* session.phones
    rpc,       \* servePhone of each phone
    chan,      \* phone.ch, 0 before it is given
    \* The bridge.
    channels,  \* relayMux.channels
    inbox,     \* frames in relayChannel.inbox
    done,      \* relayChannel.once: unused, or used up by Close or by finish
    spc,       \* serveLink of each channel
    writes,    \* writes that wait for relayMux.writeGate or have it
    loopClose  \* the phone whose backlog the read loop is closing, or None

linkVars   == <<link, wire, tokens>>
relayVars  == <<phones, rpc, chan>>
bridgeVars == <<channels, inbox, done, spc, writes, loopClose>>
vars == <<linkVars, down, up, relayVars, bridgeVars>>

TypeOK ==
    /\ link \in {"down", "up"} /\ wire \in BOOLEAN /\ tokens \in BOOLEAN
    /\ down \in Seq(Message) /\ Len(down) <= Buffer
    /\ up \in Seq(Message) /\ Len(up) <= Buffer
    /\ phones \in [Channels -> Phones \cup {None}]
    /\ rpc \in [Phones -> {"idle", "registered", "serving", "left", "gone"}]
    /\ chan \in [Phones -> 0..MaxChannel]
    /\ channels \in [Channels -> Phones \cup {None}]
    /\ inbox \in [Phones -> 0..Backlog]
    /\ done \in [Phones -> {"no", "closed", "finished"}]
    /\ spc \in [Phones -> {"none", "serving", "ending", "returned"}]
    /\ writes \subseteq Message
    /\ loopClose \in Phones \cup {None}

Init ==
    /\ link = "down" /\ wire = FALSE /\ tokens = TRUE
    /\ down = <<>> /\ up = <<>>
    /\ phones = [c \in Channels |-> None]
    /\ rpc = [t \in Phones |-> "idle"]
    /\ chan = [t \in Phones |-> 0]
    /\ channels = [c \in Channels |-> None]
    /\ inbox = [t \in Phones |-> 0]
    /\ done = [t \in Phones |-> "no"]
    /\ spc = [t \in Phones |-> "none"]
    /\ writes = {}
    /\ loopClose = None

Msg(kind, t) == [k |-> kind, c |-> chan[t], t |-> t]
Without(map, t) == [c \in Channels |-> IF map[c] = t THEN None ELSE map[c]]
Done(t) == done[t] # "no"

\* A close is about whoever has the number now, if its token says so or it has none.
Names(m, map) == map[m.c] # None /\ (tokens => map[m.c] = m.t)

\* The socket is gone, and with it what was under way.
DropWire == wire' = FALSE /\ down' = <<>> /\ up' = <<>>

\* relayChannel.finish for the phones of S.
Finish(S) ==
    done' = [t \in Phones |-> IF t \in S /\ ~Done(t) THEN "finished" ELSE done[t]]

(***************************************************************************)
(* The relay.                                                              *)
(***************************************************************************)
\* servePhone registers the phone under a number nobody holds. The numbers go round
\* modulo 65535: by the time this one comes up again its last holder has left its loop
\* (data frames carry no token, the code relies on it). The last holder's close may still
\* be to come, from either end, and so may the bridge's frames for it.
Connect(t, c) ==
    /\ link = "up" /\ wire
    /\ rpc[t] = "idle"
    /\ phones[c] = None
    /\ \A other \in Phones : chan[other] = c => rpc[other] \in {"left", "gone"}
    /\ phones' = [phones EXCEPT ![c] = t]
    /\ chan' = [chan EXCEPT ![t] = c]
    /\ rpc' = [rpc EXCEPT ![t] = "registered"]
    /\ UNCHANGED <<linkVars, down, up, bridgeVars>>

\* session.writeBridge: the socket takes the frame, or the writer waits.
WriteBridge(m) == wire /\ Len(down) < Buffer /\ down' = Append(down, m)

SendOpen(t) ==
    /\ rpc[t] = "registered"
    /\ WriteBridge(Msg("open", t))
    /\ rpc' = [rpc EXCEPT ![t] = "serving"]
    /\ UNCHANGED <<linkVars, up, phones, chan, bridgeVars>>

\* One turn of servePhone's loop: a frame of the phone is passed on.
PhoneSends(t) ==
    /\ rpc[t] = "serving"
    /\ WriteBridge(Msg("data", t))
    /\ UNCHANGED <<linkVars, up, relayVars, bridgeVars>>

\* The relay takes the number from a phone (closeIfPending, a displacement, closePhone after
\* a frame that could not be passed on): its socket is closed later, by another goroutine,
\* and until servePhone notices it goes on.
RelayDrops(t) ==
    /\ t \in Range(phones)
    /\ phones' = Without(phones, t)
    /\ UNCHANGED <<linkVars, down, up, rpc, chan, bridgeVars>>

\* servePhone leaves its loop, because the phone is gone, idle, too fast or dropped or the
\* bridge is lost, or it could not write the open; the deferred function gives the number
\* back if the phone still has it ...
LoopEnds(t) ==
    /\ \/ rpc[t] = "serving"
       \/ rpc[t] = "registered" /\ (t \notin Range(phones) \/ ~wire)
    /\ rpc' = [rpc EXCEPT ![t] = "left"]
    /\ phones' = Without(phones, t)
    /\ UNCHANGED <<linkVars, down, up, chan, bridgeVars>>

\* ... and tells the bridge, if the socket lets it.
SendClose(t) ==
    /\ rpc[t] = "left"
    /\ WriteBridge(Msg("close", t)) \/ (~wire /\ UNCHANGED down)
    /\ rpc' = [rpc EXCEPT ![t] = "gone"]
    /\ UNCHANGED <<linkVars, up, phones, chan, bridgeVars>>

\* The bridge->phones loop. A close ends only the socket it names (closePhoneFromBridge); a
\* data frame goes to whoever has the number.
RelayReads ==
    /\ wire /\ up # <<>>
    /\ up' = Tail(up)
    /\ LET m == Head(up) IN
       phones' = IF m.k = "close" /\ Names(m, phones)
                 THEN [phones EXCEPT ![m.c] = None] ELSE phones
    /\ UNCHANGED <<linkVars, down, rpc, chan, bridgeVars>>

(***************************************************************************)
(* The bridge: RelayDialer.                                                *)
(***************************************************************************)
\* Run -> runOnce: the challenge is answered and the attachment acknowledged. The relay
\* makes a new session of it; what is left of the old one, at either end, writes to a dead
\* socket, and is taken to have done so before.
Attach ==
    /\ link = "down" /\ writes = {}
    /\ link' = "up" /\ wire' = TRUE /\ tokens' \in BOOLEAN
    /\ down' = <<>> /\ up' = <<>>
    /\ phones' = [c \in Channels |-> None]
    /\ rpc' = [t \in Phones |-> IF rpc[t] = "idle" THEN "idle" ELSE "gone"]
    /\ UNCHANGED <<chan, bridgeVars>>

\* The network or the relay ends the socket, or the keepalive got neither the gate nor a
\* pong in time and cancels the attachment's context.
LinkLost ==
    /\ link = "up" /\ wire
    /\ DropWire
    /\ UNCHANGED <<link, tokens, relayVars, bridgeVars>>

\* The read loop returns and closeAll finishes the channels.
LoopFails ==
    /\ link = "up" /\ ~wire /\ loopClose = None
    /\ link' = "down"
    /\ Finish(Range(channels))
    /\ channels' = [c \in Channels |-> None]
    /\ UNCHANGED <<wire, tokens, down, up, relayVars, inbox, spc, writes, loopClose>>

\* relayChannel.Close, the first time: the close is written only by the channel that still
\* has its number.
CloseChannel(t) ==
    /\ done' = [done EXCEPT ![t] = IF @ = "no" THEN "closed" ELSE @]
    /\ channels' = Without(channels, t)
    /\ writes' = IF t \in Range(channels) THEN writes \cup {Msg("close", t)} ELSE writes

\* Mutant: the number's last channel is forgotten, but not finished.
MuxOpenForgets(m) ==
    /\ channels' = [channels EXCEPT ![m.c] = m.t]
    /\ spc' = [spc EXCEPT ![m.t] = "serving"]
    /\ UNCHANGED <<done, inbox, writes, loopClose>>

\* relayMux.open: the number's last channel is finished without a word to the relay.
MuxOpen(m) ==
    /\ channels' = [channels EXCEPT ![m.c] = m.t]
    /\ Finish({channels[m.c]})
    /\ spc' = [spc EXCEPT ![m.t] = "serving"]
    /\ UNCHANGED <<inbox, writes, loopClose>>

\* Mutant: one frame more than the inbox has room for.
HasRoomPast(t) == inbox[t] <= Backlog

HasRoom(t) == inbox[t] < Backlog

\* relayMux.deliver: the frame goes to whoever has the number; a full inbox costs the
\* channel, and the read loop writes the close itself.
Deliver(m) ==
    LET t == channels[m.c] IN
    \/ t = None /\ UNCHANGED <<channels, done, inbox, writes, loopClose>>
    \/ /\ t # None /\ HasRoom(t)
       /\ inbox' = [inbox EXCEPT ![t] = @ + 1]
       /\ UNCHANGED <<channels, done, writes, loopClose>>
    \/ /\ t # None /\ ~HasRoom(t)
       /\ CloseChannel(t)
       /\ loopClose' = t
       /\ UNCHANGED inbox

\* Mutant: a close ends whoever has the number by now.
RemoteClosedAny(m) ==
    /\ Finish({channels[m.c]})
    /\ channels' = [channels EXCEPT ![m.c] = None]

\* relayMux.remoteClosed: only the channel the close names.
RemoteClosed(m) ==
    IF Names(m, channels)
    THEN /\ Finish({channels[m.c]})
         /\ channels' = [channels EXCEPT ![m.c] = None]
    ELSE UNCHANGED <<channels, done>>

LoopReads ==
    /\ link = "up" /\ wire /\ loopClose = None
    /\ down # <<>> /\ down' = Tail(down)
    /\ LET m == Head(down) IN
       \/ m.k = "open" /\ MuxOpen(m)
       \/ m.k = "close" /\ RemoteClosed(m) /\ UNCHANGED <<inbox, spc, writes, loopClose>>
       \/ m.k = "data" /\ Deliver(m) /\ UNCHANGED spc
    /\ UNCHANGED <<linkVars, up, relayVars>>

(***************************************************************************)
(* The bridge: relayMux.write.                                             *)
(***************************************************************************)
\* The goroutine that wrote m goes on. A data frame that failed ends the tunnel or the
\* handshake; if it was the accepted message run returns and leaves the channel as it is.
AfterWrite(m, ok) ==
    /\ writes' = writes \ {m}
    /\ loopClose' = IF m.k = "close" /\ m.t = loopClose THEN None ELSE loopClose
    /\ IF m.k = "data" /\ ~ok /\ spc[m.t] = "serving"
       THEN \E next \in {"ending", "returned"} : spc' = [spc EXCEPT ![m.t] = next]
       ELSE UNCHANGED spc
    /\ UNCHANGED <<link, tokens, relayVars, channels, inbox, done>>

\* The context a write of m runs under has ended: its channel is done, its tunnel is ending
\* or the attachment is over. A close is written under no context.
Cancelled(m) ==
    /\ m.k = "data"
    /\ Done(m.t) \/ spc[m.t] = "ending" \/ link # "up"

\* The gate is had and the socket takes the frame.
WriteFrame(m) ==
    /\ m \in writes /\ wire /\ Len(up) < Buffer
    /\ up' = Append(up, m)
    /\ AfterWrite(m, TRUE)
    /\ UNCHANGED <<wire, down>>

\* The gate does not come free in 30 s, or the context ends first: the socket is untouched.
GiveUpGate(m) ==
    /\ m \in writes /\ (writes # {m} \/ Cancelled(m))
    /\ AfterWrite(m, FALSE)
    /\ UNCHANGED <<wire, down, up>>

\* The socket is gone, or a write that has begun is stuck for 30 s or cancelled: half a
\* frame cannot be taken back, so the whole socket is closed with it.
CutWrite(m) ==
    /\ m \in writes
    /\ ~wire \/ Len(up) = Buffer \/ Cancelled(m)
    /\ DropWire
    /\ AfterWrite(m, FALSE)

(***************************************************************************)
(* The bridge: serveLink of one channel.                                   *)
(***************************************************************************)
Writing(t) == Msg("data", t) \in writes

\* relayChannel.Read returns a frame of the handshake or of the tunnel, which may end it.
ReadFrame(t) ==
    /\ spc[t] = "serving" /\ inbox[t] > 0
    /\ inbox' = [inbox EXCEPT ![t] = @ - 1]
    /\ \E next \in {"serving", "ending"} : spc' = [spc EXCEPT ![t] = next]
    /\ UNCHANGED <<linkVars, down, up, relayVars, channels, done, writes, loopClose>>

\* It returns an error: the channel is done, the attachment over, a timeout has passed;
\* or the tunnel fails for a reason of its own.
ReadFails(t) ==
    /\ spc[t] = "serving"
    /\ spc' = [spc EXCEPT ![t] = "ending"]
    /\ UNCHANGED <<linkVars, down, up, relayVars, channels, inbox, done, writes, loopClose>>

\* relayChannel.Write looks at done, and waits for the gate.
StartWrite(t) ==
    /\ spc[t] = "serving" /\ ~Writing(t) /\ ~Done(t)
    /\ writes' = writes \cup {Msg("data", t)}
    /\ UNCHANGED <<linkVars, down, up, relayVars, channels, inbox, done, spc, loopClose>>

\* conn.close at the end of run, when the tunnel's loops, whose writes its context has
\* cancelled, have returned (Tunnel says when they do).
RunCloses(t) ==
    /\ spc[t] = "ending" /\ ~Writing(t) /\ ~Done(t)
    /\ CloseChannel(t)
    /\ UNCHANGED <<linkVars, down, up, relayVars, inbox, spc, loopClose>>

\* It returns when the close is written; sync.Once makes it wait for another's close too.
RunReturns(t) ==
    /\ spc[t] = "ending" /\ ~Writing(t) /\ Done(t)
    /\ Msg("close", t) \notin writes
    /\ spc' = [spc EXCEPT ![t] = "returned"]
    /\ inbox' = [inbox EXCEPT ![t] = 0]
    /\ UNCHANGED <<linkVars, down, up, relayVars, channels, done, writes, loopClose>>

\* A revocation or the bridge's shutdown closes the connection from outside.
OthersClose(t) ==
    /\ spc[t] \in {"serving", "ending"} /\ ~Done(t)
    /\ CloseChannel(t)
    /\ UNCHANGED <<linkVars, down, up, relayVars, inbox, spc, loopClose>>

(***************************************************************************)
(* The specification.                                                      *)
(***************************************************************************)
RelayPhone(t) ==
    \/ \E c \in Channels : Connect(t, c)
    \/ SendOpen(t) \/ PhoneSends(t) \/ RelayDrops(t) \/ LoopEnds(t) \/ SendClose(t)

ServeLink(t) ==
    \/ ReadFrame(t) \/ ReadFails(t)
    \/ StartWrite(t)
    \/ RunCloses(t) \/ RunReturns(t) \/ OthersClose(t)

Writer(m) == WriteFrame(m) \/ GiveUpGate(m) \/ CutWrite(m)

Next ==
    \/ \E t \in Phones : RelayPhone(t) \/ ServeLink(t)
    \/ RelayReads
    \/ Attach \/ LinkLost \/ LoopFails \/ LoopReads
    \/ \E m \in writes : Writer(m)

Spec == Init /\ [][Next]_vars

\* The bridge's goroutines run and its timeouts pass; a channel that is done, or whose
\* attachment is over, is noticed by its reader or by the next ping. The relay's deferred
\* closes are written. Nothing is assumed of the relay reading what the bridge sends, nor of
\* run returning: a tunnel that has ended may keep it (Tunnel).
Fairness ==
    /\ WF_vars(LoopReads \/ LoopFails)
    /\ \A t \in Phones :
        /\ WF_vars(SendClose(t))
        /\ \A m \in {w \in Message : w.t = t /\ w.k # "open"} : WF_vars(Writer(m))
        /\ WF_vars((Done(t) \/ link # "up") /\ ReadFails(t))

FairSpec == Spec /\ Fairness

(***************************************************************************)
(* Properties.                                                             *)
(***************************************************************************)
InFlight(kind, t, stream) == \E m \in ToSet(stream) : m.k = kind /\ m.t = t

\* remoteClosed, Close, closePhoneFromBridge: while the socket lives the two ends agree. A
\* phone the relay serves and the bridge has been told of has its channel, or the bridge
\* itself has ended it; and a channel the bridge keeps is of a phone whose close is not
\* yet here. With tokens, a close that is overtaken by the open of the number's next phone
\* hits neither; an older relay's close may end the next phone, but leaves no channel behind.
EndsAgree ==
    wire /\ link = "up" =>
        /\ tokens => \A t \in Phones :
            rpc[t] = "serving" /\ t \in Range(phones) /\ ~InFlight("open", t, down) =>
                \/ channels[chan[t]] = t /\ ~Done(t)
                \/ done[t] = "closed"
        /\ \A c \in Channels : channels[c] # None =>
            LET t == channels[c] IN
            rpc[t] \in {"serving", "left"} \/ InFlight("close", t, down)

\* runOnce, relayMux.open, write and closeAll: when a phone has left the relay, or the socket
\* is lost, be it by the write of another phone that was cut off, the bridge gives the
\* channel up and the tunnel or handshake behind it ends or is told to: also if run had
\* returned without closing, and if the next phone's open comes before the close.
ChannelGivenUp ==
    \A t \in Phones :
        (rpc[t] = "gone" \/ ~wire)
            ~> (spc[t] = "none" \/ (Done(t) /\ t \notin Range(channels) /\ spc[t] # "serving"))
===============================================================================
