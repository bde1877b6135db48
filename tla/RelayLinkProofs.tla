---------------------------- MODULE RelayLinkProofs ----------------------------
(***************************************************************************)
(* Proofs about RelayLink, for every number of phones and channels and     *)
(* every backlog and buffer: type correctness, and that the relay and the  *)
(* bridge agree on who has which channel.                                  *)
(***************************************************************************)
EXTENDS RelayLink, TLAPS

At == 1..Len(down)

\* Both ends number their phones alike: a phone has the number it registered under from then
\* on, at most one phone that has not left holds a number, the bridge knows a phone only
\* after the relay has registered it, and an attachment that is over has no channels.
Numbered ==
    /\ \A t \in Phones : rpc[t] # "idle" => chan[t] \in Channels
    /\ \A t \in Phones : spc[t] # "none" => rpc[t] \notin {"idle", "registered"}
    /\ \A t \in Phones : spc[t] = "none" => done[t] = "no"
    /\ \A c \in Channels : phones[c] # None =>
          chan[phones[c]] = c /\ rpc[phones[c]] \in {"registered", "serving"}
    /\ \A c \in Channels : channels[c] # None =>
          chan[channels[c]] = c /\ spc[channels[c]] # "none"
    /\ \A s, t \in Phones :
          /\ rpc[s] \in {"registered", "serving"} /\ rpc[t] \in {"registered", "serving"}
          /\ chan[s] = chan[t]
          => s = t
    /\ link = "down" => ~wire /\ \A c \in Channels : channels[c] = None

\* What is on its way to the bridge. A phone whose open is under way is not known there, and
\* its close, if it has been sent, comes after it.
InOrder ==
    /\ \A i \in At :
          /\ down[i].c = chan[down[i].t] /\ rpc[down[i].t] \notin {"idle", "registered"}
          /\ down[i].k = "close" => rpc[down[i].t] = "gone"
          /\ down[i].k = "open" =>
                /\ spc[down[i].t] = "none"
                /\ \/ rpc[down[i].t] \in {"serving", "left"}
                   \/ \E j \in At : i < j /\ down[j].k = "close" /\ down[j].t = down[i].t
    /\ \A i, j \in At : i < j /\ down[j].k = "open" /\ down[i].t = down[j].t =>
          down[i].k = "data"

\* The open of the phone that is served under a number is the last one of that number: it
\* takes the channel from those before it, and none after it does.
LastOpen ==
    \A t \in Phones, i \in At :
        rpc[t] = "serving" /\ down[i].k = "open" /\ down[i].c = chan[t] /\ down[i].t # t =>
            \E j \in At : i < j /\ down[j].k = "open" /\ down[j].t = t

\* EndsAgree, by position in the stream.
Agree ==
    wire /\ link = "up" =>
        /\ \A t \in Phones :
            /\ tokens /\ rpc[t] = "serving"
            /\ \E c \in Channels : phones[c] = t
            /\ \A i \in At : ~(down[i].k = "open" /\ down[i].t = t)
            => \/ channels[chan[t]] = t /\ done[t] = "no"
               \/ done[t] = "closed"
        /\ \A c \in Channels : channels[c] # None =>
            \/ rpc[channels[c]] \in {"serving", "left"}
            \/ \E i \in At : down[i].k = "close" /\ down[i].t = channels[c]

IInv == TypeOK /\ Numbered /\ InOrder /\ LastOpen /\ Agree /\ (~wire => down = <<>>)

-----------------------------------------------------------------------------
\* The stream to the bridge.

LEMMA Appended ==
    ASSUME TypeOK, NEW m \in Message, Len(down) < Buffer, down' = Append(down, m)
    PROVE  /\ down' \in Seq(Message) /\ Len(down') <= Buffer
           /\ Len(down) + 1 \in At' /\ down'[Len(down) + 1] = m
           /\ \A i \in At : i \in At' /\ down'[i] = down[i] /\ i < Len(down) + 1
           /\ \A i \in At' : (i \in At \/ i = Len(down) + 1) /\ ~(Len(down) + 1 < i)
           /\ Len(down) + 1 \notin At
<1>1. down \in Seq(Message) /\ Len(down) \in Nat /\ Buffer \in Nat
  BY LinkAssumption DEF TypeOK
<1>2. down' \in Seq(Message) /\ Len(down') = Len(down) + 1
  BY <1>1
<1>3. down'[Len(down) + 1] = m /\ \A i \in 1..Len(down) : down'[i] = down[i]
  BY <1>1
<1> QED BY <1>1, <1>2, <1>3 DEF At

LEMMA Taken ==
    ASSUME TypeOK, down # <<>>, down' = Tail(down)
    PROVE  /\ down' \in Seq(Message) /\ Len(down') <= Buffer
           /\ 1 \in At /\ Head(down) = down[1] /\ Head(down) \in Message
           /\ \A i \in At' : i + 1 \in At /\ down'[i] = down[i + 1] /\ 1 < i + 1
           /\ \A i \in At : i # 1 => i - 1 \in At' /\ down'[i - 1] = down[i]
<1>1. down \in Seq(Message) /\ Len(down) \in Nat /\ Buffer \in Nat /\ Len(down) <= Buffer
  BY LinkAssumption DEF TypeOK
<1>2. Len(down) > 0 /\ Head(down) = down[1] /\ Head(down) \in Message
  BY <1>1
<1>3. /\ down' \in Seq(Message) /\ Len(down') = Len(down) - 1
      /\ \A i \in 1..Len(down) - 1 : down'[i] = down[i + 1]
  BY <1>1, <1>2
<1> QED BY <1>1, <1>2, <1>3 DEF At

\* The messages on the wire name phones and numbers.
LEMMA DownTyped ==
    ASSUME TypeOK, NEW i \in At
    PROVE  /\ i \in Nat /\ down[i] \in Message
           /\ down[i].k \in {"open", "close", "data"} /\ down[i].c \in Channels
           /\ down[i].t \in Phones
<1>1. i \in Nat /\ down[i] \in Message
  BY DEF TypeOK, At
<1> QED BY <1>1 DEF Message

\* Agree says what EndsAgree does.
LEMMA AgreeEnds ==
    ASSUME IInv
    PROVE  EndsAgree
<1>1. \A k, t : InFlight(k, t, down) <=> \E i \in At : down[i].k = k /\ down[i].t = t
  <2>1. DOMAIN down = At
    BY DEF IInv, TypeOK, At
  <2> QED BY <2>1 DEF InFlight, ToSet
<1>2. \A t \in Phones : t \in Range(phones) <=> \E c \in Channels : phones[c] = t
  <2>1. DOMAIN phones = Channels
    BY DEF IInv, TypeOK
  <2> QED BY <2>1 DEF Range
<1>3. Agree
  BY DEF IInv
<1> QED BY <1>1, <1>2, <1>3 DEF Agree, EndsAgree, Done

LEMMA IInvInit == Init => IInv
<1> SUFFICES ASSUME Init PROVE IInv
  OBVIOUS
<1>1. At = {} /\ Len(down) = 0
  BY DEF Init, At
<1>2. TypeOK
  <2>1. 0 \in 0..MaxChannel /\ 0 \in 0..Backlog /\ 0 <= Buffer
    BY LinkAssumption
  <2>2. /\ down \in Seq(Message) /\ Len(down) <= Buffer
        /\ up \in Seq(Message) /\ Len(up) <= Buffer
    BY <2>1 DEF Init
  <2>3. /\ wire \in BOOLEAN /\ tokens \in BOOLEAN /\ writes \subseteq Message
    BY DEF Init
  <2> QED BY <2>1, <2>2, <2>3 DEF Init, TypeOK
<1>3. Numbered
  BY DEF Init, Numbered
<1>4. InOrder /\ LastOpen
  BY <1>1 DEF InOrder, LastOpen
<1>5. Agree /\ (~wire => down = <<>>)
  BY DEF Init, Agree
<1> QED BY <1>2, <1>3, <1>4, <1>5 DEF IInv

-----------------------------------------------------------------------------
\* The relay's steps.

\* A message about a phone that has registered names its number.
LEMMA MsgTyped ==
    ASSUME IInv, NEW t \in Phones, rpc[t] # "idle", NEW k \in {"open", "close", "data"}
    PROVE  /\ Msg(k, t) \in Message
           /\ Msg(k, t).k = k /\ Msg(k, t).c = chan[t] /\ Msg(k, t).t = t
BY DEF IInv, Numbered, Msg, Message

\* servePhone registers a phone.
LEMMA ConnectInv ==
    ASSUME IInv, NEW t \in Phones, NEW c \in Channels, Connect(t, c)
    PROVE  IInv'
<1> USE DEF IInv
<1>1. /\ wire /\ link = "up" /\ rpc[t] = "idle" /\ phones[c] = None
      /\ \A s \in Phones : chan[s] = c => rpc[s] \in {"left", "gone"}
      /\ phones' = [phones EXCEPT ![c] = t] /\ chan' = [chan EXCEPT ![t] = c]
      /\ rpc' = [rpc EXCEPT ![t] = "registered"]
      /\ UNCHANGED <<link, wire, tokens, down, up, channels, inbox, done, spc, writes, loopClose>>
  BY DEF Connect, linkVars, bridgeVars
<1>2. TypeOK'
  BY <1>1, LinkAssumption DEF TypeOK, Channels
<1>3. /\ phones'[c] = t /\ chan'[t] = c /\ rpc'[t] = "registered"
      /\ \A d \in Channels : d # c => phones'[d] = phones[d]
      /\ \A s \in Phones : s # t => chan'[s] = chan[s] /\ rpc'[s] = rpc[s]
  BY <1>1 DEF TypeOK
<1>4. spc[t] = "none" /\ \A d \in Channels : channels[d] # t /\ phones[d] # t
  BY <1>1, LinkAssumption DEF Numbered
<1>5. \A d \in Channels : /\ phones[d] # None => phones[d] \in Phones
                          /\ channels[d] # None => channels[d] \in Phones
  BY DEF TypeOK
<1>6. Numbered'
  <2>1. \A s \in Phones : rpc'[s] # "idle" => chan'[s] \in Channels
    BY <1>3 DEF Numbered
  <2>2. \A s \in Phones : /\ spc'[s] # "none" => rpc'[s] \notin {"idle", "registered"}
                          /\ spc'[s] = "none" => done'[s] = "no"
    BY <1>1, <1>3, <1>4 DEF Numbered
  <2>3. \A d \in Channels : phones'[d] # None =>
          chan'[phones'[d]] = d /\ rpc'[phones'[d]] \in {"registered", "serving"}
    BY <1>3, <1>4, <1>5 DEF Numbered
  <2>4. \A d \in Channels : channels'[d] # None =>
          chan'[channels'[d]] = d /\ spc'[channels'[d]] # "none"
    BY <1>1, <1>3, <1>4, <1>5 DEF Numbered
  <2>5. \A r, s \in Phones :
          /\ rpc'[r] \in {"registered", "serving"} /\ rpc'[s] \in {"registered", "serving"}
          /\ chan'[r] = chan'[s]
          => r = s
    BY <1>1, <1>3 DEF Numbered
  <2>6. link' # "down"
    BY <1>1
  <2> QED BY <2>1, <2>2, <2>3, <2>4, <2>5, <2>6 DEF Numbered
<1>7. At' = At /\ \A i \in At : down[i].t # t /\ down[i].t \in Phones
  BY <1>1, DownTyped DEF At, InOrder
<1>8. InOrder'
  BY <1>1, <1>3, <1>7 DEF InOrder
<1>9. LastOpen'
  BY <1>1, <1>3, <1>7 DEF LastOpen
<1>10. Agree'
  <2>1. \A s \in Phones : s # t => ((\E d \in Channels : phones'[d] = s) => \E d \in Channels : phones[d] = s)
    BY <1>3
  <2>2. \A s \in Phones : rpc'[s] = "serving" => s # t
    BY <1>3
  <2> QED BY <1>1, <1>3, <1>4, <1>5, <1>7, <2>1, <2>2 DEF Agree
<1> QED BY <1>1, <1>2, <1>6, <1>8, <1>9, <1>10

\* The relay takes a number from a phone, or a phone's loop ends.
LEMMA DropsInv ==
    ASSUME IInv, NEW t \in Phones, RelayDrops(t) \/ LoopEnds(t)
    PROVE  IInv'
<1> USE DEF IInv
<1>1. /\ phones' = Without(phones, t)
      /\ UNCHANGED <<link, wire, tokens, down, up, chan, channels, inbox, done, spc, writes, loopClose>>
      /\ rpc' = rpc \/ (rpc' = [rpc EXCEPT ![t] = "left"] /\ rpc[t] \in {"registered", "serving"})
  BY DEF RelayDrops, LoopEnds, linkVars, bridgeVars
<1>2. TypeOK'
  BY <1>1 DEF TypeOK, Without
<1>3. /\ \A c \in Channels : phones'[c] = IF phones[c] = t THEN None ELSE phones[c]
      /\ \A s \in Phones : s # t => rpc'[s] = rpc[s]
      /\ rpc'[t] = rpc[t] \/ (rpc'[t] = "left" /\ rpc[t] \in {"registered", "serving"})
  BY <1>1 DEF TypeOK, Without
<1>4. \A c \in Channels : phones[c] # None => phones[c] \in Phones
  BY DEF TypeOK
<1>5. Numbered'
  BY <1>1, <1>3, <1>4, LinkAssumption DEF Numbered
<1>6. At' = At /\ \A i \in At : down[i].t \in Phones
  BY <1>1, DownTyped DEF At
<1>7. InOrder'
  BY <1>1, <1>3, <1>6 DEF InOrder
<1>8. LastOpen'
  BY <1>1, <1>3, <1>6 DEF LastOpen
<1>9. Agree'
  <2>1. \A s \in Phones : (\E c \in Channels : phones'[c] = s) => \E c \in Channels : phones[c] = s
    BY <1>3, LinkAssumption
  <2>2. \A s \in Phones : /\ rpc'[s] = "serving" => rpc[s] = "serving"
                          /\ rpc[s] \in {"serving", "left"} => rpc'[s] \in {"serving", "left"}
    BY <1>3
  <2>3. \A c \in Channels : channels[c] # None => channels[c] \in Phones
    BY DEF TypeOK
  <2> QED BY <1>1, <1>6, <2>1, <2>2, <2>3 DEF Agree
<1> QED BY <1>1, <1>2, <1>5, <1>7, <1>8, <1>9

\* The open goes out: it is the last of its number.
LEMMA SendOpenInv ==
    ASSUME IInv, NEW t \in Phones, SendOpen(t)
    PROVE  IInv'
<1> USE DEF IInv
<1> DEFINE n == Len(down) + 1
<1>1. /\ rpc[t] = "registered" /\ wire /\ Len(down) < Buffer /\ down' = Append(down, Msg("open", t))
      /\ rpc' = [rpc EXCEPT ![t] = "serving"]
      /\ UNCHANGED <<link, wire, tokens, up, phones, chan, channels, inbox, done, spc, writes, loopClose>>
  BY DEF SendOpen, WriteBridge, linkVars, bridgeVars
<1>2. /\ Msg("open", t) \in Message
      /\ Msg("open", t).k = "open" /\ Msg("open", t).c = chan[t] /\ Msg("open", t).t = t
  BY <1>1, MsgTyped
<1>3. /\ down' \in Seq(Message) /\ Len(down') <= Buffer
      /\ n \in At' /\ down'[n] = Msg("open", t)
      /\ \A i \in At : i \in At' /\ down'[i] = down[i] /\ i < n
      /\ \A i \in At' : (i \in At \/ i = n) /\ ~(n < i)
      /\ n \notin At
  BY <1>1, <1>2, Appended
<1>4. TypeOK'
  BY <1>1, <1>3 DEF TypeOK
<1>5. rpc'[t] = "serving" /\ \A s \in Phones : s # t => rpc'[s] = rpc[s]
  BY <1>1 DEF TypeOK
<1>6. spc[t] = "none" /\ \A c \in Channels : channels[c] # t
  BY <1>1, LinkAssumption DEF Numbered
<1>7. \A c \in Channels : /\ phones[c] # None => phones[c] \in Phones
                          /\ channels[c] # None => channels[c] \in Phones
  BY DEF TypeOK
<1>8. Numbered'
  BY <1>1, <1>5, <1>6, <1>7 DEF Numbered
<1>9. \A i \in At : down[i].t # t /\ down[i].t \in Phones /\ i \in Nat
  BY <1>1, DownTyped DEF InOrder
<1> HIDE DEF n
<1>11. InOrder'
  <2>1. ASSUME NEW i \in At'
        PROVE  /\ down'[i].c = chan'[down'[i].t] /\ rpc'[down'[i].t] \notin {"idle", "registered"}
               /\ down'[i].k = "close" => rpc'[down'[i].t] = "gone"
               /\ down'[i].k = "open" =>
                     /\ spc'[down'[i].t] = "none"
                     /\ \/ rpc'[down'[i].t] \in {"serving", "left"}
                        \/ \E j \in At' : i < j /\ down'[j].k = "close" /\ down'[j].t = down'[i].t
    <3>1. CASE i = n
      BY <1>1, <1>2, <1>3, <1>5, <1>6, <3>1
    <3>2. CASE i \in At
      <4>1. /\ down'[i] = down[i] /\ down[i].t # t /\ down[i].t \in Phones
            /\ rpc'[down[i].t] = rpc[down[i].t] /\ chan' = chan /\ spc' = spc
        BY <1>1, <1>3, <1>5, <1>9, <3>2
      <4>2. /\ down[i].c = chan[down[i].t] /\ rpc[down[i].t] \notin {"idle", "registered"}
            /\ down[i].k = "close" => rpc[down[i].t] = "gone"
            /\ down[i].k = "open" =>
                  /\ spc[down[i].t] = "none"
                  /\ \/ rpc[down[i].t] \in {"serving", "left"}
                     \/ \E j \in At : i < j /\ down[j].k = "close" /\ down[j].t = down[i].t
        BY <3>2 DEF InOrder
      <4>3. ASSUME NEW j \in At, i < j, down[j].k = "close", down[j].t = down[i].t
            PROVE  \E h \in At' : i < h /\ down'[h].k = "close" /\ down'[h].t = down'[i].t
        <5>1. j \in At' /\ down'[j] = down[j]
          BY <1>3
        <5> QED BY <4>1, <4>3, <5>1
      <4> QED BY <4>1, <4>2, <4>3
    <3> QED BY <1>3, <3>1, <3>2
  <2>2. ASSUME NEW i \in At', NEW j \in At', i < j, down'[j].k = "open", down'[i].t = down'[j].t
        PROVE  down'[i].k = "data"
    <3>1. i \in At
      BY <1>3, <2>2
    <3>2. j \in At
      BY <1>2, <1>3, <1>9, <2>2, <3>1
    <3> QED BY <1>3, <2>2, <3>1, <3>2 DEF InOrder
  <2> QED BY <2>1, <2>2 DEF InOrder
<1>12. LastOpen'
  <2> SUFFICES ASSUME NEW s \in Phones, NEW i \in At', rpc'[s] = "serving", down'[i].k = "open",
                      down'[i].c = chan'[s], down'[i].t # s
               PROVE  \E j \in At' : i < j /\ down'[j].k = "open" /\ down'[j].t = s
    BY DEF LastOpen
  <2>1. CASE s = t
    <3>1. i # n
      BY <1>2, <1>3, <2>1
    <3> QED BY <1>2, <1>3, <2>1, <3>1
  <2>2. CASE s # t
    <3>1. rpc[s] = "serving" /\ chan' = chan
      BY <1>1, <1>5, <2>2
    <3>2. chan[s] # chan[t]
      BY <1>1, <2>2, <3>1 DEF Numbered
    <3>3. i # n
      BY <1>2, <1>3, <3>1, <3>2
    <3>4. i \in At /\ down'[i] = down[i]
      BY <1>3, <3>3
    <3>5. PICK j \in At : i < j /\ down[j].k = "open" /\ down[j].t = s
      BY <3>1, <3>4 DEF LastOpen
    <3>6. j \in At' /\ down'[j] = down[j]
      BY <1>3
    <3> QED BY <3>5, <3>6
  <2> QED BY <2>1, <2>2
<1>13. Agree'
  <2>1. ASSUME NEW s \in Phones, tokens', rpc'[s] = "serving", link' = "up",
               \E c \in Channels : phones'[c] = s,
               \A i \in At' : ~(down'[i].k = "open" /\ down'[i].t = s)
        PROVE  (channels'[chan'[s]] = s /\ done'[s] = "no") \/ done'[s] = "closed"
    <3>1. s # t
      BY <1>2, <1>3, <2>1
    <3>2. rpc[s] = "serving" /\ \A i \in At : ~(down[i].k = "open" /\ down[i].t = s)
      BY <1>3, <1>5, <2>1, <3>1
    <3> QED BY <1>1, <2>1, <3>2 DEF Agree
  <2>2. ASSUME NEW c \in Channels, channels'[c] # None, link' = "up"
        PROVE  \/ rpc'[channels'[c]] \in {"serving", "left"}
               \/ \E i \in At' : down'[i].k = "close" /\ down'[i].t = channels'[c]
    <3>1. channels'[c] = channels[c] /\ rpc'[channels[c]] = rpc[channels[c]]
      BY <1>1, <1>5, <1>6, <1>7, <2>2
    <3>2. \/ rpc[channels[c]] \in {"serving", "left"}
          \/ \E i \in At : down[i].k = "close" /\ down[i].t = channels[c]
      BY <1>1, <2>2, <3>1 DEF Agree
    <3> QED BY <1>3, <3>1, <3>2
  <2> QED BY <2>1, <2>2 DEF Agree
<1> QED BY <1>1, <1>4, <1>8, <1>11, <1>12, <1>13

\* A frame of the phone, or its close, goes out; the close after the phone has left.
LEMMA SendsInv ==
    ASSUME IInv, NEW t \in Phones, PhoneSends(t) \/ SendClose(t)
    PROVE  IInv'
<1> USE DEF IInv
<1> DEFINE n == Len(down) + 1
<1>1. CASE ~wire
  <2>1. /\ rpc[t] = "left" /\ rpc' = [rpc EXCEPT ![t] = "gone"]
        /\ UNCHANGED <<link, wire, tokens, down, up, phones, chan, channels, inbox, done, spc, writes, loopClose>>
    BY <1>1 DEF PhoneSends, SendClose, WriteBridge, linkVars, bridgeVars
  <2>2. TypeOK'
    BY <2>1 DEF TypeOK
  <2>3. rpc'[t] = "gone" /\ \A s \in Phones : s # t => rpc'[s] = rpc[s]
    BY <2>1 DEF TypeOK
  <2>4. \A c \in Channels : phones[c] # None => phones[c] \in Phones
    BY DEF TypeOK
  <2>5. Numbered'
    BY <2>1, <2>3, <2>4 DEF Numbered
  <2>6. At' = {} /\ ~wire' /\ down' = <<>>
    BY <1>1, <2>1 DEF At
  <2> QED BY <2>2, <2>5, <2>6 DEF InOrder, LastOpen, Agree
<1>2. CASE wire
  <2>1. PICK k \in {"close", "data"} :
          /\ Len(down) < Buffer /\ down' = Append(down, Msg(k, t))
          /\ UNCHANGED <<link, wire, tokens, up, phones, chan, channels, inbox, done, spc, writes, loopClose>>
          /\ rpc[t] \in {"serving", "left"}
          /\ IF k = "data" THEN rpc' = rpc
                           ELSE rpc[t] = "left" /\ rpc' = [rpc EXCEPT ![t] = "gone"]
    <3>1. CASE PhoneSends(t)
      BY <3>1 DEF PhoneSends, WriteBridge, linkVars, relayVars, bridgeVars
    <3>2. CASE SendClose(t)
      BY <1>2, <3>2 DEF SendClose, WriteBridge, linkVars, bridgeVars
    <3> QED BY <3>1, <3>2
  <2>2. /\ Msg(k, t) \in Message
        /\ Msg(k, t).k = k /\ Msg(k, t).c = chan[t] /\ Msg(k, t).t = t
    BY <2>1, MsgTyped
  <2>3. /\ down' \in Seq(Message) /\ Len(down') <= Buffer
        /\ n \in At' /\ down'[n] = Msg(k, t)
        /\ \A i \in At : i \in At' /\ down'[i] = down[i] /\ i < n
        /\ \A i \in At' : (i \in At \/ i = n) /\ ~(n < i)
        /\ n \notin At
    BY <2>1, <2>2, Appended
  <2>4. TypeOK'
    BY <2>1, <2>3 DEF TypeOK
  <2>5. /\ \A s \in Phones : s # t => rpc'[s] = rpc[s]
        /\ IF k = "data" THEN rpc'[t] = rpc[t] ELSE rpc[t] = "left" /\ rpc'[t] = "gone"
    BY <2>1 DEF TypeOK
  <2>6. \A c \in Channels : /\ phones[c] # None => phones[c] \in Phones
                            /\ channels[c] # None => channels[c] \in Phones
    BY DEF TypeOK
  <2>7. Numbered'
    BY <2>1, <2>5, <2>6 DEF Numbered
  <2>8. \A i \in At : down[i].t \in Phones /\ i \in Nat
    BY DownTyped
  <2> HIDE DEF n
  <2>10. \A i \in At' : down'[i].k = "open" => i \in At
    BY <2>2, <2>3
  <2>11. InOrder'
    <3>1. ASSUME NEW i \in At'
          PROVE  /\ down'[i].c = chan'[down'[i].t] /\ rpc'[down'[i].t] \notin {"idle", "registered"}
                 /\ down'[i].k = "close" => rpc'[down'[i].t] = "gone"
      <4>1. CASE i = n
        BY <2>1, <2>2, <2>3, <2>5, <4>1
      <4>2. CASE i \in At
        <5>1. down'[i] = down[i] /\ down[i].t \in Phones /\ chan' = chan
          BY <2>1, <2>3, <2>8, <4>2
        <5>2. /\ down[i].c = chan[down[i].t] /\ rpc[down[i].t] \notin {"idle", "registered"}
              /\ down[i].k = "close" => rpc[down[i].t] = "gone"
          BY <4>2 DEF InOrder
        <5>3. CASE down[i].t = t
          BY <2>5, <5>1, <5>2, <5>3
        <5>4. CASE down[i].t # t
          BY <2>5, <5>1, <5>2, <5>4
        <5> QED BY <5>3, <5>4
      <4> QED BY <2>3, <4>1, <4>2
    <3>2. ASSUME NEW i \in At', down'[i].k = "open"
          PROVE  /\ spc'[down'[i].t] = "none"
                 /\ \/ rpc'[down'[i].t] \in {"serving", "left"}
                    \/ \E j \in At' : i < j /\ down'[j].k = "close" /\ down'[j].t = down'[i].t
      <4>1. i \in At /\ down'[i] = down[i] /\ down[i].k = "open" /\ down[i].t \in Phones
        BY <2>3, <2>8, <2>10, <3>2
      <4>2. spc'[down'[i].t] = "none"
        BY <2>1, <4>1 DEF InOrder
      <4>3. CASE down[i].t = t
        <5>1. CASE k = "data"
          BY <2>1, <2>5, <4>1, <4>2, <4>3, <5>1
        <5>2. CASE k = "close"
          <6>1. down'[n].k = "close" /\ down'[n].t = down'[i].t
            BY <2>2, <2>3, <4>1, <4>3, <5>2
          <6> QED BY <2>3, <4>1, <4>2, <6>1
        <5> QED BY <5>1, <5>2
      <4>4. CASE down[i].t # t
        <5>1. \/ rpc[down[i].t] \in {"serving", "left"}
              \/ \E j \in At : i < j /\ down[j].k = "close" /\ down[j].t = down[i].t
          BY <4>1 DEF InOrder
        <5>2. rpc'[down[i].t] = rpc[down[i].t]
          BY <2>5, <4>1, <4>4
        <5>3. ASSUME NEW j \in At, i < j, down[j].k = "close", down[j].t = down[i].t
              PROVE  \E h \in At' : i < h /\ down'[h].k = "close" /\ down'[h].t = down'[i].t
          <6>1. j \in At' /\ down'[j] = down[j]
            BY <2>3
          <6> QED BY <4>1, <5>3, <6>1
        <5> QED BY <4>1, <4>2, <5>1, <5>2, <5>3
      <4> QED BY <4>2, <4>3, <4>4, <4>1
    <3>3. ASSUME NEW i \in At', NEW j \in At', i < j, down'[j].k = "open", down'[i].t = down'[j].t
          PROVE  down'[i].k = "data"
      <4>1. j \in At /\ i # n
        BY <2>3, <2>10, <3>3
      <4> QED BY <2>3, <3>3, <4>1 DEF InOrder
    <3> QED BY <3>1, <3>2, <3>3 DEF InOrder
  <2>12. LastOpen'
    <3> SUFFICES ASSUME NEW s \in Phones, NEW i \in At', rpc'[s] = "serving", down'[i].k = "open",
                        down'[i].c = chan'[s], down'[i].t # s
                 PROVE  \E j \in At' : i < j /\ down'[j].k = "open" /\ down'[j].t = s
      BY DEF LastOpen
    <3>1. i \in At /\ rpc[s] = "serving" /\ chan'[s] = chan[s] /\ down'[i] = down[i]
      BY <2>1, <2>3, <2>5, <2>10
    <3> QED BY <2>3, <3>1 DEF LastOpen
  <2>13. Agree'
    <3>1. ASSUME NEW s \in Phones, tokens', rpc'[s] = "serving", link' = "up",
                 \E c \in Channels : phones'[c] = s,
                 \A i \in At' : ~(down'[i].k = "open" /\ down'[i].t = s)
          PROVE  (channels'[chan'[s]] = s /\ done'[s] = "no") \/ done'[s] = "closed"
      <4>1. rpc[s] = "serving" /\ \A i \in At : ~(down[i].k = "open" /\ down[i].t = s)
        BY <2>3, <2>5, <3>1
      <4> QED BY <1>2, <2>1, <3>1, <4>1 DEF Agree
    <3>2. ASSUME NEW c \in Channels, channels'[c] # None, link' = "up"
          PROVE  \/ rpc'[channels'[c]] \in {"serving", "left"}
                 \/ \E i \in At' : down'[i].k = "close" /\ down'[i].t = channels'[c]
      <4>1. channels'[c] = channels[c] /\ channels[c] \in Phones
        BY <2>1, <2>6, <3>2
      <4>2. \/ rpc[channels[c]] \in {"serving", "left"}
            \/ \E i \in At : down[i].k = "close" /\ down[i].t = channels[c]
        BY <1>2, <2>1, <3>2, <4>1 DEF Agree
      <4> QED BY <2>2, <2>3, <2>5, <4>1, <4>2
    <3> QED BY <3>1, <3>2 DEF Agree
  <2> QED BY <1>2, <2>1, <2>4, <2>7, <2>11, <2>12, <2>13
<1> QED BY <1>1, <1>2 DEF TypeOK

-----------------------------------------------------------------------------
\* Steps that take numbers away and give none.

\* No phone gets a number at either end, a channel loses its number only by its Close, and
\* the goroutine of a channel is neither started nor forgotten.
Withdraws ==
    /\ \A c \in Channels : phones'[c] = phones[c] \/ phones'[c] = None
    /\ \A c \in Channels : \/ channels'[c] = channels[c]
                           \/ channels'[c] = None /\ done'[channels[c]] # "no"
    /\ \A t \in Phones : spc'[t] = "none" <=> spc[t] = "none"
    /\ \A t \in Phones : \/ done'[t] = done[t]
                         \/ done'[t] = "closed" /\ spc[t] # "none"

LEMMA WithdrawsNumbered ==
    ASSUME IInv, Withdraws, rpc' = rpc, chan' = chan, link' = link, wire' => wire
    PROVE  Numbered'
<1>1. Numbered
  BY DEF IInv
<1>2. \A c \in Channels : /\ phones[c] # None => phones[c] \in Phones
                          /\ channels[c] # None => channels[c] \in Phones
  BY DEF IInv, TypeOK
<1>3. \A t \in Phones : /\ rpc'[t] # "idle" => chan'[t] \in Channels
                        /\ spc'[t] # "none" => rpc'[t] \notin {"idle", "registered"}
                        /\ spc'[t] = "none" => done'[t] = "no"
  BY <1>1 DEF Numbered, Withdraws
<1>4. \A c \in Channels : phones'[c] # None =>
          chan'[phones'[c]] = c /\ rpc'[phones'[c]] \in {"registered", "serving"}
  BY <1>1 DEF Numbered, Withdraws
<1>5. \A c \in Channels : channels'[c] # None =>
          chan'[channels'[c]] = c /\ spc'[channels'[c]] # "none"
  BY <1>1, <1>2 DEF Numbered, Withdraws
<1>6. \A s, t \in Phones :
          /\ rpc'[s] \in {"registered", "serving"} /\ rpc'[t] \in {"registered", "serving"}
          /\ chan'[s] = chan'[t]
          => s = t
  BY <1>1 DEF Numbered
<1>7. link' = "down" => ~wire' /\ \A c \in Channels : channels'[c] = None
  BY <1>1 DEF Numbered, Withdraws
<1> QED BY <1>3, <1>4, <1>5, <1>6, <1>7 DEF Numbered

\* The opens and closes under way may be looked at through a step that reads a data frame.
LEMMA WithdrawsAgree ==
    ASSUME IInv, Withdraws, rpc' = rpc, chan' = chan, link' = link, wire' => wire,
           tokens' = tokens,
           \A k \in {"open", "close"}, t \in Phones :
              (\E i \in At : down[i].k = k /\ down[i].t = t) =>
              \E i \in At' : down'[i].k = k /\ down'[i].t = t
    PROVE  Agree'
<1>1. Agree /\ Numbered
  BY DEF IInv
<1>2. \A c \in Channels : /\ phones[c] # None => phones[c] \in Phones
                          /\ channels[c] # None => channels[c] \in Phones
  BY DEF IInv, TypeOK
<1>3. ASSUME NEW t \in Phones, tokens', rpc'[t] = "serving", wire', link' = "up",
             \E c \in Channels : phones'[c] = t,
             \A i \in At' : ~(down'[i].k = "open" /\ down'[i].t = t)
      PROVE  (channels'[chan'[t]] = t /\ done'[t] = "no") \/ done'[t] = "closed"
  <2>1. \E c \in Channels : phones[c] = t
    BY <1>3, LinkAssumption DEF Withdraws
  <2>2. \A i \in At : ~(down[i].k = "open" /\ down[i].t = t)
    BY <1>3
  <2>3. \/ channels[chan[t]] = t /\ done[t] = "no"
        \/ done[t] = "closed"
    BY <1>1, <1>3, <2>1, <2>2 DEF Agree
  <2>4. done'[t] = done[t] \/ done'[t] = "closed"
    BY DEF Withdraws
  <2>5. chan[t] \in Channels /\ chan'[t] = chan[t]
    BY <1>1, <1>3 DEF Numbered
  <2>6. channels'[chan[t]] = channels[chan[t]] \/ done'[channels[chan[t]]] # "no"
    BY <2>5 DEF Withdraws
  <2> QED BY <2>3, <2>4, <2>5, <2>6
<1>4. ASSUME NEW c \in Channels, channels'[c] # None, wire', link' = "up"
      PROVE  \/ rpc'[channels'[c]] \in {"serving", "left"}
             \/ \E i \in At' : down'[i].k = "close" /\ down'[i].t = channels'[c]
  <2>1. channels'[c] = channels[c] /\ channels[c] \in Phones
    BY <1>2, <1>4 DEF Withdraws
  <2>2. \/ rpc[channels[c]] \in {"serving", "left"}
        \/ \E i \in At : down[i].k = "close" /\ down[i].t = channels[c]
    BY <1>1, <1>4, <2>1 DEF Agree
  <2> QED BY <2>1, <2>2
<1> QED BY <1>3, <1>4 DEF Agree

\* Such a step leaves the stream alone, or ends the socket and the stream with it.
LEMMA WithdrawsInv ==
    ASSUME IInv, TypeOK', Withdraws, rpc' = rpc, chan' = chan, link' = link, tokens' = tokens,
           (wire' = wire /\ down' = down) \/ (wire' = FALSE /\ down' = <<>>)
    PROVE  IInv'
<1>1. Numbered'
  BY WithdrawsNumbered
<1>2. CASE wire' = wire /\ down' = down
  <2>1. At' = At /\ down' = down
    BY <1>2 DEF At
  <2>2. \A i \in At : down[i].t \in Phones
    BY DownTyped DEF IInv
  <2>3. InOrder /\ LastOpen /\ (~wire => down = <<>>)
    BY DEF IInv
  <2>4. InOrder'
    BY <2>1, <2>2, <2>3 DEF InOrder, Withdraws
  <2>5. LastOpen'
    BY <2>1, <2>3 DEF LastOpen
  <2>6. Agree'
    BY <1>2, <2>1, WithdrawsAgree
  <2> QED BY <1>1, <1>2, <2>3, <2>4, <2>5, <2>6 DEF IInv
<1>3. CASE wire' = FALSE /\ down' = <<>>
  <2>1. At' = {}
    BY <1>3 DEF At
  <2> QED BY <1>1, <1>3, <2>1 DEF IInv, InOrder, LastOpen, Agree
<1> QED BY <1>2, <1>3

\* relayChannel.Close takes the number away and writes a close for a phone the relay knows.
LEMMA CloseWithdraws ==
    ASSUME IInv, NEW t \in Phones, CloseChannel(t), spc[t] # "none"
    PROVE  /\ done' \in [Phones -> {"no", "closed", "finished"}]
           /\ channels' \in [Channels -> Phones \cup {None}]
           /\ writes' \subseteq Message
           /\ \A c \in Channels : \/ channels'[c] = channels[c]
                                  \/ channels'[c] = None /\ done'[channels[c]] # "no"
           /\ \A s \in Phones : \/ done'[s] = done[s]
                                \/ done'[s] = "closed" /\ spc[s] # "none"
<1>1. TypeOK /\ Numbered
  BY DEF IInv
<1>2. rpc[t] # "idle"
  BY <1>1 DEF Numbered
<1>3. Msg("close", t) \in Message
  BY <1>2, MsgTyped
<1>4. done' = [done EXCEPT ![t] = IF @ = "no" THEN "closed" ELSE @]
  BY DEF CloseChannel
<1>5. /\ done' \in [Phones -> {"no", "closed", "finished"}]
      /\ done'[t] # "no" /\ (done'[t] = done[t] \/ done'[t] = "closed")
      /\ \A s \in Phones : s # t => done'[s] = done[s]
  BY <1>1, <1>4 DEF TypeOK
<1>6. /\ channels' \in [Channels -> Phones \cup {None}]
      /\ \A c \in Channels : channels'[c] = IF channels[c] = t THEN None ELSE channels[c]
  BY <1>1 DEF CloseChannel, Without, TypeOK
<1>7. writes' \subseteq Message
  BY <1>1, <1>3 DEF CloseChannel, TypeOK
<1> QED BY <1>5, <1>6, <1>7

\* The bridge->phones loop may take a number from a phone and gives none.
LEMMA RelayReadsInv ==
    ASSUME IInv, RelayReads
    PROVE  IInv'
<1>1. /\ up # <<>> /\ up' = Tail(up)
      /\ phones' = phones \/ \E c \in Channels : phones' = [phones EXCEPT ![c] = None]
      /\ UNCHANGED <<link, wire, tokens, down, rpc, chan, channels, inbox, done, spc, writes, loopClose>>
  <2>1. up # <<>> /\ up \in Seq(Message)
    BY DEF RelayReads, IInv, TypeOK
  <2>2. Head(up) \in Message
    BY <2>1
  <2>3. Head(up).c \in Channels
    BY <2>2 DEF Message
  <2> QED BY <2>1, <2>3 DEF RelayReads, linkVars, bridgeVars
<1>2. TypeOK
  BY DEF IInv
<1>3. /\ phones' \in [Channels -> Phones \cup {None}]
      /\ \A c \in Channels : phones'[c] = phones[c] \/ phones'[c] = None
  BY <1>1, <1>2 DEF TypeOK
<1>4. up' \in Seq(Message) /\ Len(up') <= Buffer
  <2>1. up \in Seq(Message) /\ Len(up) <= Buffer /\ Len(up) \in Nat /\ Buffer \in Nat
    BY <1>2, LinkAssumption DEF TypeOK
  <2> QED BY <1>1, <2>1
<1>5. TypeOK'
  BY <1>1, <1>2, <1>3, <1>4 DEF TypeOK
<1>6. Withdraws
  BY <1>1, <1>3 DEF Withdraws
<1> QED BY <1>1, <1>5, <1>6, WithdrawsInv

\* The end of a write, whether the frame was taken or the socket was lost with it.
LEMMA WriterInv ==
    ASSUME IInv, NEW m \in writes, Writer(m)
    PROVE  IInv'
<1>1. PICK ok \in BOOLEAN : AfterWrite(m, ok)
  BY DEF Writer, WriteFrame, GiveUpGate, CutWrite
<1>2. TypeOK /\ m \in Message /\ m.t \in Phones
  BY DEF IInv, TypeOK, Message
<1>3. /\ UNCHANGED <<link, tokens, phones, rpc, chan, channels, inbox, done>>
      /\ writes' = writes \ {m} /\ loopClose' \in {None, loopClose}
      /\ \/ spc' = spc
         \/ spc[m.t] = "serving" /\ \E next \in {"ending", "returned"} :
                spc' = [spc EXCEPT ![m.t] = next]
  BY <1>1 DEF AfterWrite, relayVars
<1>4. /\ spc' \in [Phones -> {"none", "serving", "ending", "returned"}]
      /\ \A t \in Phones : spc'[t] = "none" <=> spc[t] = "none"
  <2>1. spc \in [Phones -> {"none", "serving", "ending", "returned"}]
    BY <1>2 DEF TypeOK
  <2>2. ASSUME NEW next \in {"ending", "returned"}, spc[m.t] = "serving",
               spc' = [spc EXCEPT ![m.t] = next]
        PROVE  /\ spc' \in [Phones -> {"none", "serving", "ending", "returned"}]
               /\ \A t \in Phones : spc'[t] = "none" <=> spc[t] = "none"
    BY <1>2, <2>1, <2>2
  <2> QED BY <1>3, <2>1, <2>2
<1>5. /\ (wire' = wire /\ down' = down) \/ (wire' = FALSE /\ down' = <<>>)
      /\ up' \in Seq(Message) /\ Len(up') <= Buffer
  <2>1. up \in Seq(Message) /\ Len(up) <= Buffer /\ Len(up) \in Nat /\ Buffer \in Nat
    BY <1>2, LinkAssumption DEF TypeOK
  <2>2. CASE WriteFrame(m)
    <3>1. wire' = wire /\ down' = down /\ Len(up) < Buffer /\ up' = Append(up, m)
      BY <2>2 DEF WriteFrame
    <3> QED BY <1>2, <2>1, <3>1
  <2>3. CASE GiveUpGate(m)
    BY <2>1, <2>3 DEF GiveUpGate
  <2>4. CASE CutWrite(m)
    <3>1. wire' = FALSE /\ down' = <<>> /\ up' = <<>>
      BY <2>4 DEF CutWrite, DropWire
    <3> QED BY <2>1, <3>1
  <2> QED BY <2>2, <2>3, <2>4 DEF Writer
<1>6. /\ wire' \in BOOLEAN /\ down' \in Seq(Message) /\ Len(down') <= Buffer
  <2>1. Len(<<>>) = 0 /\ 0 <= Buffer /\ <<>> \in Seq(Message)
    BY LinkAssumption
  <2> QED BY <1>2, <1>5, <2>1 DEF TypeOK
<1>7. writes' \subseteq Message /\ loopClose' \in Phones \cup {None}
  BY <1>2, <1>3 DEF TypeOK
<1>8. TypeOK'
  BY <1>2, <1>3, <1>4, <1>5, <1>6, <1>7 DEF TypeOK
<1>9. Withdraws
  BY <1>3, <1>4 DEF Withdraws
<1> QED BY <1>3, <1>5, <1>8, <1>9, WithdrawsInv

\* The goroutine that serves a channel, and whoever closes it from outside.
LEMMA ServeLinkInv ==
    ASSUME IInv, NEW t \in Phones, ServeLink(t)
    PROVE  IInv'
<1>1. UNCHANGED <<link, wire, tokens, down, up, phones, rpc, chan, loopClose>>
  BY DEF ServeLink, ReadFrame, ReadFails, StartWrite, RunCloses, RunReturns, OthersClose,
         linkVars, relayVars
<1>2. TypeOK /\ spc[t] \in {"serving", "ending"}
  BY DEF IInv, ServeLink, ReadFrame, ReadFails, StartWrite, RunCloses, RunReturns, OthersClose
<1>3. CASE RunCloses(t) \/ OthersClose(t)
  <2>1. CloseChannel(t) /\ inbox' = inbox /\ spc' = spc
    BY <1>3 DEF RunCloses, OthersClose
  <2>2. /\ done' \in [Phones -> {"no", "closed", "finished"}]
        /\ channels' \in [Channels -> Phones \cup {None}]
        /\ writes' \subseteq Message
        /\ \A c \in Channels : \/ channels'[c] = channels[c]
                               \/ channels'[c] = None /\ done'[channels[c]] # "no"
        /\ \A s \in Phones : \/ done'[s] = done[s]
                             \/ done'[s] = "closed" /\ spc[s] # "none"
    BY <1>2, <2>1, CloseWithdraws
  <2>3. TypeOK'
    BY <1>1, <1>2, <2>1, <2>2 DEF TypeOK
  <2>4. Withdraws
    BY <1>1, <2>1, <2>2 DEF Withdraws
  <2> QED BY <1>1, <2>3, <2>4, WithdrawsInv
<1>4. CASE ReadFrame(t) \/ ReadFails(t) \/ StartWrite(t) \/ RunReturns(t)
  <2>1. channels' = channels /\ done' = done
    BY <1>4 DEF ReadFrame, ReadFails, StartWrite, RunReturns
  <2>2. spc' = spc \/ \E next \in {"serving", "ending", "returned"} : spc' = [spc EXCEPT ![t] = next]
    BY <1>4 DEF ReadFrame, ReadFails, StartWrite, RunReturns
  <2>3. /\ spc' \in [Phones -> {"none", "serving", "ending", "returned"}]
        /\ \A s \in Phones : spc'[s] = "none" <=> spc[s] = "none"
    BY <1>2, <2>2 DEF TypeOK
  <2>4. inbox' \in [Phones -> 0..Backlog]
    <3>1. CASE ReadFrame(t)
      <4>1. inbox[t] > 0 /\ inbox' = [inbox EXCEPT ![t] = @ - 1]
        BY <3>1 DEF ReadFrame
      <4>2. inbox[t] - 1 \in 0..Backlog
        BY <1>2, <4>1, LinkAssumption DEF TypeOK
      <4> QED BY <1>2, <4>1, <4>2 DEF TypeOK
    <3>2. CASE RunReturns(t)
      <4>1. inbox' = [inbox EXCEPT ![t] = 0] /\ 0 \in 0..Backlog
        BY <3>2, LinkAssumption DEF RunReturns
      <4> QED BY <1>2, <4>1 DEF TypeOK
    <3>3. CASE ReadFails(t) \/ StartWrite(t)
      BY <1>2, <3>3 DEF ReadFails, StartWrite, TypeOK
    <3> QED BY <1>4, <3>1, <3>2, <3>3
  <2>5. writes' \subseteq Message
    <3>1. rpc[t] # "idle"
      BY <1>2 DEF IInv, Numbered
    <3>2. Msg("data", t) \in Message
      BY <3>1, MsgTyped
    <3>3. writes' = writes \/ writes' = writes \cup {Msg("data", t)}
      BY <1>4 DEF ReadFrame, ReadFails, StartWrite, RunReturns
    <3> QED BY <1>2, <3>2, <3>3 DEF TypeOK
  <2>6. TypeOK'
    BY <1>1, <1>2, <2>1, <2>3, <2>4, <2>5 DEF TypeOK
  <2>7. Withdraws
    BY <1>1, <2>1, <2>3 DEF Withdraws
  <2> QED BY <1>1, <2>6, <2>7, WithdrawsInv
<1> QED BY <1>3, <1>4 DEF ServeLink

-----------------------------------------------------------------------------
\* The attachment begins and ends.

LEMMA AttachInv ==
    ASSUME IInv, Attach
    PROVE  IInv'
<1>1. /\ link = "down" /\ link' = "up" /\ wire' = TRUE /\ tokens' \in BOOLEAN /\ down' = <<>> /\ up' = <<>>
      /\ phones' = [c \in Channels |-> None]
      /\ rpc' = [t \in Phones |-> IF rpc[t] = "idle" THEN "idle" ELSE "gone"]
      /\ UNCHANGED <<chan, channels, inbox, done, spc, writes, loopClose>>
  BY DEF Attach, bridgeVars
<1>2. TypeOK /\ Numbered
  BY DEF IInv
<1>3. At' = {} /\ Len(down') = 0 /\ Len(up') = 0 /\ 0 <= Buffer
  BY <1>1, LinkAssumption DEF At
<1>4. down' \in Seq(Message) /\ up' \in Seq(Message) /\ wire' \in BOOLEAN
  BY <1>1
<1>5. rpc' \in [Phones -> {"idle", "registered", "serving", "left", "gone"}]
  BY <1>1
<1>6. phones' \in [Channels -> Phones \cup {None}]
  BY <1>1
<1>7. TypeOK'
  BY <1>1, <1>2, <1>3, <1>4, <1>5, <1>6 DEF TypeOK
<1>8. /\ \A c \in Channels : phones'[c] = None /\ channels'[c] = None
      /\ \A t \in Phones : rpc'[t] = IF rpc[t] = "idle" THEN "idle" ELSE "gone"
  BY <1>1, <1>2 DEF Numbered
<1>9. Numbered'
  BY <1>1, <1>2, <1>8 DEF Numbered
<1>10. InOrder' /\ LastOpen'
  BY <1>3 DEF InOrder, LastOpen
<1>11. Agree'
  BY <1>8 DEF Agree
<1> QED BY <1>1, <1>7, <1>9, <1>10, <1>11 DEF IInv

LEMMA LinkLostInv ==
    ASSUME IInv, LinkLost
    PROVE  IInv'
<1>1. /\ wire' = FALSE /\ down' = <<>> /\ up' = <<>>
      /\ UNCHANGED <<link, tokens, phones, rpc, chan, channels, inbox, done, spc, writes, loopClose>>
  BY DEF LinkLost, DropWire, relayVars, bridgeVars
<1>2. Len(<<>>) = 0 /\ 0 <= Buffer /\ <<>> \in Seq(Message)
  BY LinkAssumption
<1>3. TypeOK'
  <2>1. TypeOK
    BY DEF IInv
  <2>2. wire' \in BOOLEAN
    BY <1>1
  <2> QED BY <1>1, <1>2, <2>1, <2>2 DEF TypeOK
<1>4. Withdraws
  BY <1>1 DEF Withdraws
<1> QED BY <1>1, <1>3, <1>4, WithdrawsInv

\* closeAll: the channels are finished and their numbers free.
LEMMA LoopFailsInv ==
    ASSUME IInv, LoopFails
    PROVE  IInv'
<1>1. /\ ~wire /\ link' = "down" /\ Finish(Range(channels))
      /\ channels' = [c \in Channels |-> None]
      /\ UNCHANGED <<wire, tokens, down, up, phones, rpc, chan, inbox, spc, writes, loopClose>>
  BY DEF LoopFails, relayVars
<1>2. TypeOK /\ Numbered /\ down = <<>>
  BY <1>1 DEF IInv
<1>3. /\ done' \in [Phones -> {"no", "closed", "finished"}]
      /\ \A t \in Phones : done'[t] = done[t] \/ t \in Range(channels)
  BY <1>1, <1>2 DEF Finish, TypeOK
<1>4. channels' \in [Channels -> Phones \cup {None}] /\ \A c \in Channels : channels'[c] = None
  BY <1>1
<1>5. TypeOK'
  BY <1>1, <1>2, <1>3, <1>4 DEF TypeOK
<1>6. \A t \in Phones : t \in Range(channels) => spc[t] # "none"
  <2>1. DOMAIN channels = Channels
    BY <1>2 DEF TypeOK
  <2>2. \A t \in Phones : t \in Range(channels) => \E c \in Channels : channels[c] = t
    BY <2>1 DEF Range
  <2> QED BY <1>2, <2>2, LinkAssumption DEF Numbered
<1>7. Numbered'
  BY <1>1, <1>2, <1>3, <1>4, <1>6 DEF Numbered
<1>8. At' = {} /\ ~wire' /\ down' = <<>>
  BY <1>1, <1>2 DEF At
<1> QED BY <1>5, <1>7, <1>8 DEF IInv, InOrder, LastOpen, Agree

-----------------------------------------------------------------------------
\* The read loop of the bridge.

\* What is left of the stream is in order when its first frame has been taken, whoever the
\* open it may have been starts to serve.
LEMMA Shifted ==
    ASSUME IInv, down # <<>>, down' = Tail(down), rpc' = rpc, chan' = chan,
           \A t \in Phones : spc'[t] = spc[t] \/ (down[1].k = "open" /\ down[1].t = t)
    PROVE  InOrder' /\ LastOpen'
<1>1. TypeOK /\ InOrder /\ LastOpen
  BY DEF IInv
<1>2. /\ 1 \in At
      /\ \A i \in At' : i + 1 \in At /\ down'[i] = down[i + 1] /\ 1 < i + 1
      /\ \A i \in At : i # 1 => i - 1 \in At' /\ down'[i - 1] = down[i]
  BY <1>1, Taken
<1>3. ASSUME NEW i \in At'
      PROVE  /\ i + 1 \in At /\ down'[i] = down[i + 1] /\ 1 < i + 1
             /\ down'[i].t \in Phones /\ i \in Nat
  <2>1. i + 1 \in At /\ down'[i] = down[i + 1] /\ 1 < i + 1
    BY <1>2
  <2>2. down[i + 1].t \in Phones
    BY <1>1, <2>1, DownTyped
  <2>3. i \in Nat
    BY DEF At
  <2> QED BY <2>1, <2>2, <2>3
<1>4. ASSUME NEW i \in At', NEW j \in At, i + 1 < j
      PROVE  j - 1 \in At' /\ down'[j - 1] = down[j] /\ i < j - 1
  <2>1. j \in Nat /\ i \in Nat
    BY <1>1, <1>3, DownTyped
  <2>2. j # 1 /\ i < j - 1
    BY <1>4, <2>1
  <2> QED BY <1>2, <2>2
<1>5. InOrder'
  <2>1. ASSUME NEW i \in At'
        PROVE  /\ down'[i].c = chan'[down'[i].t] /\ rpc'[down'[i].t] \notin {"idle", "registered"}
               /\ down'[i].k = "close" => rpc'[down'[i].t] = "gone"
    <3>1. i + 1 \in At /\ down'[i] = down[i + 1]
      BY <1>3
    <3>2. /\ down[i + 1].c = chan[down[i + 1].t] /\ rpc[down[i + 1].t] \notin {"idle", "registered"}
          /\ down[i + 1].k = "close" => rpc[down[i + 1].t] = "gone"
      BY <1>1, <3>1 DEF InOrder
    <3> QED BY <3>1, <3>2
  <2>2. ASSUME NEW i \in At', down'[i].k = "open"
        PROVE  /\ spc'[down'[i].t] = "none"
               /\ \/ rpc'[down'[i].t] \in {"serving", "left"}
                  \/ \E j \in At' : i < j /\ down'[j].k = "close" /\ down'[j].t = down'[i].t
    <3>1. i + 1 \in At /\ down'[i] = down[i + 1] /\ 1 < i + 1 /\ down'[i].t \in Phones
      BY <1>3
    <3>2. /\ spc[down[i + 1].t] = "none"
          /\ \/ rpc[down[i + 1].t] \in {"serving", "left"}
             \/ \E j \in At : i + 1 < j /\ down[j].k = "close" /\ down[j].t = down[i + 1].t
      BY <1>1, <2>2, <3>1 DEF InOrder
    <3>3. ~(down[1].k = "open" /\ down[1].t = down[i + 1].t)
      <4>1. \A g, h \in At : g < h /\ down[h].k = "open" /\ down[g].t = down[h].t => down[g].k = "data"
        BY <1>1 DEF InOrder
      <4>2. down[i + 1].k = "open"
        BY <2>2, <3>1
      <4>3. down[1].t = down[i + 1].t => down[1].k = "data"
        BY <1>2, <3>1, <4>1, <4>2
      <4> QED BY <4>3
    <3>4. spc'[down'[i].t] = "none"
      BY <3>1, <3>2, <3>3
    <3>5. ASSUME NEW j \in At, i + 1 < j, down[j].k = "close", down[j].t = down[i + 1].t
          PROVE  \E h \in At' : i < h /\ down'[h].k = "close" /\ down'[h].t = down'[i].t
      <4>1. j - 1 \in At' /\ down'[j - 1] = down[j] /\ i < j - 1
        BY <1>4, <3>5
      <4> QED BY <3>1, <3>5, <4>1
    <3> QED BY <3>1, <3>2, <3>4, <3>5
  <2>3. ASSUME NEW i \in At', NEW j \in At', i < j, down'[j].k = "open", down'[i].t = down'[j].t
        PROVE  down'[i].k = "data"
    <3>1. /\ i + 1 \in At /\ down'[i] = down[i + 1] /\ i \in Nat
          /\ j + 1 \in At /\ down'[j] = down[j + 1] /\ j \in Nat
      BY <1>3
    <3>2. i + 1 < j + 1
      BY <2>3, <3>1
    <3>3. \A g, h \in At : g < h /\ down[h].k = "open" /\ down[g].t = down[h].t => down[g].k = "data"
      BY <1>1 DEF InOrder
    <3>4. down[j + 1].k = "open" /\ down[i + 1].t = down[j + 1].t
      BY <2>3, <3>1
    <3>5. down[i + 1].k = "data"
      BY <3>1, <3>2, <3>3, <3>4
    <3> QED BY <3>1, <3>5
  <2>4. \A i \in At' :
          /\ down'[i].c = chan'[down'[i].t] /\ rpc'[down'[i].t] \notin {"idle", "registered"}
          /\ down'[i].k = "close" => rpc'[down'[i].t] = "gone"
          /\ down'[i].k = "open" =>
                /\ spc'[down'[i].t] = "none"
                /\ \/ rpc'[down'[i].t] \in {"serving", "left"}
                   \/ \E j \in At' : i < j /\ down'[j].k = "close" /\ down'[j].t = down'[i].t
    BY <2>1, <2>2, Zenon
  <2>5. \A i, j \in At' : i < j /\ down'[j].k = "open" /\ down'[i].t = down'[j].t =>
          down'[i].k = "data"
    BY <2>3, Zenon
  <2> QED BY <2>4, <2>5, Zenon DEF InOrder
<1>6. LastOpen'
  <2> SUFFICES ASSUME NEW t \in Phones, NEW i \in At', rpc'[t] = "serving", down'[i].k = "open",
                      down'[i].c = chan'[t], down'[i].t # t
               PROVE  \E j \in At' : i < j /\ down'[j].k = "open" /\ down'[j].t = t
    BY DEF LastOpen
  <2>1. i + 1 \in At /\ down'[i] = down[i + 1]
    BY <1>3
  <2>2. PICK j \in At : i + 1 < j /\ down[j].k = "open" /\ down[j].t = t
    <3>1. down[i + 1].k = "open" /\ down[i + 1].c = chan[t] /\ down[i + 1].t # t /\ rpc[t] = "serving"
      BY <2>1
    <3>2. \A h \in At :
            rpc[t] = "serving" /\ down[h].k = "open" /\ down[h].c = chan[t] /\ down[h].t # t =>
            \E j \in At : h < j /\ down[j].k = "open" /\ down[j].t = t
      BY <1>1 DEF LastOpen
    <3> QED BY <2>1, <3>1, <3>2
  <2>3. j - 1 \in At' /\ down'[j - 1] = down[j] /\ i < j - 1
    BY <1>4, <2>2
  <2> QED BY <2>2, <2>3
<1> QED BY <1>5, <1>6

\* The frames other than the first are still under way.
LEMMA StillUnderWay ==
    ASSUME TypeOK, down # <<>>, down' = Tail(down), NEW k, NEW t,
           ~(down[1].k = k /\ down[1].t = t)
    PROVE  (\E i \in At : down[i].k = k /\ down[i].t = t) =>
           \E i \in At' : down'[i].k = k /\ down'[i].t = t
<1> SUFFICES ASSUME NEW i \in At, down[i].k = k /\ down[i].t = t
             PROVE  \E h \in At' : down'[h].k = k /\ down'[h].t = t
  OBVIOUS
<1>1. i - 1 \in At' /\ down'[i - 1] = down[i]
  BY Taken
<1> QED BY <1>1

\* relayMux.deliver.
LEMMA DataInv ==
    ASSUME IInv, LoopReads, down[1].k = "data"
    PROVE  IInv'
<1>1. /\ wire /\ down # <<>> /\ down' = Tail(down)
      /\ UNCHANGED <<link, wire, tokens, up, phones, rpc, chan>>
  BY DEF LoopReads, linkVars, relayVars
<1>2. TypeOK /\ Numbered
  BY DEF IInv
<1>3. /\ down' \in Seq(Message) /\ Len(down') <= Buffer
      /\ 1 \in At /\ Head(down) = down[1] /\ down[1] \in Message
  BY <1>1, <1>2, Taken
<1>4. Deliver(down[1]) /\ spc' = spc
  BY <1>3 DEF LoopReads
<1> DEFINE u == channels[down[1].c]
<1>5. down[1].c \in Channels /\ (u # None => u \in Phones /\ spc[u] # "none")
  <2>1. down[1].c \in Channels
    BY <1>3 DEF Message
  <2> QED BY <1>2, <2>1 DEF TypeOK, Numbered
<1>6. /\ done' \in [Phones -> {"no", "closed", "finished"}]
      /\ channels' \in [Channels -> Phones \cup {None}]
      /\ inbox' \in [Phones -> 0..Backlog]
      /\ writes' \subseteq Message
      /\ loopClose' \in Phones \cup {None}
      /\ \A c \in Channels : \/ channels'[c] = channels[c]
                             \/ channels'[c] = None /\ done'[channels[c]] # "no"
      /\ \A s \in Phones : \/ done'[s] = done[s]
                           \/ done'[s] = "closed" /\ spc[s] # "none"
  <2>1. CASE UNCHANGED <<channels, done, inbox, writes, loopClose>>
    BY <1>2, <2>1 DEF TypeOK
  <2>2. CASE /\ u # None /\ HasRoom(u) /\ inbox' = [inbox EXCEPT ![u] = @ + 1]
             /\ UNCHANGED <<channels, done, writes, loopClose>>
    <3>1. inbox[u] + 1 \in 0..Backlog
      BY <1>2, <1>5, <2>2, LinkAssumption DEF HasRoom, TypeOK
    <3>2. inbox' \in [Phones -> 0..Backlog]
      BY <1>2, <1>5, <2>2, <3>1 DEF TypeOK
    <3> HIDE DEF u
    <3> QED BY <1>2, <2>2, <3>2 DEF TypeOK
  <2>3. CASE u # None /\ CloseChannel(u) /\ loopClose' = u /\ inbox' = inbox
    <3>1. u \in Phones /\ spc[u] # "none"
      BY <1>5, <2>3
    <3> HIDE DEF u
    <3>2. /\ done' \in [Phones -> {"no", "closed", "finished"}]
          /\ channels' \in [Channels -> Phones \cup {None}]
          /\ writes' \subseteq Message
          /\ \A c \in Channels : \/ channels'[c] = channels[c]
                                 \/ channels'[c] = None /\ done'[channels[c]] # "no"
          /\ \A s \in Phones : \/ done'[s] = done[s]
                               \/ done'[s] = "closed" /\ spc[s] # "none"
      BY <2>3, <3>1, CloseWithdraws
    <3>3. inbox' \in [Phones -> 0..Backlog]
      BY <1>2, <2>3 DEF TypeOK
    <3> QED BY <2>3, <3>1, <3>2, <3>3
  <2> QED BY <1>4, <2>1, <2>2, <2>3 DEF Deliver
<1>7. TypeOK'
  BY <1>1, <1>2, <1>3, <1>4, <1>6 DEF TypeOK
<1>8. Withdraws
  BY <1>1, <1>4, <1>6 DEF Withdraws
<1>9. Numbered'
  BY <1>1, <1>8, WithdrawsNumbered
<1>10. InOrder' /\ LastOpen'
  BY <1>1, <1>4, Shifted
<1>11. \A k \in {"open", "close"}, t \in Phones :
         (\E i \in At : down[i].k = k /\ down[i].t = t) =>
         \E i \in At' : down'[i].k = k /\ down'[i].t = t
  BY <1>1, <1>2, StillUnderWay
<1>12. Agree'
  BY <1>1, <1>8, <1>11, WithdrawsAgree
<1> QED BY <1>1, <1>7, <1>9, <1>10, <1>12 DEF IInv

\* relayMux.open.
LEMMA OpenInv ==
    ASSUME IInv, LoopReads, down[1].k = "open"
    PROVE  IInv'
<1> DEFINE c1 == down[1].c
           t1 == down[1].t
<1>1. /\ wire /\ link = "up" /\ down # <<>> /\ down' = Tail(down)
      /\ UNCHANGED <<link, wire, tokens, up, phones, rpc, chan>>
  BY DEF LoopReads, linkVars, relayVars
<1>2. TypeOK /\ Numbered /\ InOrder /\ LastOpen /\ Agree
  BY DEF IInv
<1>3. /\ down' \in Seq(Message) /\ Len(down') <= Buffer
      /\ 1 \in At /\ Head(down) = down[1] /\ down[1] \in Message
      /\ \A i \in At : i # 1 => i - 1 \in At' /\ down'[i - 1] = down[i]
  BY <1>1, <1>2, Taken
<1>4. c1 \in Channels /\ t1 \in Phones
  BY <1>3 DEF Message
<1>5. /\ channels' = [channels EXCEPT ![c1] = t1] /\ Finish({channels[c1]})
      /\ spc' = [spc EXCEPT ![t1] = "serving"]
      /\ UNCHANGED <<inbox, writes, loopClose>>
  BY <1>3 DEF LoopReads, MuxOpen
<1>6. /\ c1 = chan[t1] /\ rpc[t1] \notin {"idle", "registered"} /\ spc[t1] = "none"
      /\ \/ rpc[t1] \in {"serving", "left"}
         \/ \E j \in At : 1 < j /\ down[j].k = "close" /\ down[j].t = t1
  BY <1>2, <1>3 DEF InOrder
<1>7. \A i \in At : down[i].t = t1 /\ down[i].k = "open" => i = 1
  <2>1. \A i \in At : i = 1 \/ 1 < i
    BY DEF At
  <2>2. \A g, h \in At : g < h /\ down[h].k = "open" /\ down[g].t = down[h].t => down[g].k = "data"
    BY <1>2 DEF InOrder
  <2> QED BY <1>3, <2>1, <2>2
<1>8. \A s \in Phones : /\ rpc[s] = "serving" /\ chan[s] = c1 /\ s # t1
                        => \E j \in At : down[j].k = "open" /\ down[j].t = s
  BY <1>2, <1>3 DEF LastOpen
<1>9. \A s \in Phones, k \in {"open", "close"} :
        /\ \E i \in At : down[i].k = k /\ down[i].t = s
        /\ k = "close" \/ s # t1
        => \E i \in At' : down'[i].k = k /\ down'[i].t = s
  <2> SUFFICES ASSUME NEW s \in Phones, NEW k \in {"open", "close"}, k = "close" \/ s # t1,
                      \E i \in At : down[i].k = k /\ down[i].t = s
               PROVE  \E i \in At' : down'[i].k = k /\ down'[i].t = s
    OBVIOUS
  <2>1. ~(down[1].k = k /\ down[1].t = s)
    OBVIOUS
  <2>2. TypeOK /\ down # <<>> /\ down' = Tail(down)
    BY <1>1, <1>2
  <2> QED BY <2>1, <2>2, StillUnderWay
<1> HIDE DEF c1, t1
<1>10. /\ done' \in [Phones -> {"no", "closed", "finished"}]
       /\ \A s \in Phones : done'[s] = done[s] \/ (s = channels[c1] /\ done[s] = "no")
  BY <1>2, <1>5 DEF Finish, Done, TypeOK
<1>11. /\ channels' \in [Channels -> Phones \cup {None}]
       /\ channels'[c1] = t1 /\ \A c \in Channels : c # c1 => channels'[c] = channels[c]
  BY <1>2, <1>4, <1>5 DEF TypeOK
<1>12. /\ spc' \in [Phones -> {"none", "serving", "ending", "returned"}]
       /\ spc'[t1] = "serving" /\ \A s \in Phones : s # t1 => spc'[s] = spc[s]
  BY <1>2, <1>4, <1>5 DEF TypeOK
<1>13. TypeOK'
  BY <1>1, <1>2, <1>3, <1>5, <1>10, <1>11, <1>12 DEF TypeOK
<1>14. \A c \in Channels : channels[c] # None =>
         /\ channels[c] \in Phones /\ chan[channels[c]] = c /\ spc[channels[c]] # "none"
         /\ channels[c] # t1
  BY <1>2, <1>6 DEF TypeOK, Numbered
<1>15. \A s \in Phones : s = channels[c1] => spc[s] # "none" /\ chan[s] = c1 /\ s # t1
  BY <1>4, <1>14, LinkAssumption
<1>16. Numbered'
  <2>1. \A s \in Phones : rpc'[s] # "idle" => chan'[s] \in Channels
    BY <1>1, <1>2 DEF Numbered
  <2>2. \A s \in Phones : spc'[s] # "none" => rpc'[s] \notin {"idle", "registered"}
    BY <1>1, <1>2, <1>6, <1>12 DEF Numbered
  <2>3. \A s \in Phones : spc'[s] = "none" => done'[s] = "no"
    BY <1>2, <1>10, <1>12, <1>15 DEF Numbered
  <2>4. \A c \in Channels : phones'[c] # None =>
          chan'[phones'[c]] = c /\ rpc'[phones'[c]] \in {"registered", "serving"}
    BY <1>1, <1>2 DEF Numbered
  <2>5. \A c \in Channels : channels'[c] # None =>
          chan'[channels'[c]] = c /\ spc'[channels'[c]] # "none"
    BY <1>1, <1>6, <1>11, <1>12, <1>14
  <2>6. \A r, s \in Phones :
          /\ rpc'[r] \in {"registered", "serving"} /\ rpc'[s] \in {"registered", "serving"}
          /\ chan'[r] = chan'[s]
          => r = s
    BY <1>1, <1>2 DEF Numbered
  <2>7. link' # "down"
    BY <1>1
  <2> QED BY <2>1, <2>2, <2>3, <2>4, <2>5, <2>6, <2>7 DEF Numbered
<1>17. InOrder' /\ LastOpen'
  <2>1. \A s \in Phones : spc'[s] = spc[s] \/ (down[1].k = "open" /\ down[1].t = s)
    BY <1>12 DEF t1
  <2> QED BY <1>1, <2>1, Shifted
<1>18. ASSUME NEW s \in Phones, tokens', rpc'[s] = "serving", \E c \in Channels : phones'[c] = s,
              \A i \in At' : ~(down'[i].k = "open" /\ down'[i].t = s)
       PROVE  (channels'[chan'[s]] = s /\ done'[s] = "no") \/ done'[s] = "closed"
  <2>1. CASE s = t1
    BY <1>1, <1>2, <1>4, <1>6, <1>10, <1>11, <1>15, <2>1 DEF Numbered
  <2>2. CASE s # t1
    <3>1. \A i \in At : ~(down[i].k = "open" /\ down[i].t = s)
      BY <1>9, <1>18, <2>2
    <3>2. chan[s] # c1 /\ rpc[s] = "serving" /\ chan'[s] = chan[s]
      BY <1>1, <1>8, <1>18, <2>2, <3>1
    <3>3. (channels[chan[s]] = s /\ done[s] = "no") \/ done[s] = "closed"
      BY <1>1, <1>2, <1>18, <3>1, <3>2 DEF Agree
    <3>4. done'[s] = done[s] /\ channels'[chan[s]] = channels[chan[s]]
      <4>1. chan[s] \in Channels
        BY <1>2, <3>2 DEF Numbered
      <4> QED BY <1>10, <1>11, <1>15, <3>2, <4>1
    <3> QED BY <3>2, <3>3, <3>4
  <2> QED BY <2>1, <2>2
<1>19. ASSUME NEW c \in Channels, channels'[c] # None
       PROVE  \/ rpc'[channels'[c]] \in {"serving", "left"}
              \/ \E i \in At' : down'[i].k = "close" /\ down'[i].t = channels'[c]
  <2>1. channels'[c] = t1 \/ (channels'[c] = channels[c] /\ channels[c] # None)
    BY <1>11, <1>19
  <2>2. /\ channels'[c] \in Phones
        /\ \/ rpc[channels'[c]] \in {"serving", "left"}
           \/ \E i \in At : down[i].k = "close" /\ down[i].t = channels'[c]
    <3>1. CASE channels'[c] = t1
      BY <1>4, <1>6, <3>1
    <3>2. CASE channels'[c] = channels[c] /\ channels[c] # None
      <4>1. \/ rpc[channels[c]] \in {"serving", "left"}
            \/ \E i \in At : down[i].k = "close" /\ down[i].t = channels[c]
        BY <1>1, <1>2, <3>2 DEF Agree
      <4> QED BY <1>14, <3>2, <4>1
    <3> QED BY <2>1, <3>1, <3>2
  <2>3. rpc' = rpc
    BY <1>1
  <2> QED BY <1>9, <2>2, <2>3
<1>20. Agree'
  BY <1>18, <1>19, Zenon DEF Agree
<1> QED BY <1>1, <1>13, <1>16, <1>17, <1>20 DEF IInv

\* relayMux.remoteClosed.
LEMMA CloseInv ==
    ASSUME IInv, LoopReads, down[1].k = "close"
    PROVE  IInv'
<1> DEFINE c1 == down[1].c
           t1 == down[1].t
<1>1. /\ wire /\ link = "up" /\ down # <<>> /\ down' = Tail(down)
      /\ UNCHANGED <<link, wire, tokens, up, phones, rpc, chan>>
  BY DEF LoopReads, linkVars, relayVars
<1>2. TypeOK /\ Numbered /\ InOrder /\ Agree
  BY DEF IInv
<1>3. /\ down' \in Seq(Message) /\ Len(down') <= Buffer
      /\ 1 \in At /\ Head(down) = down[1] /\ down[1] \in Message
  BY <1>1, <1>2, Taken
<1>4. c1 \in Channels /\ t1 \in Phones
  BY <1>3 DEF Message
<1>5. RemoteClosed(down[1]) /\ UNCHANGED <<inbox, spc, writes, loopClose>>
  BY <1>3 DEF LoopReads
<1>6. c1 = chan[t1] /\ rpc[t1] = "gone"
  BY <1>2, <1>3 DEF InOrder
<1>7. \A s \in Phones, k \in {"open", "close"} :
        s # t1 /\ (\E i \in At : down[i].k = k /\ down[i].t = s)
        => \E i \in At' : down'[i].k = k /\ down'[i].t = s
  <2> SUFFICES ASSUME NEW s \in Phones, NEW k \in {"open", "close"}, s # t1,
                      \E i \in At : down[i].k = k /\ down[i].t = s
               PROVE  \E i \in At' : down'[i].k = k /\ down'[i].t = s
    OBVIOUS
  <2>1. ~(down[1].k = k /\ down[1].t = s)
    OBVIOUS
  <2>2. TypeOK /\ down # <<>> /\ down' = Tail(down)
    BY <1>1, <1>2
  <2>3. PICK i \in At : down[i].k = k /\ down[i].t = s
    OBVIOUS
  <2>4. i - 1 \in At' /\ down'[i - 1] = down[i]
    BY <2>1, <2>2, <2>3, Taken
  <2> QED BY <2>3, <2>4
<1>8. \A c \in Channels : channels[c] # None =>
        channels[c] \in Phones /\ chan[channels[c]] = c /\ spc[channels[c]] # "none"
  BY <1>2 DEF TypeOK, Numbered
<1>9. /\ done' \in [Phones -> {"no", "closed", "finished"}]
      /\ \A s \in Phones : done'[s] = done[s] \/ (s = channels[c1] /\ spc[s] # "none")
      /\ channels' \in [Channels -> Phones \cup {None}]
      /\ \A c \in Channels : channels'[c] = channels[c] \/ channels'[c] = None
      /\ \A c \in Channels : channels'[c] # t1
      /\ tokens => \A s \in Phones : s # t1 =>
            done'[s] = done[s] /\ \A c \in Channels : channels[c] = s => channels'[c] = s
  <2>1. CASE Names(down[1], channels)
    <3>1. Finish({channels[c1]}) /\ channels' = [channels EXCEPT ![c1] = None]
      BY <1>5, <2>1 DEF RemoteClosed
    <3>2. channels[c1] # None /\ (tokens => channels[c1] = t1)
      BY <2>1 DEF Names
    <3>3. channels[c1] \in Phones /\ spc[channels[c1]] # "none"
      BY <1>4, <1>8, <3>2
    <3>4. \A c \in Channels : channels[c] = t1 => c = c1
      BY <1>4, <1>6, <1>8, LinkAssumption
    <3> HIDE DEF c1, t1
    <3>5. /\ done' \in [Phones -> {"no", "closed", "finished"}]
          /\ \A s \in Phones : done'[s] = done[s] \/ s = channels[c1]
      BY <1>2, <3>1 DEF Finish, Done, TypeOK
    <3>6. /\ channels' \in [Channels -> Phones \cup {None}] /\ channels'[c1] = None
          /\ \A c \in Channels : c # c1 => channels'[c] = channels[c]
      BY <1>2, <1>4, <3>1 DEF TypeOK
    <3> QED BY <1>4, <3>2, <3>3, <3>4, <3>5, <3>6, LinkAssumption
  <2>2. CASE ~Names(down[1], channels)
    <3>1. channels' = channels /\ done' = done
      BY <1>5, <2>2 DEF RemoteClosed
    <3>2. channels[c1] # t1
      BY <1>4, <2>2, LinkAssumption DEF Names
    <3>3. \A c \in Channels : channels[c] # t1
      BY <1>4, <1>6, <1>8, <3>2, LinkAssumption
    <3> QED BY <1>2, <3>1, <3>3 DEF TypeOK
  <2> QED BY <2>1, <2>2
<1>10. TypeOK'
  BY <1>1, <1>2, <1>3, <1>5, <1>9 DEF TypeOK
<1>11. Numbered'
  <2>1. spc' = spc
    BY <1>5
  <2>2. \A s \in Phones : /\ rpc'[s] # "idle" => chan'[s] \in Channels
                          /\ spc'[s] # "none" => rpc'[s] \notin {"idle", "registered"}
                          /\ spc'[s] = "none" => done'[s] = "no"
    BY <1>1, <1>2, <1>9, <2>1 DEF Numbered
  <2>3. \A c \in Channels : phones'[c] # None =>
          chan'[phones'[c]] = c /\ rpc'[phones'[c]] \in {"registered", "serving"}
    BY <1>1, <1>2 DEF Numbered
  <2>4. \A c \in Channels : channels'[c] # None =>
          chan'[channels'[c]] = c /\ spc'[channels'[c]] # "none"
    BY <1>1, <1>8, <1>9, <2>1
  <2>5. \A r, s \in Phones :
          /\ rpc'[r] \in {"registered", "serving"} /\ rpc'[s] \in {"registered", "serving"}
          /\ chan'[r] = chan'[s]
          => r = s
    BY <1>1, <1>2 DEF Numbered
  <2>6. link' # "down"
    BY <1>1
  <2> QED BY <2>2, <2>3, <2>4, <2>5, <2>6 DEF Numbered
<1>12. InOrder' /\ LastOpen'
  BY <1>1, <1>5, Shifted
<1> HIDE DEF c1, t1
<1>13. ASSUME NEW s \in Phones, tokens', rpc'[s] = "serving", \E c \in Channels : phones'[c] = s,
              \A i \in At' : ~(down'[i].k = "open" /\ down'[i].t = s)
       PROVE  (channels'[chan'[s]] = s /\ done'[s] = "no") \/ done'[s] = "closed"
  <2>1. s # t1 /\ rpc[s] = "serving" /\ chan'[s] = chan[s] /\ chan[s] \in Channels
    BY <1>1, <1>2, <1>6, <1>13 DEF Numbered
  <2>2. \A i \in At : ~(down[i].k = "open" /\ down[i].t = s)
    BY <1>7, <1>13, <2>1
  <2>3. (channels[chan[s]] = s /\ done[s] = "no") \/ done[s] = "closed"
    BY <1>1, <1>2, <1>13, <2>1, <2>2 DEF Agree
  <2>4. /\ done'[s] = done[s]
        /\ channels[chan[s]] = s => channels'[chan[s]] = s
    BY <1>1, <1>9, <1>13, <2>1
  <2> QED BY <2>1, <2>3, <2>4
<1>14. ASSUME NEW c \in Channels, channels'[c] # None
       PROVE  \/ rpc'[channels'[c]] \in {"serving", "left"}
              \/ \E i \in At' : down'[i].k = "close" /\ down'[i].t = channels'[c]
  <2>1. channels'[c] = channels[c] /\ channels[c] # None /\ channels[c] # t1
    BY <1>9, <1>14
  <2>2. \/ rpc[channels[c]] \in {"serving", "left"}
        \/ \E i \in At : down[i].k = "close" /\ down[i].t = channels[c]
    BY <1>1, <1>2, <2>1 DEF Agree
  <2>3. rpc' = rpc
    BY <1>1
  <2> QED BY <1>7, <1>8, <2>1, <2>2, <2>3
<1>15. Agree'
  BY <1>13, <1>14, Zenon DEF Agree
<1> QED BY <1>1, <1>10, <1>11, <1>12, <1>15 DEF IInv

-----------------------------------------------------------------------------
\* Every step of Next leaves it as it is: what the relay and the bridge know of each other's
\* phones follows the order of the stream between them (Connect to RunReturns).
THEOREM LinkInductive == IInv /\ [Next]_vars => IInv'
<1> SUFFICES ASSUME IInv, [Next]_vars PROVE IInv'
  OBVIOUS
<1>1. ASSUME NEW t \in Phones, RelayPhone(t) PROVE IInv'
  BY <1>1, ConnectInv, SendOpenInv, SendsInv, DropsInv DEF RelayPhone
<1>2. ASSUME NEW t \in Phones, ServeLink(t) PROVE IInv'
  BY <1>2, ServeLinkInv
<1>3. CASE LoopReads
  <2>1. TypeOK /\ down # <<>> /\ Head(down) = down[1]
    BY <1>3 DEF LoopReads, IInv, TypeOK
  <2>2. down[1].k \in {"open", "close", "data"}
    BY <1>3, <2>1 DEF LoopReads
  <2> QED BY <1>3, <2>2, OpenInv, CloseInv, DataInv
<1>4. ASSUME NEW m \in writes, Writer(m) PROVE IInv'
  BY <1>4, WriterInv
<1>5. CASE RelayReads \/ Attach \/ LinkLost \/ LoopFails
  BY <1>5, RelayReadsInv, AttachInv, LinkLostInv, LoopFailsInv
<1>6. CASE UNCHANGED vars
  <2>1. UNCHANGED <<link, wire, tokens, down, up, phones, rpc, chan, channels, inbox, done, spc, writes, loopClose>>
    BY <1>6 DEF vars, linkVars, relayVars, bridgeVars
  <2>2. TypeOK'
    BY <2>1 DEF IInv, TypeOK
  <2>3. Withdraws
    BY <2>1 DEF Withdraws
  <2> QED BY <2>1, <2>2, <2>3, WithdrawsInv
<1> QED BY <1>1, <1>2, <1>3, <1>4, <1>5, <1>6 DEF Next

\* The state of the link has its types: neither direction of the socket holds more than its
\* buffer and no inbox more than its capacity (relayMux.deliver), and every message names a
\* phone and a channel number in range.
THEOREM TypeCorrect == Spec => []TypeOK
<1>1. Spec => []IInv
  BY IInvInit, LinkInductive, PTL DEF Spec
<1>2. IInv => TypeOK
  BY DEF IInv
<1> QED BY <1>1, <1>2, PTL

\* While the socket lives, a phone that the relay serves has its channel at the bridge, or
\* the bridge itself has closed it, if the relay gives tokens, and no channel outlives its
\* phone's close even if it does not (remoteClosed, Close, closePhoneFromBridge): for every
\* number of phones and channels and every size of the buffers, however a close and the open
\* of the number's next phone pass each other.
THEOREM EndsStayAgreed == Spec => []EndsAgree
<1>1. Spec => []IInv
  BY IInvInit, LinkInductive, PTL DEF Spec
<1>2. IInv => EndsAgree
  BY AgreeEnds
<1> QED BY <1>1, <1>2, PTL
=============================================================================
