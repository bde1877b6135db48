--------------------------- MODULE RelaySessionProofs ---------------------------
(***************************************************************************)
(* Proofs about RelaySession, for every number of phones, keys, channels   *)
(* and every limit: type correctness, that the channels of session.phones  *)
(* have one owner each, that the limits of a session hold, and whom a      *)
(* newcomer may displace.                                                  *)
(***************************************************************************)
EXTENDS RelaySession, FiniteSetTheorems, WellFoundedInduction, TLAPS

Serving(p) == ppc[p] \in {"registered", "serving"}

\* A phone whose servePhone runs was told a channel.
ChannelTold == \A p \in Phones : Serving(p) => chan[p] \in Channels

\* Only a phone in session.phones is admitted, and only it or one that is about to register
\* has a rank among the phones.
StructsHeld ==
    \A p \in Phones : p \notin Holding => ~admitted[p] /\ (ppc[p] # "arrived" => opened[p] = 0)

\* A phone that is about to register has a key.
ArrivedKeyed == \A p \in Phones : ppc[p] = "arrived" => key[p] \in Keys

\* The inductive invariant: the limits need the channels' owners (a phone holds one channel)
\* and that nobody is admitted before it holds one; a free channel needs the limits.
IInv ==
    /\ TypeOK /\ ChannelsOwned /\ WithinLimits
    /\ ChannelTold /\ StructsHeld /\ ArrivedKeyed

-----------------------------------------------------------------------------
\* Counting phones.

\* Sets of phones are finite, and a part has no more members than the whole.
LEMMA PhonesFinite ==
    ASSUME NEW S, S \subseteq Phones
    PROVE  /\ IsFiniteSet(S) /\ Cardinality(S) \in Nat
           /\ \A T \in SUBSET S : Cardinality(T) \in Nat /\ Cardinality(T) <= Cardinality(S)
<1>1. IsFiniteSet(S)
  BY LimitsAssumption, FS_Subset
<1>2. ASSUME NEW T \in SUBSET S PROVE Cardinality(T) \in Nat /\ Cardinality(T) <= Cardinality(S)
  BY <1>1, FS_Subset, FS_CardinalityType
<1> QED BY <1>1, <1>2, FS_CardinalityType

LEMMA HoldingPhones ==
    /\ Holding \subseteq Phones /\ Admitted \subseteq Phones /\ Pending \subseteq Phones
    /\ \A k : {p \in Pending : key[p] = k} \subseteq Phones
    /\ Holding = Admitted \cup Pending
BY DEF Holding, Admitted, Pending

\* A step after which fewer phones are admitted or pending, with the keys they had, keeps
\* within the limits.
LEMMA FewerWithin ==
    ASSUME WithinLimits, Admitted' \subseteq Admitted, Pending' \subseteq Pending,
           \A p \in Pending' : key'[p] = key[p]
    PROVE  WithinLimits'
<1>1. Cardinality(Admitted)' \in Nat /\ Cardinality(Admitted)' <= Cardinality(Admitted)
  BY HoldingPhones, PhonesFinite
<1>2. Cardinality(Pending)' \in Nat /\ Cardinality(Pending)' <= Cardinality(Pending)
  BY HoldingPhones, PhonesFinite
<1>3. \A k \in Keys : SameKey(k)' \in Nat /\ SameKey(k)' <= SameKey(k)
  <2> SUFFICES ASSUME NEW k \in Keys
               PROVE  SameKey(k)' \in Nat /\ SameKey(k)' <= SameKey(k)
    OBVIOUS
  <2>1. {p \in Pending : key[p] = k}' \subseteq {p \in Pending : key[p] = k}
    OBVIOUS
  <2> QED BY <2>1, HoldingPhones, PhonesFinite DEF SameKey
<1>4. /\ Cardinality(Admitted) \in Nat /\ Cardinality(Pending) \in Nat
      /\ \A k \in Keys : SameKey(k) \in Nat
  BY HoldingPhones, PhonesFinite DEF SameKey
<1> QED BY <1>1, <1>2, <1>3, <1>4, LimitsAssumption DEF WithinLimits

-----------------------------------------------------------------------------
\* Phones that lose their channel.

\* What Forget leaves of a phone's struct.
LEMMA ForgetTyped ==
    ASSUME TypeOK, NEW S, Forget(S)
    PROVE  /\ key' \in [Phones -> Keys \cup {NoKey}]
           /\ opened' \in [Phones -> 0..Cardinality(Phones)]
           /\ frames' \in [Phones -> 0..2]
           /\ admitted' \in [Phones -> BOOLEAN]
           /\ vouched' \in [Phones -> BOOLEAN]
           /\ \A p \in Phones :
                /\ p \in S => ~admitted'[p] /\ opened'[p] = 0
                /\ p \notin S => key'[p] = key[p] /\ admitted'[p] = admitted[p]
                /\ opened[p] = 0 => opened'[p] = 0
<1>1. Cardinality(Phones) \in Nat /\ 0 \in 0..Cardinality(Phones)
  BY PhonesFinite
<1>2. ASSUME NEW p \in Phones
      PROVE  Cardinality({q \in Phones \ S : 0 < opened[q] /\ opened[q] <= opened[p]})
                \in 0..Cardinality(Phones)
  BY <1>1, PhonesFinite
<1>3. ASSUME NEW p \in Phones, opened[p] = 0
      PROVE  Cardinality({q \in Phones \ S : 0 < opened[q] /\ opened[q] <= opened[p]}) = 0
  <2>1. {q \in Phones \ S : 0 < opened[q] /\ opened[q] <= opened[p]} = {}
    BY <1>3 DEF TypeOK
  <2> QED BY <2>1, FS_EmptySet
<1>4. opened' \in [Phones -> 0..Cardinality(Phones)]
  BY <1>1, <1>2 DEF Forget
<1>5. \A p \in Phones : (p \in S => opened'[p] = 0) /\ (opened[p] = 0 => opened'[p] = 0)
  BY <1>3 DEF Forget
<1>6. /\ key' \in [Phones -> Keys \cup {NoKey}] /\ frames' \in [Phones -> 0..2]
      /\ \A p \in Phones : p \notin S => key'[p] = key[p]
  BY DEF Forget, TypeOK
<1>7. /\ admitted' \in [Phones -> BOOLEAN] /\ vouched' \in [Phones -> BOOLEAN]
      /\ \A p \in Phones : /\ p \in S => ~admitted'[p]
                           /\ p \notin S => admitted'[p] = admitted[p]
  BY DEF Forget, TypeOK
<1> QED BY <1>4, <1>5, <1>6, <1>7

\* A phone holds one channel: giving up the channel is giving up the phone.
LEMMA OneChannel ==
    ASSUME IInv, NEW ch \in Channels
    PROVE  [phones EXCEPT ![ch] = NoPhone] = Without({phones[ch]})
<1>1. \A c \in Channels : phones[c] = phones[ch] /\ phones[ch] # NoPhone => c = ch
  BY DEF IInv, TypeOK, ChannelsOwned
<1> QED BY <1>1 DEF IInv, TypeOK, Without

\* Who is left in session.phones.
LEMMA WithoutHolding ==
    ASSUME TypeOK, NEW S, phones' = Without(S), Forget(S)
    PROVE  /\ phones' \in [Channels -> Phones \cup {NoPhone}]
           /\ Holding' = Holding \ S /\ Admitted' = Admitted \ S /\ Pending' = Pending \ S
<1>1. /\ phones' \in [Channels -> Phones \cup {NoPhone}]
      /\ \A ch \in Channels : phones'[ch] = IF phones[ch] \in S THEN NoPhone ELSE phones[ch]
  BY DEF TypeOK, Without
<1>2. Holding' = Holding \ S
  BY <1>1, LimitsAssumption DEF Holding
<1>3. \A p \in Phones : p \notin S => admitted'[p] = admitted[p]
  BY ForgetTyped
<1> QED BY <1>1, <1>2, <1>3, HoldingPhones DEF Admitted, Pending

\* closeIfPending, closePhone, closePhoneFromBridge, closeAllPhones: phones leave the map in
\* one critical section and their sockets are shut down.
LEMMA DropInv ==
    ASSUME IInv, NEW S, S \subseteq Holding \cup {NoPhone},
           phones' = Without(S), Forget(S), Shutdown(S), UNCHANGED <<nextCh, ppc, chan>>,
           sess' \in {"live", "detached", "ended"}, bclose' \in 0..MaxChannel,
           draining' \in BOOLEAN
    PROVE  IInv'
<1> USE DEF IInv
<1>1. /\ phones' \in [Channels -> Phones \cup {NoPhone}]
      /\ Holding' = Holding \ S /\ Admitted' = Admitted \ S /\ Pending' = Pending \ S
  BY WithoutHolding
<1>2. /\ sock' \in [Phones -> {"open", "closing", "closed"}]
      /\ \A p \in Phones : sock'[p] = "open" => sock[p] = "open" /\ p \notin S
  BY DEF TypeOK, Shutdown
<1>3. TypeOK'
  BY <1>1, <1>2, ForgetTyped DEF TypeOK
<1>4. WithinLimits'
  BY <1>1, ForgetTyped, HoldingPhones, FewerWithin
<1>5. \A ch \in Channels : phones'[ch] = IF phones[ch] \in S THEN NoPhone ELSE phones[ch]
  BY DEF Without
<1>6. ChannelsOwned'
  BY <1>2, <1>5 DEF ChannelsOwned, ChannelTold, Serving
<1>7. ChannelTold'
  BY DEF ChannelTold, Serving
<1>8. \A p \in Holding : ppc[p] # "arrived"
  BY LimitsAssumption DEF Holding, ChannelsOwned
<1>9. StructsHeld'
  BY <1>1, ForgetTyped DEF StructsHeld
<1>10. ArrivedKeyed'
  BY <1>8, LimitsAssumption, ForgetTyped DEF ArrivedKeyed
<1> QED BY <1>3, <1>4, <1>6, <1>7, <1>9, <1>10

-----------------------------------------------------------------------------
\* The other steps.

LEMMA IInvInit == Init => IInv
<1> SUFFICES ASSUME Init PROVE IInv
  OBVIOUS
<1> USE DEF Init
<1>1. Holding = {} /\ Admitted = {} /\ Pending = {}
  <2>1. \A ch \in Channels : phones[ch] \notin Phones
    BY LimitsAssumption
  <2>2. Holding = {}
    BY <2>1 DEF Holding
  <2> QED BY <2>2 DEF Admitted, Pending
<1>2. TypeOK
  <2>1. 0 \in 0..MaxChannel /\ 0 \in 0..Cardinality(Phones) /\ 0 \in 0..2
    BY LimitsAssumption, PhonesFinite
  <2>2. /\ sess \in {"live", "detached", "ended"} /\ draining \in BOOLEAN
        /\ admitted \in [Phones -> BOOLEAN] /\ vouched \in [Phones -> BOOLEAN]
        /\ ppc \in [Phones -> {"idle", "arrived", "registered", "serving"}]
        /\ sock \in [Phones -> {"open", "closing", "closed"}]
    OBVIOUS
  <2> QED BY <2>1, <2>2 DEF TypeOK
<1>3. \A k \in Keys : {p \in Pending : key[p] = k} = {}
  BY <1>1
<1>4. WithinLimits
  BY <1>1, <1>3, FS_EmptySet, LimitsAssumption DEF WithinLimits, SameKey
<1>5. ChannelsOwned /\ ChannelTold /\ StructsHeld /\ ArrivedKeyed
  BY LimitsAssumption DEF ChannelsOwned, ChannelTold, Serving, StructsHeld, ArrivedKeyed, Channels
<1> QED BY <1>2, <1>4, <1>5 DEF IInv

\* Neither a phone that is idle nor one that is about to register holds a channel.
LEMMA NotHolding ==
    ASSUME IInv, NEW p \in Phones, ~Serving(p)
    PROVE  p \notin Holding
BY LimitsAssumption DEF IInv, TypeOK, Holding, ChannelsOwned, Serving

LEMMA ArriveInv ==
    ASSUME IInv, NEW p \in Phones, NEW k \in Keys, Arrive(p, k)
    PROVE  IInv'
<1> USE DEF IInv
<1>1. p \notin Holding /\ opened[p] = 0
  BY NotHolding DEF Arrive, Serving, StructsHeld
<1>2. Cardinality({q \in Phones : opened[q] > 0}) + 1 \in 0..Cardinality(Phones)
  <2>1. {q \in Phones : opened[q] > 0} \subseteq Phones \ {p}
    BY <1>1
  <2>2. Cardinality(Phones \ {p}) = Cardinality(Phones) - 1
    BY LimitsAssumption, FS_RemoveElement
  <2>3. Cardinality({q \in Phones : opened[q] > 0}) <= Cardinality(Phones \ {p})
    BY <2>1, PhonesFinite
  <2> QED BY <2>2, <2>3, PhonesFinite
<1>3. TypeOK'
  BY <1>2 DEF TypeOK, Arrive
<1>4. Holding' = Holding
  BY DEF Holding, Arrive
<1>5. \A q \in Phones : q # p => key'[q] = key[q] /\ opened'[q] = opened[q] /\ ppc'[q] = ppc[q]
  BY DEF Arrive, TypeOK
<1>6. ppc'[p] = "arrived" /\ key'[p] = k
  BY DEF Arrive, TypeOK
<1>7. Admitted' = Admitted /\ Pending' = Pending
  BY <1>4 DEF Arrive, Admitted, Pending
<1>8. WithinLimits'
  BY <1>1, <1>5, <1>7, HoldingPhones, FewerWithin DEF Pending
<1>9. ChannelsOwned' /\ ChannelTold'
  BY <1>3, LimitsAssumption DEF Arrive, ChannelsOwned, ChannelTold, Serving, TypeOK
<1>10. StructsHeld' /\ ArrivedKeyed'
  BY <1>4, <1>5, <1>6 DEF Arrive, StructsHeld, ArrivedKeyed
<1> QED BY <1>3, <1>8, <1>9, <1>10

\* Steps that leave session.phones and what it says of its phones alone.
LEMMA OutsideInv ==
    ASSUME IInv, UNCHANGED <<phones, nextCh, chan, key, opened, frames, admitted>>,
           \/ \E p \in Phones : SendOpen(p) \/ ShutdownRuns(p)
           \/ \E ch \in Channels, p \in Phones : Vouch(ch, p)
           \/ Detach \/ Drain
    PROVE  IInv'
<1> USE DEF IInv
<1>1. Holding' = Holding /\ Admitted' = Admitted /\ Pending' = Pending
  BY DEF Holding, Admitted, Pending
<1>2. WithinLimits'
  BY <1>1, FewerWithin
<1>3. /\ sess' \in {"live", "detached", "ended"} /\ draining' \in BOOLEAN /\ bclose' = bclose
      /\ ppc' \in [Phones -> {"idle", "arrived", "registered", "serving"}]
      /\ \A p \in Phones : /\ ppc'[p] = ppc[p] \/ (ppc[p] = "registered" /\ ppc'[p] = "serving")
  BY DEF SendOpen, ShutdownRuns, Vouch, Detach, Drain, TypeOK
<1>4. /\ sock' \in [Phones -> {"open", "closing", "closed"}]
      /\ \A p \in Phones : sock'[p] = "open" => sock[p] = "open"
  BY DEF SendOpen, ShutdownRuns, Vouch, Detach, Drain, TypeOK
<1>5. vouched' \in [Phones -> BOOLEAN]
  BY DEF SendOpen, ShutdownRuns, Vouch, Detach, Drain, TypeOK, structVars
<1>6. TypeOK'
  BY <1>3, <1>4, <1>5 DEF TypeOK
<1>7. ChannelsOwned'
  BY <1>3, <1>4 DEF ChannelsOwned, TypeOK
<1>8. ChannelTold' /\ StructsHeld' /\ ArrivedKeyed'
  BY <1>1, <1>3 DEF ChannelTold, StructsHeld, ArrivedKeyed, Serving
<1> QED BY <1>2, <1>6, <1>7, <1>8

\* countBridgeFrame: a frame may admit the phone that holds the channel, if there is room.
LEMMA FrameInv ==
    ASSUME IInv, NEW ch \in Channels, Frame(ch) \/ FrameFails(ch)
    PROVE  IInv'
<1> DEFINE p == phones[ch]
<1> USE DEF IInv
<1>1. p \in Phones /\ p \in Holding
  BY DEF Frame, FrameFails, TypeOK, Holding
<1>2. /\ UNCHANGED <<sess, phones, nextCh, ppc, chan, key, opened, vouched, sock, draining>>
      /\ bclose' \in 0..MaxChannel
  BY DEF Frame, FrameFails, TypeOK, Channels
<1>3. frames' \in [Phones -> 0..2]
  <2>1. frames[p] \in 0..2 /\ (IF frames[p] = 2 THEN 2 ELSE frames[p] + 1) \in 0..2
    BY <1>1 DEF TypeOK
  <2>2. frames' = [frames EXCEPT ![p] = IF @ = 2 THEN 2 ELSE @ + 1]
    BY DEF Frame, FrameFails
  <2> QED BY <2>1, <2>2 DEF TypeOK
<1>4. /\ admitted' \in [Phones -> BOOLEAN]
      /\ \A q \in Phones : admitted[q] => admitted'[q]
      /\ \A q \in Phones : q # p => admitted'[q] = admitted[q]
  BY <1>1, Zenon DEF Frame, FrameFails, TypeOK
<1>5. admitted'[p] /\ ~admitted[p] => Cardinality(Admitted) < MaxAdmitted
  BY <1>1 DEF Frame, FrameFails, TypeOK
<1>6. Holding' = Holding
  BY <1>2 DEF Holding
<1>7. Pending' \subseteq Pending /\ Admitted' \subseteq Admitted \cup {p}
  BY <1>4, <1>6, HoldingPhones DEF Pending, Admitted
<1>8. ~(admitted'[p] /\ ~admitted[p]) => Admitted' \subseteq Admitted
  BY <1>4, <1>6, HoldingPhones DEF Admitted
<1>9. WithinLimits'
  <2>1. CASE ~(admitted'[p] /\ ~admitted[p])
    BY <1>2, <1>7, <1>8, <2>1, FewerWithin
  <2>2. CASE admitted'[p] /\ ~admitted[p]
    <3>1. IsFiniteSet(Admitted) /\ Cardinality(Admitted) \in Nat
      BY HoldingPhones, PhonesFinite
    <3>2. /\ Cardinality(Admitted \cup {p}) = Cardinality(Admitted) + 1
          /\ IsFiniteSet(Admitted \cup {p})
      BY <2>2, <3>1, FS_AddElement DEF Admitted
    <3>3. Cardinality(Admitted)' <= Cardinality(Admitted) + 1 /\ Cardinality(Admitted)' \in Nat
      BY <1>7, <3>2, FS_Subset, FS_CardinalityType
    <3>4. Cardinality(Admitted)' <= MaxAdmitted
      BY <1>5, <2>2, <3>1, <3>3, LimitsAssumption
    <3>5. Cardinality(Pending)' <= MaxPending
      <4>1. /\ Cardinality(Pending)' \in Nat /\ Cardinality(Pending) \in Nat
            /\ Cardinality(Pending)' <= Cardinality(Pending)
        BY <1>7, HoldingPhones, PhonesFinite
      <4> QED BY <4>1, LimitsAssumption DEF WithinLimits
    <3>6. ASSUME NEW k \in Keys PROVE SameKey(k)' <= MaxPerKey
      <4>1. {q \in Pending : key[q] = k}' \subseteq {q \in Pending : key[q] = k}
        BY <1>2, <1>7
      <4>2. SameKey(k)' \in Nat /\ SameKey(k) \in Nat /\ SameKey(k)' <= SameKey(k)
        BY <4>1, HoldingPhones, PhonesFinite DEF SameKey
      <4> QED BY <4>2, LimitsAssumption DEF WithinLimits
    <3> QED BY <3>4, <3>5, <3>6 DEF WithinLimits
  <2> QED BY <2>1, <2>2
<1>10. TypeOK'
  BY <1>2, <1>3, <1>4 DEF TypeOK
<1>11. ChannelsOwned' /\ ChannelTold' /\ ArrivedKeyed'
  BY <1>2 DEF ChannelsOwned, ChannelTold, ArrivedKeyed, Serving
<1>12. StructsHeld'
  BY <1>1, <1>2, <1>4, <1>6 DEF StructsHeld
<1> QED BY <1>9, <1>10, <1>11, <1>12

\* The steps that take phones out of the map and shut them down.
LEMMA CloseInv ==
    ASSUME IInv,
           \/ \E p \in Phones : AdmissionTimeout(p)
           \/ ClosePhone
           \/ \E ch \in Channels, p \in Phones : CloseFromBridge(ch, p)
           \/ DrainClosesPhones \/ CloseAllPhones
    PROVE  IInv'
<1> USE DEF IInv
<1>1. ASSUME NEW p \in Phones, AdmissionTimeout(p) PROVE IInv'
  <2>1. chan[p] \in Channels /\ phones[chan[p]] = p
    BY <1>1 DEF AdmissionTimeout, ChannelTold, Serving
  <2>2. {p} \subseteq Holding \cup {NoPhone}
    BY <2>1 DEF Holding
  <2>3. /\ sess' \in {"live", "detached", "ended"} /\ bclose' \in 0..MaxChannel
        /\ draining' \in BOOLEAN
    BY <1>1 DEF AdmissionTimeout, TypeOK
  <2> QED BY <1>1, <2>2, <2>3, DropInv DEF AdmissionTimeout
<1>2. CASE ClosePhone
  <2>1. bclose \in Channels
    BY <1>2 DEF ClosePhone, TypeOK, Channels
  <2>2. phones' = Without({phones[bclose]})
    BY <1>2, <2>1, OneChannel DEF ClosePhone
  <2>3. {phones[bclose]} \subseteq Holding \cup {NoPhone}
    BY <2>1 DEF Holding, TypeOK
  <2>4. /\ sess' \in {"live", "detached", "ended"} /\ bclose' \in 0..MaxChannel
        /\ draining' \in BOOLEAN
    BY <1>2, LimitsAssumption DEF ClosePhone, TypeOK
  <2> QED BY <1>2, <2>2, <2>3, <2>4, DropInv DEF ClosePhone
<1>3. ASSUME NEW ch \in Channels, NEW p \in Phones, CloseFromBridge(ch, p) PROVE IInv'
  <2>1. phones' = Without({p})
    BY <1>3, OneChannel DEF CloseFromBridge
  <2>2. {p} \subseteq Holding \cup {NoPhone}
    BY <1>3 DEF CloseFromBridge, Holding
  <2>3. /\ sess' \in {"live", "detached", "ended"} /\ bclose' \in 0..MaxChannel
        /\ draining' \in BOOLEAN
    BY <1>3 DEF CloseFromBridge, TypeOK
  <2> QED BY <1>3, <2>1, <2>2, <2>3, DropInv DEF CloseFromBridge
<1>4. CASE DrainClosesPhones \/ CloseAllPhones
  <2>1. [ch \in Channels |-> NoPhone] = Without(Holding)
    BY DEF Without, Holding, TypeOK
  <2>2. /\ sess' \in {"live", "detached", "ended"} /\ bclose' \in 0..MaxChannel
        /\ draining' \in BOOLEAN /\ UNCHANGED <<nextCh, ppc, chan>>
    BY <1>4 DEF DrainClosesPhones, CloseAllPhones, TypeOK
  <2>3. phones' = Without(Holding) /\ Forget(Holding) /\ Shutdown(Holding)
    BY <1>4, <2>1 DEF DrainClosesPhones, CloseAllPhones
  <2> QED BY <2>2, <2>3, DropInv
<1> QED BY <1>1, <1>2, <1>3, <1>4

\* servePhone returns: the phone gives its channel back if it still holds it.
LEMMA ReturnInv ==
    ASSUME IInv, NEW p \in Phones, ServePhoneReturns(p)
    PROVE  IInv'
<1> USE DEF IInv
<1> DEFINE S == GivesBack(p)
<1>1. Serving(p) /\ chan[p] \in Channels
  BY DEF ServePhoneReturns, Serving, ChannelTold
<1>2. S \subseteq Holding /\ S \subseteq {p}
  BY <1>1 DEF GivesBack, Holding
<1>3. /\ phones' \in [Channels -> Phones \cup {NoPhone}]
      /\ Holding' = Holding \ S /\ Admitted' = Admitted \ S /\ Pending' = Pending \ S
  BY WithoutHolding DEF ServePhoneReturns
<1>4. p \notin Holding'
  <2>1. \A c \in Channels : phones[c] = p => c = chan[p]
    BY LimitsAssumption DEF ChannelsOwned
  <2> QED BY <1>3, <2>1 DEF Holding, GivesBack
<1>5. /\ \A q \in Phones : q # p => ppc'[q] = ppc[q] /\ chan'[q] = chan[q] /\ sock'[q] = sock[q]
      /\ ppc'[p] = "idle"
  BY DEF ServePhoneReturns, TypeOK
<1>6. TypeOK'
  <2>1. /\ ppc' \in [Phones -> {"idle", "arrived", "registered", "serving"}]
        /\ sock' \in [Phones -> {"open", "closing", "closed"}]
    BY DEF ServePhoneReturns, TypeOK
  <2>2. chan' \in [Phones -> 0..MaxChannel]
    BY LimitsAssumption DEF ServePhoneReturns, TypeOK
  <2>3. UNCHANGED <<sess, nextCh, bclose, draining>>
    BY DEF ServePhoneReturns
  <2> QED BY <1>3, <2>1, <2>2, <2>3, ForgetTyped DEF ServePhoneReturns, TypeOK
<1>7. WithinLimits'
  BY <1>3, ForgetTyped, HoldingPhones, FewerWithin DEF ServePhoneReturns
<1>8. \A ch \in Channels : phones'[ch] = IF phones[ch] \in S THEN NoPhone ELSE phones[ch]
  BY DEF ServePhoneReturns, Without
<1>9. ChannelsOwned'
  <2>1. ASSUME NEW ch \in Channels, phones'[ch] # NoPhone
        PROVE  chan'[phones'[ch]] = ch /\ ppc'[phones'[ch]] \in {"registered", "serving"}
    <3>1. phones'[ch] = phones[ch] /\ phones'[ch] \in Phones
      BY <1>3, <1>8, <2>1
    <3>2. phones'[ch] # p
      BY <1>4, <2>1 DEF Holding
    <3> QED BY <1>5, <3>1, <3>2, <2>1 DEF ChannelsOwned
  <2>2. ASSUME NEW q \in Phones, ppc'[q] \in {"registered", "serving"}, sock'[q] = "open"
        PROVE  phones'[chan'[q]] = q
    <3>1. q # p /\ phones[chan[q]] = q /\ chan[q] \in Channels
      BY <1>5, <2>2 DEF ChannelsOwned, ChannelTold, Serving
    <3> QED BY <1>2, <1>5, <1>8, <3>1
  <2> QED BY <2>1, <2>2 DEF ChannelsOwned
<1>10. ChannelTold'
  BY <1>5 DEF ChannelTold, Serving
<1>11. StructsHeld'
  <2>1. \A q \in Phones : /\ q \in S => ~admitted'[q] /\ opened'[q] = 0
                          /\ q \notin S => admitted'[q] = admitted[q]
                          /\ opened[q] = 0 => opened'[q] = 0
    BY ForgetTyped DEF ServePhoneReturns
  <2>2. p \notin S => p \notin Holding
    BY <1>3, <1>4
  <2>3. ppc[p] # "arrived"
    BY <1>1 DEF Serving
  <2> QED BY <1>3, <1>5, <2>1, <2>2, <2>3 DEF StructsHeld
<1>12. ArrivedKeyed'
  <2>1. \A q \in Phones : q \notin S => key'[q] = key[q]
    BY ForgetTyped DEF ServePhoneReturns
  <2> QED BY <1>2, <1>5, <2>1 DEF ArrivedKeyed
<1> QED BY <1>6, <1>7, <1>9, <1>10, <1>11, <1>12

\* A phone that is refused never held a channel.
LEMMA RefuseInv ==
    ASSUME IInv, NEW p \in Phones, Refuse(p)
    PROVE  IInv'
<1> USE DEF IInv
<1>1. p \notin Holding
  BY NotHolding DEF Refuse, Serving
<1>2. phones' = Without({p})
  BY <1>1 DEF Refuse, Without, Holding, TypeOK
<1>3. /\ phones' \in [Channels -> Phones \cup {NoPhone}]
      /\ Holding' = Holding /\ Admitted' = Admitted /\ Pending' = Pending
  <2>1. /\ phones' \in [Channels -> Phones \cup {NoPhone}]
        /\ Holding' = Holding \ {p} /\ Admitted' = Admitted \ {p} /\ Pending' = Pending \ {p}
    BY <1>2, WithoutHolding DEF Refuse
  <2>2. p \notin Admitted /\ p \notin Pending
    BY <1>1, HoldingPhones
  <2> QED BY <1>1, <2>1, <2>2
<1>4. /\ \A q \in Phones : q # p => ppc'[q] = ppc[q] /\ sock'[q] = sock[q]
      /\ ppc'[p] = "idle" /\ UNCHANGED <<phones, chan>>
  BY DEF Refuse, TypeOK
<1>5. TypeOK'
  <2>1. /\ ppc' \in [Phones -> {"idle", "arrived", "registered", "serving"}]
        /\ sock' \in [Phones -> {"open", "closing", "closed"}]
        /\ UNCHANGED <<sess, phones, nextCh, chan, bclose, draining>>
    BY DEF Refuse, TypeOK
  <2> QED BY <2>1, ForgetTyped DEF Refuse, TypeOK
<1>6. WithinLimits'
  BY <1>1, <1>3, ForgetTyped, HoldingPhones, FewerWithin DEF Refuse, Pending
<1>7. ChannelsOwned' /\ ChannelTold'
  <2>1. \A ch \in Channels : phones[ch] # p
    BY <1>1 DEF Holding
  <2>2. \A ch \in Channels : phones[ch] # NoPhone => phones[ch] \in Phones
    BY DEF TypeOK
  <2>3. ChannelsOwned'
    BY <1>4, <2>1, <2>2 DEF ChannelsOwned
  <2> QED BY <1>4, <2>3 DEF ChannelTold, Serving
<1>8. \A q \in Phones : /\ q = p => ~admitted'[q] /\ opened'[q] = 0
                        /\ q # p => key'[q] = key[q] /\ admitted'[q] = admitted[q]
                        /\ opened[q] = 0 => opened'[q] = 0
  BY ForgetTyped DEF Refuse
<1>9. StructsHeld' /\ ArrivedKeyed'
  BY <1>3, <1>4, <1>8 DEF StructsHeld, ArrivedKeyed
<1> QED BY <1>5, <1>6, <1>7, <1>9

-----------------------------------------------------------------------------
\* The newcomer's channel and its victim.

\* A set of natural numbers that is not empty has a least member.
LEMMA LeastNat ==
    ASSUME NEW T \in SUBSET Nat, T # {}
    PROVE  \E x \in T : \A y \in T : x <= y
<1>1. PICK x \in T : \A y \in T : ~(<<y, x>> \in OpToRel(<, Nat))
  BY WFMin, NatLessThanWellFounded
<1>2. ASSUME NEW y \in T PROVE x <= y
  <2>1. y \in Nat /\ x \in Nat
    OBVIOUS
  <2>2. y < x => <<y, x>> \in OpToRel(<, Nat)
    BY <2>1 DEF OpToRel
  <2>3. ~(y < x)
    BY <1>1, <2>2, Zenon
  <2> QED BY <2>1, <2>3
<1> QED BY <1>2

\* displacementVictim names pending phones only, of the newcomer's key if that is full, and
\* nobody while there is room.
LEMMA VictimPending ==
    ASSUME IInv, NEW k \in Keys, NEW v \in DisplacementVictim(k)
    PROVE  /\ v \in Pending /\ ~vouched[v] /\ Crowded(k)
           /\ SameKey(k) >= MaxPerKey => key[v] = k
           /\ \/ key[v] = k
              \/ Cardinality(Eligible(key[v])) >= Cardinality(Eligible(k))
<1> DEFINE Busiest == {j \in Keys :
               /\ Eligible(j) # {}
               /\ \A i \in Keys : Cardinality(Eligible(i)) <= Cardinality(Eligible(j))}
<1>1. SameKey(k) \in Nat /\ Cardinality(Pending) \in Nat
  BY HoldingPhones, PhonesFinite DEF SameKey
<1>2. CASE SameKey(k) >= MaxPerKey
  <2>1. v \in Oldest(Eligible(k))
    BY <1>2, <1>1, LimitsAssumption DEF DisplacementVictim
  <2> QED BY <1>2, <2>1 DEF Oldest, Eligible, Crowded
<1>3. CASE SameKey(k) < MaxPerKey /\ Cardinality(Pending) < MaxPending
  BY <1>1, <1>3, LimitsAssumption DEF DisplacementVictim
<1>4. CASE SameKey(k) < MaxPerKey /\ Cardinality(Pending) >= MaxPending
  <2>1. v \in Oldest(UNION {Eligible(j) : j \in Busiest})
    BY <1>4, <1>1, LimitsAssumption DEF DisplacementVictim
  <2>2. PICK j \in Busiest : v \in Eligible(j)
    BY <2>1 DEF Oldest
  <2>3. v \in Pending /\ ~vouched[v] /\ key[v] = j
    BY <2>2 DEF Eligible
  <2>4. Cardinality(Eligible(k)) <= Cardinality(Eligible(key[v]))
    BY <2>2, <2>3
  <2>5. Cardinality(Eligible(k)) \in Nat /\ Cardinality(Eligible(key[v])) \in Nat
    BY HoldingPhones, PhonesFinite DEF Eligible
  <2> QED BY <1>1, <1>4, <2>3, <2>4, <2>5, LimitsAssumption DEF Crowded
<1> QED BY <1>1, <1>2, <1>3, <1>4, LimitsAssumption

\* nextFreeChannel: while the session is within its limits and the newcomer has found room,
\* a channel is free, and the search ends at one.
LEMMA FreeChannel ==
    ASSUME IInv, NEW k \in Keys, NEW S \in SUBSET Pending,
           Cardinality(Admitted) < MaxAdmitted, Crowded(k) => S # {}
    PROVE  /\ FirstFree(Without(S)) \in Channels
           /\ Without(S)[FirstFree(Without(S))] = NoPhone
<1> USE DEF IInv
<1> DEFINE map == Without(S)
           Free == {ch \in Channels : map[ch] = NoPhone}
<1>1. map \in [Channels -> Phones \cup {NoPhone}]
  BY DEF Without, TypeOK
<1>2. Free # {}
  <2> SUFFICES ASSUME Free = {} PROVE FALSE
    OBVIOUS
  <2>1. IsFiniteSet(Channels) /\ Cardinality(Channels) = MaxChannel
    BY FS_Interval, LimitsAssumption DEF Channels
  <2>2. map \in [Channels -> Holding \ S]
    <3>1. \A ch \in Channels : map[ch] = phones[ch] /\ phones[ch] \in Phones /\ phones[ch] \notin S
      BY <1>1 DEF Without, TypeOK
    <3>2. \A ch \in Channels : map[ch] \in Holding \ S
      BY <3>1 DEF Holding
    <3> QED BY <1>1, <3>2
  <2>3. Cardinality(Holding \ S) < MaxChannel /\ IsFiniteSet(Holding \ S)
    <3>1. /\ IsFiniteSet(Admitted) /\ IsFiniteSet(Pending) /\ IsFiniteSet(Pending \ S)
          /\ Cardinality(Admitted) \in Nat /\ Cardinality(Pending \ S) \in Nat
      BY HoldingPhones, PhonesFinite
    <3>2. Holding \ S = Admitted \cup (Pending \ S)
      BY HoldingPhones DEF Admitted, Pending
    <3>3. Cardinality(Pending \ S) <= MaxPending
      <4>1. Cardinality(Pending \ S) <= Cardinality(Pending) /\ Cardinality(Pending) \in Nat
        BY HoldingPhones, PhonesFinite
      <4> QED BY <3>1, <4>1, LimitsAssumption DEF WithinLimits
    <3>4. Cardinality(Holding \ S) <= Cardinality(Admitted) + Cardinality(Pending \ S)
      <4>1. Cardinality(Holding \ S) = Cardinality(Admitted) + Cardinality(Pending \ S)
                                         - Cardinality(Admitted \cap (Pending \ S))
        BY <3>1, <3>2, FS_Union
      <4>2. Cardinality(Admitted \cap (Pending \ S)) \in Nat
        BY HoldingPhones, PhonesFinite
      <4> QED BY <3>1, <4>1, <4>2
    <3>5. IsFiniteSet(Holding \ S) /\ Cardinality(Holding \ S) \in Nat
      BY HoldingPhones, PhonesFinite
    <3> QED BY <3>1, <3>3, <3>4, <3>5, LimitsAssumption
  <2>4. \E c, d \in Channels : c # d /\ map[c] = map[d]
    BY <2>1, <2>2, <2>3, FS_PigeonHole
  <2>5. \A c, d \in Channels : map[c] = map[d] => c = d
    <3>1. \A c \in Channels : map[c] # NoPhone /\ map[c] = phones[c]
      BY DEF Without
    <3> QED BY <3>1 DEF ChannelsOwned
  <2> QED BY <2>4, <2>5
<1>3. \A ch \in Channels : Distance(ch) \in Nat
  BY LimitsAssumption DEF Distance, TypeOK, Channels
<1>4. PICK d \in {Distance(ch) : ch \in Free} : \A e \in {Distance(ch) : ch \in Free} : d <= e
  <2>1. {Distance(ch) : ch \in Free} \in SUBSET Nat /\ {Distance(ch) : ch \in Free} # {}
    BY <1>2, <1>3
  <2> QED BY <2>1, LeastNat
<1>5. PICK ch \in Free : d = Distance(ch)
  BY <1>4
<1>6. \A other \in Channels : map[other] = NoPhone => Distance(ch) <= Distance(other)
  BY <1>4, <1>5
<1>7. \E c \in Channels :
        /\ map[c] = NoPhone
        /\ \A other \in Channels : map[other] = NoPhone => Distance(c) <= Distance(other)
  BY <1>5, <1>6
<1> HIDE DEF map
<1>8. FirstFree(map) \in Channels /\ map[FirstFree(map)] = NoPhone
  BY <1>7 DEF FirstFree
<1> QED BY <1>8 DEF map

-----------------------------------------------------------------------------
\* servePhone registers a newcomer.

\* Who is in session.phones afterwards, and with which key.
LEMMA RegisterMap ==
    ASSUME IInv, NEW p \in Phones, Register(p)
    PROVE  LET victim == DisplacementVictim(key[p])
               ch     == FirstFree(Without(victim))
           IN  /\ victim \subseteq Pending /\ (Crowded(key[p]) => victim # {})
               /\ ch \in Channels /\ Without(victim)[ch] = NoPhone
               /\ phones' = [Without(victim) EXCEPT ![ch] = p]
               /\ phones' \in [Channels -> Phones \cup {NoPhone}]
               /\ p \notin Holding /\ p \notin victim
               /\ Holding' = (Holding \ victim) \cup {p}
               /\ Admitted' = Admitted
               /\ Pending' = (Pending \ victim) \cup {p}
<1> USE DEF IInv
<1> DEFINE victim == DisplacementVictim(key[p])
           ch     == FirstFree(Without(victim))
<1>1. key[p] \in Keys /\ p \notin Holding
  BY NotHolding DEF Register, ArrivedKeyed, Serving
<1>2. victim \subseteq Pending
  BY <1>1, VictimPending
<1>3. p \notin victim
  BY <1>1, <1>2, HoldingPhones
<1>4. /\ Crowded(key[p]) => victim # {}
      /\ Cardinality(Admitted) < MaxAdmitted
      /\ phones' = [Without(victim) EXCEPT ![ch] = p]
      /\ Forget(victim)
  BY DEF Register
<1> HIDE DEF victim
<1>5. ch \in Channels /\ Without(victim)[ch] = NoPhone
  BY <1>1, <1>2, <1>4, FreeChannel
<1> HIDE DEF ch
<1>6. Without(victim) \in [Channels -> Phones \cup {NoPhone}]
  BY DEF Without, TypeOK
<1>7. phones' \in [Channels -> Phones \cup {NoPhone}]
  BY <1>4, <1>5, <1>6
<1>8. \A c \in Channels : phones'[c] = IF c = ch THEN p ELSE Without(victim)[c]
  BY <1>4, <1>5, <1>6
<1>9. \A c \in Channels : Without(victim)[c] = IF phones[c] \in victim THEN NoPhone ELSE phones[c]
  BY DEF Without
<1>10. Holding' = (Holding \ victim) \cup {p}
  <2>1. ASSUME NEW q \in Phones, q # p
        PROVE  (\E c \in Channels : phones'[c] = q)
                  <=> (\E c \in Channels : phones[c] = q) /\ q \notin victim
    <3>1. q # NoPhone
      BY LimitsAssumption
    <3>2. \A c \in Channels : phones'[c] = q <=> phones[c] = q /\ q \notin victim
      BY <1>5, <1>8, <1>9, <2>1, <3>1
    <3> QED BY <3>2
  <2>2. \E c \in Channels : phones'[c] = p
    BY <1>5, <1>8
  <2> QED BY <2>1, <2>2, <1>3 DEF Holding
<1>11. ~admitted[p]
  BY <1>1 DEF StructsHeld
<1>12. \A q \in Phones : q \notin victim => admitted'[q] = admitted[q]
  BY <1>4, ForgetTyped
<1>13. Admitted' = Admitted
  BY <1>2, <1>3, <1>10, <1>11, <1>12, HoldingPhones DEF Admitted, Pending
<1>14. Pending' = (Pending \ victim) \cup {p}
  BY <1>3, <1>10, <1>11, <1>12, HoldingPhones DEF Pending
<1> QED BY <1>1, <1>2, <1>3, <1>4, <1>5, <1>7, <1>10, <1>13, <1>14 DEF victim, ch

LEMMA RegisterLimits ==
    ASSUME IInv, NEW p \in Phones, Register(p)
    PROVE  WithinLimits'
<1> USE DEF IInv
<1> DEFINE victim == DisplacementVictim(key[p])
           Of(k)  == {q \in Pending : key[q] = k}
<1>1. /\ victim \subseteq Pending /\ (Crowded(key[p]) => victim # {})
      /\ p \notin Holding /\ p \notin victim
      /\ Admitted' = Admitted /\ Pending' = (Pending \ victim) \cup {p}
  BY RegisterMap
<1>2. key[p] \in Keys /\ p \notin Pending
  BY <1>1, HoldingPhones DEF Register, ArrivedKeyed
<1>3. \A v \in victim : SameKey(key[p]) >= MaxPerKey => key[v] = key[p]
  BY <1>2, VictimPending
<1>4. \A q \in Phones : q \notin victim => key'[q] = key[q]
  BY ForgetTyped DEF Register
<1> HIDE DEF victim
<1>5. Cardinality(Pending)' <= MaxPending
  <2>1. /\ IsFiniteSet(Pending) /\ Cardinality(Pending) \in Nat
        /\ IsFiniteSet(Pending \ victim) /\ Cardinality(Pending \ victim) \in Nat
    BY HoldingPhones, PhonesFinite
  <2>2. Cardinality((Pending \ victim) \cup {p}) = Cardinality(Pending \ victim) + 1
    BY <1>2, <2>1, FS_AddElement
  <2>3. Cardinality(Pending \ victim) < MaxPending
    <3>1. CASE victim = {}
      BY <1>1, <2>1, <3>1, LimitsAssumption DEF Crowded
    <3>2. CASE victim # {}
      <4>1. Pending \ victim # Pending
        BY <1>1, <3>2
      <4>2. /\ Cardinality(Pending \ victim) <= Cardinality(Pending)
            /\ Cardinality(Pending \ victim) # Cardinality(Pending)
        BY <2>1, <4>1, FS_Subset
      <4> QED BY <2>1, <4>2, LimitsAssumption DEF WithinLimits
    <3> QED BY <3>1, <3>2
  <2> QED BY <1>1, <2>1, <2>2, <2>3, LimitsAssumption
<1>6. ASSUME NEW k \in Keys, k # key[p] PROVE SameKey(k)' <= MaxPerKey
  <2>1. Of(k)' \subseteq Of(k)
    BY <1>1, <1>2, <1>4, <1>6, HoldingPhones
  <2>2. /\ Cardinality(Of(k)') \in Nat /\ Cardinality(Of(k)) \in Nat
        /\ Cardinality(Of(k)') <= Cardinality(Of(k))
    BY <2>1, HoldingPhones, PhonesFinite
  <2> QED BY <2>2, LimitsAssumption DEF WithinLimits, SameKey
<1>7. ASSUME NEW k \in Keys, k = key[p] PROVE SameKey(k)' <= MaxPerKey
  <2>1. /\ IsFiniteSet(Of(k)) /\ Cardinality(Of(k)) \in Nat
        /\ IsFiniteSet(Of(k) \ victim) /\ Cardinality(Of(k) \ victim) \in Nat
        /\ Cardinality(Of(k) \ victim) <= Cardinality(Of(k))
    BY HoldingPhones, PhonesFinite
  <2>2. Cardinality((Of(k) \ victim) \cup {p}) = Cardinality(Of(k) \ victim) + 1
    BY <1>2, <2>1, FS_AddElement
  <2>3. Cardinality(Of(k) \ victim) < MaxPerKey
    <3>1. CASE SameKey(k) < MaxPerKey
      BY <2>1, <3>1, LimitsAssumption DEF SameKey
    <3>2. CASE SameKey(k) >= MaxPerKey
      <4>1. PICK v \in victim : v \in Of(k)
        BY <1>1, <1>3, <1>7, <3>2 DEF Crowded
      <4>2. Cardinality(Of(k) \ victim) # Cardinality(Of(k))
        BY <2>1, <4>1, FS_Subset
      <4> QED BY <2>1, <4>2, LimitsAssumption DEF WithinLimits, SameKey
    <3> QED BY <2>1, <3>1, <3>2, LimitsAssumption DEF SameKey
  <2>4. Of(k)' \subseteq (Of(k) \ victim) \cup {p}
    BY <1>1, <1>4, HoldingPhones
  <2>5. IsFiniteSet((Of(k) \ victim) \cup {p})
    BY <2>1, FS_AddElement
  <2>6. Cardinality(Of(k)') <= Cardinality((Of(k) \ victim) \cup {p}) /\ Cardinality(Of(k)') \in Nat
    BY <2>4, <2>5, FS_Subset, FS_CardinalityType
  <2> QED BY <2>1, <2>2, <2>3, <2>6, LimitsAssumption DEF SameKey
<1>8. Cardinality(Admitted)' <= MaxAdmitted
  BY <1>1 DEF WithinLimits
<1> QED BY <1>5, <1>6, <1>7, <1>8 DEF WithinLimits

LEMMA RegisterInv ==
    ASSUME IInv, NEW p \in Phones, Register(p)
    PROVE  IInv'
<1> USE DEF IInv
<1> DEFINE victim == DisplacementVictim(key[p])
           ch     == FirstFree(Without(victim))
<1>1. /\ victim \subseteq Pending /\ ch \in Channels /\ Without(victim)[ch] = NoPhone
      /\ phones' = [Without(victim) EXCEPT ![ch] = p]
      /\ phones' \in [Channels -> Phones \cup {NoPhone}]
      /\ p \notin Holding /\ p \notin victim
      /\ Holding' = (Holding \ victim) \cup {p}
  BY RegisterMap
<1>2. /\ nextCh' = ch /\ chan' = [chan EXCEPT ![p] = ch]
      /\ Forget(victim) /\ Shutdown(victim)
      /\ ppc' = [ppc EXCEPT ![p] = "registered"] /\ ppc[p] = "arrived"
      /\ UNCHANGED <<sess, bclose, draining>>
  BY DEF Register
<1> HIDE DEF victim
<1> HIDE DEF ch
<1>3. /\ sock' \in [Phones -> {"open", "closing", "closed"}]
      /\ \A q \in Phones : sock'[q] = "open" => sock[q] = "open" /\ q \notin victim
  BY <1>2 DEF TypeOK, Shutdown
<1>4. /\ ppc'[p] = "registered" /\ chan'[p] = ch
      /\ \A q \in Phones : q # p => ppc'[q] = ppc[q] /\ chan'[q] = chan[q]
  BY <1>2 DEF TypeOK
<1>5. ch \in 0..MaxChannel
  BY <1>1, LimitsAssumption DEF Channels
<1>6. TypeOK'
  <2>1. /\ ppc' \in [Phones -> {"idle", "arrived", "registered", "serving"}]
        /\ chan' \in [Phones -> 0..MaxChannel] /\ nextCh' \in 0..MaxChannel
    BY <1>2, <1>5 DEF TypeOK
  <2> QED BY <1>1, <1>2, <1>3, <2>1, ForgetTyped DEF TypeOK
<1>7. WithinLimits'
  BY RegisterLimits
<1>8. /\ phones'[ch] = p
      /\ \A c \in Channels :
            c # ch => phones'[c] = IF phones[c] \in victim THEN NoPhone ELSE phones[c]
  BY <1>1 DEF Without
<1>9. ChannelsOwned'
  <2>1. ASSUME NEW c \in Channels, phones'[c] # NoPhone
        PROVE  chan'[phones'[c]] = c /\ ppc'[phones'[c]] \in {"registered", "serving"}
    <3>1. CASE c = ch
      BY <1>4, <1>8, <3>1
    <3>2. CASE c # ch
      <4>1. phones'[c] = phones[c] /\ phones[c] \in Phones
        BY <1>1, <1>8, <2>1, <3>2
      <4>2. phones[c] # p
        BY <1>1 DEF Holding
      <4> QED BY <1>4, <4>1, <4>2, <2>1 DEF ChannelsOwned
    <3> QED BY <3>1, <3>2
  <2>2. ASSUME NEW q \in Phones, ppc'[q] \in {"registered", "serving"}, sock'[q] = "open"
        PROVE  phones'[chan'[q]] = q
    <3>1. CASE q = p
      BY <1>4, <1>8, <3>1
    <3>2. CASE q # p
      <4>1. phones[chan[q]] = q /\ chan[q] \in Channels /\ q \notin victim
        BY <1>3, <1>4, <2>2, <3>2 DEF ChannelsOwned, ChannelTold, Serving
      <4>2. chan[q] # ch
        BY <1>1, <4>1, LimitsAssumption DEF Without
      <4> QED BY <1>4, <1>8, <3>2, <4>1, <4>2
    <3> QED BY <3>1, <3>2
  <2> QED BY <2>1, <2>2 DEF ChannelsOwned
<1>10. ChannelTold'
  BY <1>1, <1>4 DEF ChannelTold, Serving
<1>11. \A q \in Phones : /\ q \in victim => ~admitted'[q] /\ opened'[q] = 0
                         /\ q \notin victim => key'[q] = key[q] /\ admitted'[q] = admitted[q]
                         /\ opened[q] = 0 => opened'[q] = 0
  BY <1>2, ForgetTyped
<1>12. StructsHeld'
  BY <1>1, <1>4, <1>11 DEF StructsHeld
<1>13. ArrivedKeyed'
  <2>1. \A q \in victim : ppc[q] # "arrived" /\ q \in Phones
    BY <1>1, NotHolding, HoldingPhones DEF Serving
  <2> QED BY <1>4, <1>11, <2>1 DEF ArrivedKeyed
<1> QED BY <1>6, <1>7, <1>9, <1>10, <1>12, <1>13

-----------------------------------------------------------------------------
\* The theorems.

\* IInv is an invariant of the session: every step of servePhone, of the bridge's loop, of
\* the timers and of Drain keeps it.
THEOREM SessionInductive == Spec => []IInv
<1>1. Init => IInv
  BY IInvInit
<1>2. IInv /\ [Next]_vars => IInv'
  <2> SUFFICES ASSUME IInv, [Next]_vars PROVE IInv'
    OBVIOUS
  <2>1. ASSUME NEW p \in Phones, NEW k \in Keys, Arrive(p, k) PROVE IInv'
    BY <2>1, ArriveInv
  <2>2. ASSUME NEW p \in Phones, PhoneStep(p) \/ ShutdownRuns(p) \/ AdmissionTimeout(p) PROVE IInv'
    <3>1. CASE Refuse(p)
      BY <3>1, RefuseInv
    <3>2. CASE Register(p)
      BY <3>2, RegisterInv
    <3>3. CASE ServePhoneReturns(p)
      BY <3>3, ReturnInv
    <3>4. CASE AdmissionTimeout(p)
      BY <3>4, CloseInv
    <3>5. CASE SendOpen(p) \/ ShutdownRuns(p)
      <4>1. UNCHANGED <<phones, nextCh, chan, key, opened, frames, admitted>>
        BY <3>5 DEF SendOpen, ShutdownRuns, structVars
      <4> QED BY <3>5, <4>1, OutsideInv
    <3> QED BY <2>2, <3>1, <3>2, <3>3, <3>4, <3>5 DEF PhoneStep
  <2>3. ASSUME NEW ch \in Channels, Frame(ch) \/ FrameFails(ch) PROVE IInv'
    BY <2>3, FrameInv
  <2>4. ASSUME NEW ch \in Channels, NEW p \in Phones, Vouch(ch, p) PROVE IInv'
    BY <2>4, OutsideInv DEF Vouch
  <2>5. CASE Detach \/ Drain
    <3>1. UNCHANGED <<phones, nextCh, chan, key, opened, frames, admitted>>
      BY <2>5 DEF Detach, Drain, structVars
    <3> QED BY <2>5, <3>1, OutsideInv
  <2>6. CASE \/ ClosePhone \/ DrainClosesPhones \/ CloseAllPhones
             \/ \E ch \in Channels, p \in Phones : CloseFromBridge(ch, p)
    BY <2>6, CloseInv
  <2>7. CASE UNCHANGED vars
    BY <2>7 DEF vars, IInv, TypeOK, ChannelsOwned, WithinLimits, ChannelTold, StructsHeld,
                ArrivedKeyed, Holding, Admitted, Pending, SameKey, Serving
  <2> QED BY <2>1, <2>2, <2>3, <2>4, <2>5, <2>6, <2>7 DEF Next, BridgeFrame
<1> QED BY <1>1, <1>2, PTL DEF Spec

\* The session's state is always well typed: channels, ranks and frame counts stay in range.
THEOREM TypeCorrect == Spec => []TypeOK
BY SessionInductive, PTL DEF IInv

\* session.phones: a channel in use is of one phone, the one that was told it and whose
\* servePhone runs, and a phone whose socket nobody has closed keeps its channel, however
\* returns, timers, closes and reuses of the number interleave.
THEOREM ChannelsHaveOneOwner == Spec => []ChannelsOwned
BY SessionInductive, PTL DEF IInv

\* countBridgeFrame, servePhone: the session's limits on admitted phones, pending phones and
\* pending phones of one key hold at all times.
THEOREM LimitsHold == Spec => []WithinLimits
BY SessionInductive, PTL DEF IInv

\* Only servePhone's own critical section registers a phone.
LEMMA OnlyRegister ==
    ASSUME IInv, Next, NEW p \in Phones, ppc[p] = "arrived", ppc'[p] = "registered"
    PROVE  Register(p)
<1> USE DEF IInv
<1>1. ASSUME NEW q \in Phones, NEW k \in Keys, Arrive(q, k) PROVE FALSE
  BY <1>1 DEF Arrive, TypeOK
<1>2. ASSUME NEW q \in Phones, Refuse(q) \/ SendOpen(q) \/ ServePhoneReturns(q) PROVE FALSE
  BY <1>2 DEF Refuse, SendOpen, ServePhoneReturns, TypeOK
<1>3. ASSUME NEW q \in Phones, Register(q) PROVE Register(p)
  <2>1. q = p
    BY <1>3 DEF Register, TypeOK
  <2> QED BY <1>3, <2>1
<1>4. ASSUME NEW q \in Phones, ShutdownRuns(q) \/ AdmissionTimeout(q) PROVE FALSE
  BY <1>4 DEF ShutdownRuns, AdmissionTimeout
<1>5. ASSUME BridgeFrame PROVE FALSE
  BY <1>5 DEF BridgeFrame, Frame, FrameFails, CloseFromBridge, Vouch
<1>6. ASSUME ClosePhone \/ Detach \/ CloseAllPhones \/ Drain \/ DrainClosesPhones PROVE FALSE
  BY <1>6 DEF ClosePhone, Detach, CloseAllPhones, Drain, DrainClosesPhones
<1> QED BY <1>1, <1>2, <1>3, <1>4, <1>5, <1>6 DEF Next, PhoneStep

\* displacementVictim: a newcomer takes the place of a pending phone only that the bridge
\* has not vouched for, of its own key or of one that crowds the session as much.
THEOREM DisplacementIsFair == Spec => DisplacementFair
<1> DEFINE Fair(p, v) ==
        /\ ppc[p] = "arrived" /\ ppc'[p] = "registered"
        /\ v \in Holding /\ \A ch \in Channels : phones'[ch] # v
        => /\ ~admitted[v] /\ ~vouched[v]
           /\ \/ key[v] = key[p]
              \/ Cardinality(Eligible(key[v])) >= Cardinality(Eligible(key[p]))
<1>1. IInv /\ [Next]_vars => [\A p, v \in Phones : Fair(p, v)]_vars
  <2> SUFFICES ASSUME IInv, Next, NEW p \in Phones, NEW v \in Phones,
                      ppc[p] = "arrived", ppc'[p] = "registered",
                      v \in Holding, \A ch \in Channels : phones'[ch] # v
               PROVE  /\ ~admitted[v] /\ ~vouched[v]
                      /\ \/ key[v] = key[p]
                         \/ Cardinality(Eligible(key[v])) >= Cardinality(Eligible(key[p]))
    BY DEF vars
  <2>1. Register(p)
    BY OnlyRegister
  <2>2. Holding' = (Holding \ DisplacementVictim(key[p])) \cup {p}
    BY <2>1, RegisterMap
  <2>3. v \in DisplacementVictim(key[p])
    BY <2>2 DEF Holding
  <2>4. key[p] \in Keys
    BY DEF IInv, ArrivedKeyed
  <2>5. v \in Pending /\ ~vouched[v]
    BY <2>3, <2>4, VictimPending
  <2>6. key[v] = key[p] \/ Cardinality(Eligible(key[v])) >= Cardinality(Eligible(key[p]))
    BY <2>3, <2>4, VictimPending
  <2> QED BY <2>5, <2>6 DEF Pending
<1> QED BY <1>1, SessionInductive, PTL DEF Spec, DisplacementFair
=============================================================================
