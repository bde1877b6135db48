--------------------------- MODULE AdmissionProofs ---------------------------
(***************************************************************************)
(* Proofs about Admission, for any phones, codes, connections and          *)
(* revocations: type correctness, the inductive invariant behind           *)
(* revocation, the single use of codes, and the refinement of TrustLedger. *)
(***************************************************************************)
EXTENDS Admission, TLAPS

(***************************************************************************)
(* The inductive invariant.                                                *)
(***************************************************************************)
\* A daemon that is down has no goroutines.
DownIsQuiet ==
    daemon = "down" =>
        /\ \A c \in Conns : pc[c] = "idle"
        /\ \A r \in Revokers : rpc[r] = "idle"

\* A connection in Server.conns has said which phone it is.
KnowsPhone == \A c \in Conns : pc[c] # "idle" => phone[c] \in Phones

\* Only a tunnel is published, as the phone of its Hello; a revocation knows its phone.
Identified ==
    /\ \A c \in Conns : deviceID[c] = IF pc[c] = "tunnel" THEN phone[c] ELSE NoPhone
    /\ \A r \in Revokers : rpc[r] # "idle" => target[r] \in Phones

\* Outside a revalidation an attempt to publish is left.
AttemptsLeft ==
    \A c \in Conns : pc[c] \notin {"revalidate", "tunnel"} => attempts[c] < MaxAttempts

\* No captured generation is ahead of the server's.
GenerationsBehind == \A c \in Conns : gen[c] <= generation

\* A handshake about to publish under the current generation has seen its phone
\* on disk, or the revocation that removed it since has yet to advance the generation,
\* or the command line removed it behind the daemon's back.
AboutToPublish ==
    \A c \in Conns :
        pc[c] = "publish" /\ gen[c] = generation =>
            \/ phone[c] \in devices
            \/ \E r \in Revokers : rpc[r] = "bump" /\ target[r] = phone[c]
            \/ <<c, phone[c]>> \in missed

\* A code somebody was paired with, or is being paired with, is out of the pool for
\* good, and one connection at most is being paired with it.
CodesSpent ==
    /\ codes \subseteq issued
    /\ \A k \in Codes : pairedWith[k] # {} => k \in issued \ codes
    /\ \A c \in Conns : pc[c] = "record" =>
        proof[c] \in issued \ codes /\ pairedWith[proof[c]] = {}
    /\ \A c, d \in Conns :
        pc[c] = "record" /\ pc[d] = "record" /\ proof[c] = proof[d] => c = d

Typed == TypeOK /\ AttemptsLeft /\ KnowsPhone

IInv ==
    /\ Typed
    /\ DownIsQuiet
    /\ Identified
    /\ GenerationsBehind
    /\ AboutToPublish
    /\ CodesSpent
    /\ RevokedDisconnected

(***************************************************************************)
(* Type correctness.                                                       *)
(***************************************************************************)
\* Leaving Server.conns keeps the types of what it resets.
LEMMA LeaveType ==
    ASSUME Typed, NEW c \in Conns, Leave(c),
           UNCHANGED <<daemon, devices, codeVars, generation>>
    PROVE  Typed'
BY ConstantsAssumption DEF Typed, AttemptsLeft, KnowsPhone, TypeOK, Leave, codeVars, ConnPC, RevokePC

\* Admission.TypeOK is preserved by every step of a connection's goroutine.
LEMMA ConnStepType ==
    ASSUME Typed, NEW c \in Conns, ConnStep(c)
    PROVE  Typed'
<1> USE ConstantsAssumption
<1>1. CASE HelloAccepted(c)
  BY <1>1 DEF Typed, AttemptsLeft, KnowsPhone, TypeOK, HelloAccepted, Goto, ConnPC, RevokePC, codeVars, revokeVars
<1>2. CASE HandshakeFails(c)
  BY <1>2, LeaveType DEF HandshakeFails
<1>3. CASE CaptureGeneration(c)
  BY <1>3 DEF Typed, AttemptsLeft, KnowsPhone, TypeOK, CaptureGeneration, Goto, ConnPC, RevokePC, codeVars, revokeVars
<1>4. CASE ReadOutstanding(c)
  BY <1>4 DEF Typed, AttemptsLeft, KnowsPhone, TypeOK, ReadOutstanding, Goto, ConnPC, RevokePC, codeVars, revokeVars
<1>5. CASE Finish(c)
  BY <1>5 DEF Typed, AttemptsLeft, KnowsPhone, TypeOK, Finish, ConnPC, RevokePC, codeVars, revokeVars
<1>6. CASE FinishUntrusted(c)
  BY <1>6, LeaveType DEF FinishUntrusted
<1>7. CASE Consume(c)
  BY <1>7 DEF Typed, AttemptsLeft, KnowsPhone, TypeOK, Consume, Goto, ConnPC, RevokePC, codeVars, revokeVars
<1>8. CASE ConsumeFails(c)
  BY <1>8, LeaveType DEF ConsumeFails
<1>9. CASE AddTrusted(c)
  BY <1>9 DEF Typed, AttemptsLeft, KnowsPhone, TypeOK, AddTrusted, Goto, ConnPC, RevokePC, codeVars, revokeVars
<1>10. CASE AddTrustedFails(c)
  BY <1>10, LeaveType DEF AddTrustedFails
<1>11. CASE Publish(c)
  BY <1>11 DEF Typed, AttemptsLeft, KnowsPhone, TypeOK, Publish, Goto, ConnPC, RevokePC, codeVars, revokeVars
<1>12. CASE PublishStale(c)
  BY <1>12 DEF Typed, AttemptsLeft, KnowsPhone, TypeOK, PublishStale, Goto, ConnPC, RevokePC, codeVars, revokeVars
<1>13. CASE Revalidate(c)
  BY <1>13 DEF Typed, AttemptsLeft, KnowsPhone, TypeOK, Revalidate, Goto, ConnPC, RevokePC, codeVars, revokeVars
<1>14. CASE RevalidateFails(c)
  BY <1>14, LeaveType DEF RevalidateFails
<1>15. CASE RenameRefused(c)
  BY <1>15, LeaveType DEF RenameRefused
<1>16. CASE TunnelEnds(c)
  BY <1>16, LeaveType DEF TunnelEnds
<1> QED
  BY <1>1, <1>2, <1>3, <1>4, <1>5, <1>6, <1>7, <1>8, <1>9, <1>10, <1>11, <1>12, <1>13,
     <1>14, <1>15, <1>16 DEF ConnStep, Decide

\* Admission.TypeOK is preserved by every step of a revocation.
LEMMA RevokeStepType ==
    ASSUME Typed, NEW r \in Revokers, RevokeStep(r)
    PROVE  Typed'
<1> USE DEF Typed, AttemptsLeft, KnowsPhone, TypeOK, codeVars, connVars, ConnPC, RevokePC
<1>1. CASE StoreRevoke(r)
  BY <1>1 DEF StoreRevoke
<1>2. CASE StoreRevokeFails(r)
  BY <1>2 DEF StoreRevokeFails
<1>3. CASE BumpGeneration(r)
  BY <1>3 DEF BumpGeneration, Published
<1>4. ASSUME NEW c \in Conns, CloseMatching(r, c)
      PROVE  Typed'
  BY <1>4 DEF CloseMatching
<1>5. CASE RevokeReturns(r)
  BY <1>5 DEF RevokeReturns
<1> QED
  BY <1>1, <1>2, <1>3, <1>4, <1>5 DEF RevokeStep

\* Admission.TypeOK is preserved by every step of the specification.
LEMMA TypedStep == Typed /\ [Next]_vars => Typed'
<1> SUFFICES ASSUME Typed, [Next]_vars PROVE Typed'
  OBVIOUS
<1> USE ConstantsAssumption
    DEF codeVars, connVars, revokeVars
<1>1. ASSUME NEW k \in Codes, Issue(k) \/ Expire(k) PROVE Typed'
  BY <1>1 DEF Issue, Expire, Typed, AttemptsLeft, KnowsPhone, TypeOK
<1>2. ASSUME NEW c \in Conns, NEW p \in Phones, NEW k \in Codes \cup {NoCode},
             Connect(c, p, k)
      PROVE  Typed'
  BY <1>2 DEF Connect, Goto, Typed, AttemptsLeft, KnowsPhone, TypeOK, ConnPC
<1>3. ASSUME NEW c \in Conns, ConnStep(c) PROVE Typed'
  BY <1>3, ConnStepType
<1>4. ASSUME NEW r \in Revokers, NEW p \in Phones, RevokeCalled(r, p) PROVE Typed'
  BY <1>4 DEF RevokeCalled, Typed, AttemptsLeft, KnowsPhone, TypeOK, RevokePC
<1>5. ASSUME NEW r \in Revokers, RevokeStep(r) PROVE Typed'
  BY <1>5, RevokeStepType
<1>6. ASSUME NEW p \in Phones, CLIRevoke(p) PROVE Typed'
  BY <1>6 DEF CLIRevoke, PassedLookup, Typed, AttemptsLeft, KnowsPhone, TypeOK
<1>7. CASE StopDaemon
  BY <1>7 DEF StopDaemon, Typed, AttemptsLeft, KnowsPhone, TypeOK
<1>8. CASE DaemonExits
  BY <1>8 DEF DaemonExits, Typed, AttemptsLeft, KnowsPhone, TypeOK, ConnPC, RevokePC
<1>9. CASE DaemonStarts \/ ControlServes
  BY <1>9 DEF DaemonStarts, ControlServes, Typed, AttemptsLeft, KnowsPhone, TypeOK
<1>10. CASE UNCHANGED vars
  BY <1>10 DEF vars, Typed, AttemptsLeft, KnowsPhone, TypeOK
<1> QED
  BY <1>1, <1>2, <1>3, <1>4, <1>5, <1>6, <1>7, <1>8, <1>9, <1>10 DEF Next

\* Admission.TypeOK holds in every reachable state. It is inductive together with two
\* facts: attempts stay bounded, and a live connection has a phone.
THEOREM TypeCorrect == Spec => []TypeOK
<1>1. Init => Typed
  BY ConstantsAssumption
  DEF Init, Typed, AttemptsLeft, KnowsPhone, TypeOK, ConnPC, RevokePC
<1>2. Typed => TypeOK
  BY DEF Typed
<1> QED
  BY <1>1, <1>2, TypedStep, PTL DEF Spec

(***************************************************************************)
(* The inductive invariant is preserved.                                   *)
(***************************************************************************)
\* A connection that leaves takes nothing with it that another one relies on.
LEMMA LeaveInv ==
    ASSUME IInv, NEW c \in Conns, pc[c] # "idle", Leave(c),
           UNCHANGED <<daemon, devices, codeVars, generation>>
    PROVE  IInv'
<1> USE ConstantsAssumption DEF IInv, codeVars
<1>1. Typed'
  BY LeaveType
<1>2. DownIsQuiet' /\ Identified' /\ GenerationsBehind' /\ AttemptsLeft'
  BY DEF Typed, TypeOK, Leave, DownIsQuiet, Identified, GenerationsBehind, AttemptsLeft
<1>3. AboutToPublish'
  BY DEF Typed, TypeOK, Leave, AboutToPublish
<1>4. CodesSpent'
  BY DEF Typed, TypeOK, Leave, CodesSpent
<1>5. RevokedDisconnected'
  BY DEF Typed, TypeOK, Leave, RevokedDisconnected, Serves, Doomed
<1> QED
  BY <1>1, <1>2, <1>3, <1>4, <1>5

\* IInv is preserved by every step of a connection's goroutine.
LEMMA ConnStepInv ==
    ASSUME IInv, NEW c \in Conns, ConnStep(c)
    PROVE  IInv'
<1> USE ConstantsAssumption DEF IInv
<1>0. Typed'
  BY ConnStepType
<1>1. CASE HelloAccepted(c)
  <2> USE <1>1 DEF Typed, TypeOK, HelloAccepted, Goto, codeVars, revokeVars
  <2>1. DownIsQuiet' /\ Identified' /\ GenerationsBehind'
    BY DEF DownIsQuiet, Identified, GenerationsBehind, KnowsPhone
  <2>2. AboutToPublish'
    BY DEF AboutToPublish, GenerationsBehind
  <2>3. CodesSpent'
    BY DEF CodesSpent
  <2>4. RevokedDisconnected'
    BY DEF RevokedDisconnected, AboutToPublish, Identified, Serves, Doomed
  <2> QED
    BY <1>0, <2>1, <2>2, <2>3, <2>4
<1>2. CASE HandshakeFails(c)
  BY <1>2, LeaveInv DEF HandshakeFails
<1>3. CASE CaptureGeneration(c)
  <2> USE <1>3 DEF Typed, TypeOK, CaptureGeneration, Goto, codeVars, revokeVars
  <2>1. DownIsQuiet' /\ Identified' /\ GenerationsBehind'
    BY DEF DownIsQuiet, Identified, GenerationsBehind, KnowsPhone
  <2>2. AboutToPublish'
    BY DEF AboutToPublish, GenerationsBehind
  <2>3. CodesSpent'
    BY DEF CodesSpent
  <2>4. RevokedDisconnected'
    BY DEF RevokedDisconnected, AboutToPublish, Identified, Serves, Doomed
  <2> QED
    BY <1>0, <2>1, <2>2, <2>3, <2>4
<1>4. CASE ReadOutstanding(c)
  <2> USE <1>4 DEF Typed, TypeOK, ReadOutstanding, Goto, codeVars, revokeVars
  <2>1. DownIsQuiet' /\ Identified' /\ GenerationsBehind'
    BY DEF DownIsQuiet, Identified, GenerationsBehind, KnowsPhone
  <2>2. AboutToPublish'
    BY DEF AboutToPublish, GenerationsBehind
  <2>3. CodesSpent'
    BY DEF CodesSpent
  <2>4. RevokedDisconnected'
    BY DEF RevokedDisconnected, AboutToPublish, Identified, Serves, Doomed
  <2> QED
    BY <1>0, <2>1, <2>2, <2>3, <2>4
<1>5. CASE Finish(c)
  <2> USE <1>5 DEF Typed, TypeOK, Finish, Goto, codeVars, revokeVars, IsTrusted
  <2>1. DownIsQuiet' /\ Identified' /\ GenerationsBehind'
    BY DEF DownIsQuiet, Identified, GenerationsBehind, KnowsPhone
  <2>2. AboutToPublish'
    BY DEF AboutToPublish, GenerationsBehind
  <2>3. CodesSpent'
    BY DEF CodesSpent
  <2>4. RevokedDisconnected'
    BY DEF RevokedDisconnected, AboutToPublish, Identified, Serves, Doomed
  <2> QED
    BY <1>0, <2>1, <2>2, <2>3, <2>4
<1>6. CASE FinishUntrusted(c)
  BY <1>6, LeaveInv DEF FinishUntrusted
<1>7. CASE Consume(c)
  <2> USE <1>7 DEF Typed, TypeOK, Consume, Goto, codeVars, revokeVars
  <2>1. DownIsQuiet' /\ Identified' /\ GenerationsBehind'
    BY DEF DownIsQuiet, Identified, GenerationsBehind, KnowsPhone
  <2>2. AboutToPublish'
    BY DEF AboutToPublish, GenerationsBehind
  <2>3. CodesSpent'
    BY DEF CodesSpent
  <2>4. RevokedDisconnected'
    BY DEF RevokedDisconnected, AboutToPublish, Identified, Serves, Doomed
  <2> QED
    BY <1>0, <2>1, <2>2, <2>3, <2>4
<1>8. CASE ConsumeFails(c)
  BY <1>8, LeaveInv DEF ConsumeFails
<1>9. CASE AddTrusted(c)
  <2> USE <1>9 DEF Typed, TypeOK, AddTrusted, Goto, codeVars, revokeVars
  <2>1. DownIsQuiet' /\ Identified' /\ GenerationsBehind'
    BY DEF DownIsQuiet, Identified, GenerationsBehind, KnowsPhone
  <2>2. AboutToPublish'
    BY DEF AboutToPublish, GenerationsBehind
  <2>3. CodesSpent'
    BY DEF CodesSpent
  <2>4. RevokedDisconnected'
    BY DEF RevokedDisconnected, AboutToPublish, Identified, Serves, Doomed
  <2> QED
    BY <1>0, <2>1, <2>2, <2>3, <2>4
<1>10. CASE AddTrustedFails(c)
  BY <1>10, LeaveInv DEF AddTrustedFails
<1>11. CASE Publish(c)
  <2> USE <1>11 DEF Typed, TypeOK, Publish, Goto, codeVars, revokeVars
  <2>1. DownIsQuiet' /\ Identified' /\ GenerationsBehind'
    BY DEF DownIsQuiet, Identified, GenerationsBehind, KnowsPhone
  <2>2. AboutToPublish'
    BY DEF AboutToPublish, GenerationsBehind
  <2>3. CodesSpent'
    BY DEF CodesSpent
  <2>4. RevokedDisconnected'
    BY DEF RevokedDisconnected, AboutToPublish, Identified, Serves, Doomed
  <2> QED
    BY <1>0, <2>1, <2>2, <2>3, <2>4
<1>12. CASE PublishStale(c)
  <2> USE <1>12 DEF Typed, TypeOK, PublishStale, Goto, codeVars, revokeVars
  <2>1. DownIsQuiet' /\ Identified' /\ GenerationsBehind'
    BY DEF DownIsQuiet, Identified, GenerationsBehind, KnowsPhone
  <2>2. AboutToPublish'
    BY DEF AboutToPublish, GenerationsBehind
  <2>3. CodesSpent'
    BY DEF CodesSpent
  <2>4. RevokedDisconnected'
    BY DEF RevokedDisconnected, AboutToPublish, Identified, Serves, Doomed
  <2> QED
    BY <1>0, <2>1, <2>2, <2>3, <2>4
<1>13. CASE Revalidate(c)
  <2> USE <1>13 DEF Typed, TypeOK, Revalidate, Goto, codeVars, revokeVars, IsTrusted
  <2>1. DownIsQuiet' /\ Identified' /\ GenerationsBehind'
    BY DEF DownIsQuiet, Identified, GenerationsBehind, KnowsPhone
  <2>2. AboutToPublish'
    BY DEF AboutToPublish, GenerationsBehind
  <2>3. CodesSpent'
    BY DEF CodesSpent
  <2>4. RevokedDisconnected'
    BY DEF RevokedDisconnected, AboutToPublish, Identified, Serves, Doomed
  <2> QED
    BY <1>0, <2>1, <2>2, <2>3, <2>4
<1>14. CASE RevalidateFails(c)
  BY <1>14, LeaveInv DEF RevalidateFails
<1>15. CASE RenameRefused(c)
  BY <1>15, LeaveInv DEF RenameRefused
<1>16. CASE TunnelEnds(c)
  BY <1>16, LeaveInv DEF TunnelEnds
<1> QED
  BY <1>1, <1>2, <1>3, <1>4, <1>5, <1>6, <1>7, <1>8,
     <1>9, <1>10, <1>11, <1>12, <1>13, <1>14, <1>15, <1>16 DEF ConnStep, Decide

\* IInv is preserved by every step of a revocation.
LEMMA RevokeStepInv ==
    ASSUME IInv, NEW r \in Revokers, RevokeStep(r)
    PROVE  IInv'
<1> USE ConstantsAssumption DEF IInv
<1>0. Typed'
  BY RevokeStepType
<1>1. CASE StoreRevoke(r)
  <2> USE <1>1 DEF Typed, TypeOK, StoreRevoke, codeVars, connVars
  <2>1. DownIsQuiet' /\ Identified' /\ GenerationsBehind'
    BY DEF DownIsQuiet, Identified, GenerationsBehind, KnowsPhone
  <2>2. AboutToPublish'
    BY DEF AboutToPublish, GenerationsBehind
  <2>3. CodesSpent'
    BY DEF CodesSpent
  <2>4. RevokedDisconnected'
    BY DEF RevokedDisconnected, AboutToPublish, Identified, Serves, Doomed
  <2> QED
    BY <1>0, <2>1, <2>2, <2>3, <2>4
<1>2. CASE StoreRevokeFails(r)
  <2> USE <1>2 DEF Typed, TypeOK, StoreRevokeFails, codeVars, connVars
  <2>1. DownIsQuiet' /\ Identified' /\ GenerationsBehind'
    BY DEF DownIsQuiet, Identified, GenerationsBehind, KnowsPhone
  <2>2. AboutToPublish'
    BY DEF AboutToPublish, GenerationsBehind
  <2>3. CodesSpent'
    BY DEF CodesSpent
  <2>4. RevokedDisconnected'
    BY DEF RevokedDisconnected, AboutToPublish, Identified, Serves, Doomed
  <2> QED
    BY <1>0, <2>1, <2>2, <2>3, <2>4
<1>3. CASE BumpGeneration(r)
  <2> USE <1>3 DEF Typed, TypeOK, BumpGeneration, codeVars, connVars, Published
  <2>1. DownIsQuiet' /\ Identified' /\ GenerationsBehind'
    BY DEF DownIsQuiet, Identified, GenerationsBehind, KnowsPhone
  <2>2. AboutToPublish'
    BY DEF AboutToPublish, GenerationsBehind
  <2>3. CodesSpent'
    BY DEF CodesSpent
  <2>4. RevokedDisconnected'
    BY DEF RevokedDisconnected, AboutToPublish, Identified, Serves, Doomed
  <2> QED
    BY <1>0, <2>1, <2>2, <2>3, <2>4
<1>4. ASSUME NEW c \in Conns, CloseMatching(r, c)
      PROVE  IInv'
  <2> USE <1>4 DEF Typed, TypeOK, CloseMatching, codeVars
  <2>1. DownIsQuiet' /\ Identified' /\ GenerationsBehind'
    BY DEF DownIsQuiet, Identified, GenerationsBehind, KnowsPhone
  <2>2. AboutToPublish'
    BY DEF AboutToPublish, GenerationsBehind
  <2>3. CodesSpent'
    BY DEF CodesSpent
  <2>4. RevokedDisconnected'
    BY DEF RevokedDisconnected, AboutToPublish, Identified, Serves, Doomed
  <2> QED
    BY <1>0, <2>1, <2>2, <2>3, <2>4
<1>5. CASE RevokeReturns(r)
  <2> USE <1>5 DEF Typed, TypeOK, RevokeReturns, codeVars, connVars
  <2>1. DownIsQuiet' /\ Identified' /\ GenerationsBehind'
    BY DEF DownIsQuiet, Identified, GenerationsBehind, KnowsPhone
  <2>2. AboutToPublish'
    BY DEF AboutToPublish, GenerationsBehind
  <2>3. CodesSpent'
    BY DEF CodesSpent
  <2>4. RevokedDisconnected'
    BY DEF RevokedDisconnected, AboutToPublish, Identified, Serves, Doomed
  <2> QED
    BY <1>0, <2>1, <2>2, <2>3, <2>4
<1> QED
  BY <1>1, <1>2, <1>3, <1>4, <1>5 DEF RevokeStep

\* IInv is inductive: it holds at the start and every step of the daemon, its
\* connections, its revocations and the command line keeps it.
THEOREM Inductive == Spec => []IInv
<1>1. Init => IInv
  <2> SUFFICES ASSUME Init PROVE IInv
    OBVIOUS
  <2>1. Typed
    BY ConstantsAssumption DEF Init, Typed, AttemptsLeft, KnowsPhone, TypeOK, ConnPC, RevokePC
  <2> QED
    BY <2>1 DEF Init, IInv, DownIsQuiet, Identified, GenerationsBehind, AboutToPublish,
                CodesSpent, RevokedDisconnected, Serves
<1>2. IInv /\ [Next]_vars => IInv'
  <2> SUFFICES ASSUME IInv, [Next]_vars, Typed' PROVE IInv'
    BY TypedStep DEF IInv
  <2> USE ConstantsAssumption DEF IInv, Typed, TypeOK, codeVars, connVars, revokeVars
  <2> DEFINE Parts == /\ DownIsQuiet /\ Identified /\ GenerationsBehind
                      /\ AboutToPublish /\ CodesSpent /\ RevokedDisconnected
  <2> USE DEF DownIsQuiet, Identified, GenerationsBehind, AboutToPublish, CodesSpent,
              RevokedDisconnected, Serves, Doomed
  <2>1. ASSUME NEW k \in Codes, Issue(k) \/ Expire(k) PROVE Parts'
    BY <2>1 DEF Issue, Expire
  <2>2. ASSUME NEW c \in Conns, NEW p \in Phones, NEW k \in Codes \cup {NoCode},
               Connect(c, p, k)
        PROVE  Parts'
    BY <2>2 DEF Connect, Goto
  <2>3. ASSUME NEW c \in Conns, ConnStep(c) PROVE IInv'
    BY <2>3, ConnStepInv
  <2>4. ASSUME NEW r \in Revokers, NEW p \in Phones, RevokeCalled(r, p) PROVE Parts'
    BY <2>4 DEF RevokeCalled
  <2>5. ASSUME NEW r \in Revokers, RevokeStep(r) PROVE IInv'
    BY <2>5, RevokeStepInv
  <2>6. ASSUME NEW p \in Phones, CLIRevoke(p) PROVE Parts'
    BY <2>6 DEF CLIRevoke, PassedLookup
  <2>7. CASE StopDaemon
    <3>1. Parts'
      BY <2>7 DEF StopDaemon
    <3> QED BY <3>1
  <2>8. CASE DaemonExits
    <3>1. Parts'
      BY <2>8 DEF DaemonExits
    <3> QED BY <3>1
  <2>9. CASE DaemonStarts \/ ControlServes
    <3>1. Parts'
      BY <2>9 DEF DaemonStarts, ControlServes
    <3> QED BY <3>1
  <2>10. CASE UNCHANGED vars
    <3>1. Parts'
      BY <2>10 DEF vars
    <3> QED BY <3>1
  <2> QED
    BY <2>1, <2>2, <2>3, <2>4, <2>5, <2>6, <2>7, <2>8, <2>9, <2>10 DEF Next
<1> QED
  BY <1>1, <1>2, PTL DEF Spec

\* Server.Revoke leaves no connection of the revoked phone behind, and the command line's
\* own edit leaves none but those that had passed their lookup before it.
THEOREM RevocationDisconnects == Spec => []RevokedDisconnected
<1>1. IInv => RevokedDisconnected
  BY DEF IInv
<1> QED
  BY <1>1, Inductive, PTL

(***************************************************************************)
(* What a step may do to the trust file.                                   *)
(***************************************************************************)
\* Of all steps only AddTrusted adds a phone to devices.json.
LEMMA OnlyAddTrustedInserts ==
    ASSUME Next, \A c \in Conns : ~AddTrusted(c)
    PROVE  devices' \subseteq devices
<1>1. ASSUME NEW c \in Conns, ConnStep(c) PROVE devices' = devices
  BY <1>1 DEF ConnStep, Decide, HelloAccepted, HandshakeFails, CaptureGeneration,
              ReadOutstanding, Finish, FinishUntrusted, Consume, ConsumeFails,
              AddTrustedFails, Publish, PublishStale, Revalidate, RevalidateFails,
              RenameRefused, TunnelEnds
<1>2. ASSUME NEW r \in Revokers, RevokeStep(r) PROVE devices' \subseteq devices
  BY <1>2 DEF RevokeStep, StoreRevoke, StoreRevokeFails, BumpGeneration, CloseMatching,
              RevokeReturns
<1> QED
  BY <1>1, <1>2 DEF Next, Issue, Expire, Connect, RevokeCalled, CLIRevoke, StopDaemon,
                    DaemonExits, DaemonStarts, ControlServes

\* Every phone that enters devices.json does so with a code nobody was paired with before.
THEOREM PairingNeedsFreshCode == Spec => TrustNeedsFreshCode
<1> DEFINE Fresh ==
      \A p \in devices' \ devices :
        \E k \in Codes : pairedWith[k] = {} /\ pairedWith'[k] = {p}
<1>1. IInv /\ [Next]_vars => [Fresh]_vars
  <2> SUFFICES ASSUME IInv, Next, NEW p \in devices' \ devices
               PROVE  \E k \in Codes : pairedWith[k] = {} /\ pairedWith'[k] = {p}
    OBVIOUS
  <2>1. PICK c \in Conns : AddTrusted(c)
    BY OnlyAddTrustedInserts
  <2>2. p = phone[c] /\ pc[c] = "record"
    BY <2>1 DEF AddTrusted, Goto
  <2>3. proof[c] \in Codes /\ pairedWith[proof[c]] = {}
    BY <2>2 DEF IInv, Typed, TypeOK, CodesSpent
  <2>4. pairedWith'[proof[c]] = {p}
    BY <2>1, <2>2, <2>3 DEF AddTrusted, IInv, Typed, TypeOK
  <2> QED
    BY <2>3, <2>4
<1> QED
  BY <1>1, Inductive, PTL DEF Spec, TrustNeedsFreshCode

(***************************************************************************)
(* Admission implements TrustLedger.                                       *)
(***************************************************************************)
\* What the ledger sees of two states is the same when everything it is built from is.
LEMMA ViewUnchanged ==
    ASSUME UNCHANGED <<pc, open, deviceID, rpc, target, matching>>
    PROVE  onlineView' = onlineView
BY DEF onlineView, Serves, Doomed

\* When one connection leaves, the ledger may lose it and nothing else.
LEMMA LeaveView ==
    ASSUME IInv, NEW c \in Conns, Leave(c)
    PROVE  /\ onlineView' \subseteq onlineView
           /\ (missed \ missed') \cap onlineView' = {}
BY DEF IInv, Typed, TypeOK, Leave, onlineView, Serves, Doomed

\* Each step of a connection's goroutine is a step of the ledger or leaves it alone.
LEMMA ConnStepRefines ==
    ASSUME IInv, NEW c \in Conns, ConnStep(c)
    PROVE  [Ledger!LedgerNext]_(Ledger!ledgerVars)
<1> USE DEF Ledger!ledgerVars, codeVars, revokeVars
<1>1. ASSUME Leave(c), UNCHANGED devices
      PROVE  [Ledger!LedgerNext]_(Ledger!ledgerVars)
  <2>1. missed' \in SUBSET missed
    BY <1>1 DEF Leave
  <2> QED
    BY <1>1, <2>1, LeaveView DEF Ledger!LedgerNext, Ledger!Leave
<1>2. CASE \/ HandshakeFails(c) \/ FinishUntrusted(c) \/ ConsumeFails(c) \/ AddTrustedFails(c)
           \/ RevalidateFails(c) \/ RenameRefused(c) \/ TunnelEnds(c)
  BY <1>1, <1>2 DEF HandshakeFails, FinishUntrusted, ConsumeFails, AddTrustedFails,
                    RevalidateFails, RenameRefused, TunnelEnds
<1>3. CASE \/ HelloAccepted(c) \/ CaptureGeneration(c) \/ ReadOutstanding(c) \/ Finish(c)
           \/ Consume(c) \/ PublishStale(c) \/ Revalidate(c)
  <2>1. /\ UNCHANGED <<devices, open, deviceID, rpc, target, matching>>
        /\ pc[c] # "tunnel"
        /\ \E to \in ConnPC \ {"tunnel"} : pc' = [pc EXCEPT ![c] = to]
    BY <1>3 DEF HelloAccepted, CaptureGeneration, ReadOutstanding, Finish, Consume,
                PublishStale, Revalidate, Goto, ConnPC
  <2>2. onlineView' = onlineView
    BY <2>1 DEF IInv, Typed, TypeOK, onlineView, Serves, Doomed
  <2>3. missed' = missed \/ missed' = {x \in missed : x[1] # c}
    BY <1>3 DEF HelloAccepted, CaptureGeneration, ReadOutstanding, Finish, Consume,
                PublishStale, Revalidate
  <2>4. (missed \ missed') \cap onlineView' = {}
    BY <2>1, <2>2, <2>3 DEF onlineView, Serves
  <2>5. Ledger!Leave
    BY <2>1, <2>2, <2>3, <2>4 DEF Ledger!Leave
  <2> QED
    BY <2>5 DEF Ledger!LedgerNext
<1>4. CASE AddTrusted(c)
  <2>1. onlineView' = onlineView
    BY <1>4 DEF AddTrusted, Goto, IInv, Typed, TypeOK, onlineView, Serves, Doomed
  <2>2. phone[c] \in Phones
    BY <1>4 DEF AddTrusted, Goto, IInv, Typed, KnowsPhone
  <2>3. Ledger!Pair(phone[c])
    BY <1>4, <2>1 DEF AddTrusted, Ledger!Pair
  <2> QED
    BY <2>2, <2>3 DEF Ledger!LedgerNext
<1>5. CASE Publish(c)
  <2> DEFINE p == phone[c]
  <2>1. p \in Phones
    BY <1>5 DEF Publish, Goto, IInv, Typed, KnowsPhone
  <2>2. onlineView' = onlineView \/ onlineView' = onlineView \cup {<<c, p>>}
    BY <1>5, <2>1 DEF Publish, Goto, IInv, Typed, TypeOK, onlineView, Serves, Doomed
  <2>3. CASE onlineView' = onlineView
    BY <1>5, <2>3 DEF Publish
  <2>4. CASE onlineView' # onlineView
    <3>1. ~Doomed(c, p)
      BY <1>5, <2>1, <2>2, <2>4 DEF Publish, Goto, IInv, Typed, TypeOK, onlineView, Serves, Doomed
    <3>2. p \in devices \/ <<c, p>> \in missed
      BY <1>5, <3>1 DEF Publish, Goto, IInv, AboutToPublish, Doomed
    <3>3. Ledger!Admit(c, p)
      BY <1>5, <2>2, <2>4, <3>2 DEF Publish, Ledger!Admit
    <3> QED
      BY <2>1, <3>3 DEF Ledger!LedgerNext
  <2> QED
    BY <2>3, <2>4
<1> QED
  BY <1>2, <1>3, <1>4, <1>5 DEF ConnStep, Decide

\* Each step of a revocation is a step of the ledger or leaves it alone: the commit on
\* disk is the ledger's revocation, what follows only carries it out.
LEMMA RevokeStepRefines ==
    ASSUME IInv, NEW r \in Revokers, RevokeStep(r)
    PROVE  [Ledger!LedgerNext]_(Ledger!ledgerVars)
<1> USE DEF Ledger!ledgerVars, codeVars, connVars
<1>1. CASE StoreRevoke(r)
  <2> DEFINE p == target[r]
  <2>1. p \in Phones
    BY <1>1 DEF StoreRevoke, IInv, Identified
  <2>2. onlineView' = {x \in onlineView : x[2] # p}
    BY <1>1, <2>1 DEF StoreRevoke, IInv, Typed, TypeOK, onlineView, Serves, Doomed
  <2>3. Ledger!Revoke(p)
    BY <1>1, <2>2 DEF StoreRevoke, Ledger!Revoke
  <2> QED
    BY <2>1, <2>3 DEF Ledger!LedgerNext
<1>2. CASE StoreRevokeFails(r)
  <2>1. onlineView' = onlineView
    BY <1>2 DEF StoreRevokeFails, IInv, Typed, TypeOK, onlineView, Serves, Doomed
  <2> QED
    BY <1>2, <2>1 DEF StoreRevokeFails
<1>3. CASE BumpGeneration(r)
  <2>1. \A c \in Conns, p \in Phones : Serves(c, p) => (Doomed(c, p)' <=> Doomed(c, p))
    BY <1>3 DEF BumpGeneration, Published, IInv, Typed, TypeOK, Serves, Doomed
  <2>2. onlineView' = onlineView
    BY <1>3, <2>1 DEF BumpGeneration, onlineView, Serves
  <2> QED
    BY <1>3, <2>2 DEF BumpGeneration
<1>4. ASSUME NEW c \in Conns, CloseMatching(r, c)
      PROVE  [Ledger!LedgerNext]_(Ledger!ledgerVars)
  <2>1. onlineView' = onlineView
    BY <1>4 DEF CloseMatching, IInv, Typed, TypeOK, onlineView, Serves, Doomed
  <2> QED
    BY <1>4, <2>1 DEF CloseMatching
<1>5. CASE RevokeReturns(r)
  <2>1. onlineView' = onlineView
    BY <1>5 DEF RevokeReturns, IInv, Typed, TypeOK, onlineView, Serves, Doomed
  <2> QED
    BY <1>5, <2>1 DEF RevokeReturns
<1> QED
  BY <1>1, <1>2, <1>3, <1>4, <1>5 DEF RevokeStep

\* The detailed specification implements the ledger: admission and revocation are atomic
\* as far as anyone who watches trust and live connections can tell.
THEOREM ImplementsLedger == Spec => LedgerSpec
<1>1. Init => Ledger!LedgerInit
  BY DEF Init, Ledger!LedgerInit, onlineView, Serves
<1>2. IInv /\ [Next]_vars => [Ledger!LedgerNext]_(Ledger!ledgerVars)
  <2> SUFFICES ASSUME IInv, [Next]_vars
               PROVE  [Ledger!LedgerNext]_(Ledger!ledgerVars)
    OBVIOUS
  <2> USE DEF Ledger!ledgerVars, codeVars, connVars, revokeVars
  <2>1. ASSUME NEW k \in Codes, Issue(k) \/ Expire(k) PROVE UNCHANGED <<devices, onlineView, missed>>
    BY <2>1, ViewUnchanged DEF Issue, Expire
  <2>2. ASSUME NEW c \in Conns, NEW p \in Phones, NEW k \in Codes \cup {NoCode},
               Connect(c, p, k)
        PROVE  UNCHANGED <<devices, onlineView, missed>>
    BY <2>2 DEF Connect, Goto, IInv, Typed, TypeOK, onlineView, Serves, Doomed
  <2>3. ASSUME NEW c \in Conns, ConnStep(c) PROVE [Ledger!LedgerNext]_(Ledger!ledgerVars)
    BY <2>3, ConnStepRefines
  <2>4. ASSUME NEW r \in Revokers, NEW p \in Phones, RevokeCalled(r, p)
        PROVE  UNCHANGED <<devices, onlineView, missed>>
    BY <2>4 DEF RevokeCalled, IInv, Typed, TypeOK, onlineView, Serves, Doomed
  <2>5. ASSUME NEW r \in Revokers, RevokeStep(r) PROVE [Ledger!LedgerNext]_(Ledger!ledgerVars)
    BY <2>5, RevokeStepRefines
  <2>6. ASSUME NEW p \in Phones, CLIRevoke(p) PROVE Ledger!Forget(p)
    <3>1. onlineView' = onlineView
      BY <2>6, ViewUnchanged DEF CLIRevoke
    <3>2. {x \in onlineView : x[2] = p} \subseteq PassedLookup(p) \X {p}
      BY DEF IInv, Identified, onlineView, Serves, PassedLookup
    <3>3. PassedLookup(p) \in SUBSET Conns
      BY DEF PassedLookup
    <3>4. missed' = missed \cup {x \in onlineView : x[2] = p} \cup (PassedLookup(p) \X {p})
      BY <2>6, <3>2 DEF CLIRevoke
    <3> QED
      BY <2>6, <3>1, <3>3, <3>4 DEF CLIRevoke, Ledger!Forget
  <2>7. CASE DaemonExits
    <3>1. onlineView' = {} /\ devices' = devices /\ missed' = {}
      BY <2>7 DEF DaemonExits, onlineView, Serves
    <3> QED
      BY <3>1 DEF Ledger!LedgerNext, Ledger!Leave
  <2>8. CASE StopDaemon \/ DaemonStarts \/ ControlServes
    BY <2>8, ViewUnchanged DEF StopDaemon, DaemonStarts, ControlServes
  <2>9. CASE UNCHANGED vars
    BY <2>9, ViewUnchanged DEF vars
  <2> QED
    BY <2>1, <2>2, <2>3, <2>4, <2>5, <2>6, <2>7, <2>8, <2>9 DEF Next, Ledger!LedgerNext
<1> QED
  BY <1>1, <1>2, Inductive, PTL DEF Spec, LedgerSpec, Ledger!LedgerSpec
==============================================================================
