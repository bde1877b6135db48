------------------------------ MODULE Admission ------------------------------
(***************************************************************************)
(* Pairing, admission and revocation of phones by one bridge daemon        *)
(* (internal/bridge/server.go, pairing.go; the trust part of               *)
(* internal/state/state.go and protocol.Pending.Finish).                   *)
(*                                                                         *)
(* Every connection runs its handshake on its own goroutine, every         *)
(* revocation on a control-socket goroutine.  They share the trust file    *)
(* (devices.json, one transaction at a time), the one-time codes (under    *)
(* pairings.mu) and, under Server.mu, the revocation generation and the    *)
(* published device of each connection.  A step below is one such critical *)
(* section, so that all the interleavings between them are explored.       *)
(* The command line is another process that edits the same file.           *)
(***************************************************************************)
EXTENDS Naturals, FiniteSets

CONSTANTS
    Phones,       \* device identities (a phone's public key)
    Codes,        \* one-time pairing codes the daemon may draw; never repeated
    Conns,        \* connection slots, each reused after its connection ends
    Revokers,     \* control requests DELETE /devices/{id} that may overlap
    MaxAttempts,  \* maxAdmissionPublishAttempts (3)
    NoPhone,      \* no device: conn.deviceID = ""
    NoCode        \* a Confirm without a pairing proof

ASSUME ConstantsAssumption ==
    /\ MaxAttempts \in Nat \ {0}
    /\ NoPhone \notin Phones
    /\ NoCode \notin Codes

VARIABLES
    daemon,       \* "starting" (phones connect, no control socket yet), "up",
                  \* "stopping" (control socket gone, tunnels alive), "down"
    devices,      \* the phones of devices.json
    codes,        \* pairings.codes that have not expired
    issued,       \* history: codes ever issued
    pairedWith,   \* history: the phones recorded on the strength of each code
    generation,   \* Server.revocationGeneration
    pc,           \* where each connection's goroutine is; "idle": not in Server.conns
    phone,        \* the phone of a connection's Hello
    proof,        \* the code its Confirm proves, or NoCode
    gen,          \* the generation its handshake captured last
    outstanding,  \* the codes it read with Outstanding()
    attempts,     \* publish attempts made
    deviceID,     \* conn.deviceID, NoPhone until published
    open,         \* its link has not been closed by the bridge
    rpc,          \* where each revocation is
    target,       \* the phone it revokes
    matching,     \* the connections it still has to close
    missed        \* history: <<c, p>> when connection c had passed its trust lookup as
                  \* phone p, and the command line then took p off the disk

storeVars  == <<devices>>
codeVars   == <<codes, issued, pairedWith>>
connVars   == <<pc, phone, proof, gen, outstanding, attempts, deviceID, open>>
revokeVars == <<rpc, target, matching, missed>>
vars == <<daemon, devices, codes, issued, pairedWith, generation, pc, phone, proof,
          gen, outstanding, attempts, deviceID, open, rpc, target, matching, missed>>

ConnPC   == {"idle", "hello", "confirm", "outstanding", "decide", "consume", "record",
             "publish", "revalidate", "tunnel"}
RevokePC == {"idle", "store", "bump", "close"}

TypeOK ==
    /\ daemon \in {"starting", "up", "stopping", "down"}
    /\ devices \in SUBSET Phones
    /\ codes \in SUBSET Codes
    /\ issued \in SUBSET Codes
    /\ pairedWith \in [Codes -> SUBSET Phones]
    /\ generation \in Nat
    /\ pc \in [Conns -> ConnPC]
    /\ phone \in [Conns -> Phones \cup {NoPhone}]
    /\ proof \in [Conns -> Codes \cup {NoCode}]
    /\ gen \in [Conns -> Nat]
    /\ outstanding \in [Conns -> SUBSET Codes]
    /\ attempts \in [Conns -> 0..MaxAttempts]
    /\ deviceID \in [Conns -> Phones \cup {NoPhone}]
    /\ open \in [Conns -> BOOLEAN]
    /\ rpc \in [Revokers -> RevokePC]
    /\ target \in [Revokers -> Phones \cup {NoPhone}]
    /\ matching \in [Revokers -> SUBSET Conns]
    /\ missed \in SUBSET (Conns \X Phones)

\* A daemon starts without connections, codes or revocations; the trust file
\* is what earlier runs left.
Init ==
    /\ daemon = "starting"
    /\ devices \in SUBSET Phones
    /\ codes = {}
    /\ issued = {}
    /\ pairedWith = [k \in Codes |-> {}]
    /\ generation = 0
    /\ pc = [c \in Conns |-> "idle"]
    /\ phone = [c \in Conns |-> NoPhone]
    /\ proof = [c \in Conns |-> NoCode]
    /\ gen = [c \in Conns |-> 0]
    /\ outstanding = [c \in Conns |-> {}]
    /\ attempts = [c \in Conns |-> 0]
    /\ deviceID = [c \in Conns |-> NoPhone]
    /\ open = [c \in Conns |-> FALSE]
    /\ rpc = [r \in Revokers |-> "idle"]
    /\ target = [r \in Revokers |-> NoPhone]
    /\ matching = [r \in Revokers |-> {}]
    /\ missed = {}

Goto(c, from, to) == pc[c] = from /\ pc' = [pc EXCEPT ![c] = to]

(***************************************************************************)
(* Pairing codes.                                                          *)
(***************************************************************************)
\* daemon.Pair -> pairings.Issue: a fresh random code becomes redeemable.
Issue(k) ==
    /\ daemon = "up"
    /\ k \notin issued
    /\ codes' = codes \cup {k}
    /\ issued' = issued \cup {k}
    /\ UNCHANGED <<daemon, devices, pairedWith, generation, connVars, revokeVars>>

\* A code's ttl runs out. Outstanding and Consume both skip (and prune) it from then on.
Expire(k) ==
    /\ k \in codes
    /\ codes' = codes \ {k}
    /\ UNCHANGED <<daemon, devices, issued, pairedWith, generation, connVars, revokeVars>>

(***************************************************************************)
(* One connection: serveLink, run and handshake.                           *)
(***************************************************************************)
\* serveLink: the connection enters Server.conns with no device published. The listener
\* and the relay client run before the control socket does.
Connect(c, p, k) ==
    /\ daemon \in {"starting", "up"}
    /\ Goto(c, "idle", "hello")
    /\ phone' = [phone EXCEPT ![c] = p]
    /\ proof' = [proof EXCEPT ![c] = k]
    /\ open' = [open EXCEPT ![c] = TRUE]
    /\ UNCHANGED <<daemon, devices, codeVars, generation, gen, outstanding, attempts,
                   deviceID, revokeVars>>

\* The connection's goroutine closes the link (conn.close runs once) and leaves
\* Server.conns. A revocation that still meant to close it finds it closed.
Leave(c) ==
    /\ pc' = [pc EXCEPT ![c] = "idle"]
    /\ phone' = [phone EXCEPT ![c] = NoPhone]
    /\ proof' = [proof EXCEPT ![c] = NoCode]
    /\ gen' = [gen EXCEPT ![c] = 0]
    /\ outstanding' = [outstanding EXCEPT ![c] = {}]
    /\ attempts' = [attempts EXCEPT ![c] = 0]
    /\ deviceID' = [deviceID EXCEPT ![c] = NoPhone]
    /\ open' = [open EXCEPT ![c] = FALSE]
    /\ matching' = [r \in Revokers |-> matching[r] \ {c}]
    /\ missed' = {x \in missed : x[1] # c}
    /\ UNCHANGED <<rpc, target>>

\* Hello was read and BridgeAccept sent; the Confirm frame is awaited next.
HelloAccepted(c) ==
    /\ Goto(c, "hello", "confirm")
    /\ UNCHANGED <<daemon, devices, codeVars, generation, phone, proof, gen, outstanding,
                   attempts, deviceID, open, revokeVars>>

\* A frame is missing, malformed, late or badly signed: the handshake is rejected.
HandshakeFails(c) ==
    /\ pc[c] \in {"hello", "confirm", "decide"}
    /\ Leave(c)
    /\ UNCHANGED <<daemon, devices, codeVars, generation>>

\* Confirm was read: the generation is captured BEFORE the trust lookup.
CaptureGeneration(c) ==
    /\ Goto(c, "confirm", "outstanding")
    /\ gen' = [gen EXCEPT ![c] = generation]
    /\ UNCHANGED <<daemon, devices, codeVars, generation, phone, proof, outstanding,
                   attempts, deviceID, open, revokeVars>>

\* The codes handed to Finish are read before Finish looks the phone up.
ReadOutstanding(c) ==
    /\ Goto(c, "outstanding", "decide")
    /\ outstanding' = [outstanding EXCEPT ![c] = codes]
    /\ UNCHANGED <<daemon, devices, codeVars, generation, phone, proof, gen, attempts,
                   deviceID, open, revokeVars>>

\* What Store.IsTrusted may answer: a failed or half-committed write reads as "no".
IsTrusted(p) == {FALSE} \cup {p \in devices}

\* Pending.Finish: a trusted phone goes on, else its proof must match a code it was given.
Finish(c) ==
    \E trusted \in IsTrusted(phone[c]) :
        /\ pc[c] = "decide"
        /\ \/ trusted /\ pc' = [pc EXCEPT ![c] = "publish"]
           \/ ~trusted /\ proof[c] \in outstanding[c] /\ pc' = [pc EXCEPT ![c] = "consume"]
        /\ UNCHANGED <<daemon, devices, codeVars, generation, phone, proof, gen, outstanding,
                       attempts, deviceID, open, revokeVars>>

\* ErrUntrustedPhone from Finish: neither trusted nor a matching code.
FinishUntrusted(c) ==
    /\ pc[c] = "decide"
    /\ FALSE \in IsTrusted(phone[c])
    /\ proof[c] \notin outstanding[c]
    /\ Leave(c)
    /\ UNCHANGED <<daemon, devices, codeVars, generation>>

\* Mutant: the code is trusted from the Outstanding() snapshot and not checked again.
ConsumeUnchecked(c) ==
    /\ Goto(c, "consume", "record")
    /\ codes' = codes \ {proof[c]}
    /\ UNCHANGED <<daemon, devices, issued, pairedWith, generation, phone, proof, gen,
                   outstanding, attempts, deviceID, open, revokeVars>>

\* pairings.Consume: exactly one caller finds the code still there.
Consume(c) ==
    /\ Goto(c, "consume", "record")
    /\ proof[c] \in codes
    /\ codes' = codes \ {proof[c]}
    /\ UNCHANGED <<daemon, devices, issued, pairedWith, generation, phone, proof, gen,
                   outstanding, attempts, deviceID, open, revokeVars>>

\* The code was redeemed by another phone, or expired, since Outstanding().
ConsumeFails(c) ==
    /\ pc[c] = "consume"
    /\ proof[c] \notin codes
    /\ Leave(c)
    /\ UNCHANGED <<daemon, devices, codeVars, generation>>

\* Store.AddTrusted committed, cleanly or with a post-commit diagnostic. A connection
\* that an edit had missed is one of a recorded phone again.
AddTrusted(c) ==
    /\ Goto(c, "record", "publish")
    /\ devices' = devices \cup {phone[c]}
    /\ pairedWith' = [pairedWith EXCEPT ![proof[c]] = @ \cup {phone[c]}]
    /\ missed' = {x \in missed : x[2] # phone[c]}
    /\ UNCHANGED <<daemon, codes, issued, generation, phone, proof, gen, outstanding,
                   attempts, deviceID, open, rpc, target, matching>>

\* Store.AddTrusted failed before its commit: the code is spent, nothing is recorded.
AddTrustedFails(c) ==
    /\ pc[c] = "record"
    /\ Leave(c)
    /\ UNCHANGED <<daemon, devices, codeVars, generation>>

\* Mutant: the device is published without comparing generations.
PublishUnchecked(c) ==
    /\ Goto(c, "publish", "tunnel")
    /\ deviceID' = [deviceID EXCEPT ![c] = phone[c]]
    /\ UNCHANGED <<daemon, devices, codeVars, generation, phone, proof, gen, outstanding,
                   attempts, open, revokeVars>>

\* publishAdmission, generation unchanged: the device is published under Server.mu.
Publish(c) ==
    /\ Goto(c, "publish", "tunnel")
    /\ gen[c] = generation
    /\ deviceID' = [deviceID EXCEPT ![c] = phone[c]]
    /\ UNCHANGED <<daemon, devices, codeVars, generation, phone, proof, gen, outstanding,
                   attempts, open, revokeVars>>

\* publishAdmission, generation moved on: take the new one and look the phone up again.
PublishStale(c) ==
    /\ Goto(c, "publish", "revalidate")
    /\ gen[c] # generation
    /\ gen' = [gen EXCEPT ![c] = generation]
    /\ attempts' = [attempts EXCEPT ![c] = @ + 1]
    /\ missed' = {x \in missed : x[1] # c}
    /\ UNCHANGED <<daemon, devices, codeVars, generation, phone, proof, outstanding,
                   deviceID, open, rpc, target, matching>>

\* Mutant: the new generation is taken without looking the phone up again.
RevalidateUnchecked(c) ==
    /\ Goto(c, "revalidate", "publish")
    /\ attempts[c] < MaxAttempts
    /\ UNCHANGED <<daemon, devices, codeVars, generation, phone, proof, gen, outstanding,
                   attempts, deviceID, open, revokeVars>>

\* Mutant: the attempts are not bounded.
RevalidateForever(c) ==
    /\ Goto(c, "revalidate", "publish")
    /\ TRUE \in IsTrusted(phone[c])
    /\ UNCHANGED <<daemon, devices, codeVars, generation, phone, proof, gen, outstanding,
                   attempts, deviceID, open, revokeVars>>

\* The phone is still on disk and an attempt is left.
Revalidate(c) ==
    /\ Goto(c, "revalidate", "publish")
    /\ TRUE \in IsTrusted(phone[c])
    /\ attempts[c] < MaxAttempts
    /\ UNCHANGED <<daemon, devices, codeVars, generation, phone, proof, gen, outstanding,
                   attempts, deviceID, open, revokeVars>>

\* The phone is not trusted any more, or the generation kept changing.
RevalidateFails(c) ==
    /\ pc[c] = "revalidate"
    /\ \/ FALSE \in IsTrusted(phone[c])
       \/ attempts[c] = MaxAttempts
    /\ Leave(c)
    /\ UNCHANGED <<daemon, devices, codeVars, generation>>

(***************************************************************************)
(* The tunnel of an admitted phone.                                        *)
(***************************************************************************)
\* CtlName -> Store.Trust: renames a recorded phone; it never inserts one, so the
\* name of a revoked phone, read from a frame that was already buffered, ends the tunnel.
RenameRefused(c) ==
    /\ pc[c] = "tunnel"
    /\ deviceID[c] \notin devices
    /\ Leave(c)
    /\ UNCHANGED <<daemon, devices, codeVars, generation>>

\* The tunnel ends: the phone left, an error, or a read on a link the bridge closed.
TunnelEnds(c) ==
    /\ pc[c] = "tunnel"
    /\ Leave(c)
    /\ UNCHANGED <<daemon, devices, codeVars, generation>>

(***************************************************************************)
(* Revocation.                                                             *)
(***************************************************************************)
\* A control request DELETE /devices/{id} reaches Server.Revoke.
RevokeCalled(r, p) ==
    /\ daemon = "up"
    /\ rpc[r] = "idle"
    /\ rpc' = [rpc EXCEPT ![r] = "store"]
    /\ target' = [target EXCEPT ![r] = p]
    /\ UNCHANGED <<daemon, devices, codeVars, generation, connVars, matching, missed>>

\* Store.Revoke committed (cleanly or with a diagnostic): the phone is off the disk.
StoreRevoke(r) ==
    /\ rpc[r] = "store"
    /\ target[r] \in devices
    /\ rpc' = [rpc EXCEPT ![r] = "bump"]
    /\ devices' = devices \ {target[r]}
    /\ UNCHANGED <<daemon, codeVars, generation, connVars, target, matching, missed>>

\* Store.Revoke failed: no such device, a lock timeout or a write error. Nothing else happens.
StoreRevokeFails(r) ==
    /\ rpc[r] = "store"
    /\ rpc' = [rpc EXCEPT ![r] = "idle"]
    /\ target' = [target EXCEPT ![r] = NoPhone]
    /\ UNCHANGED <<daemon, devices, codeVars, generation, connVars, matching, missed>>

\* The connections that published a phone, as Server.mu shows them.
Published(p) == {c \in Conns : pc[c] # "idle" /\ deviceID[c] = p}

\* Mutant: Server.mu is taken, the generation advances, and nobody is collected.
BumpOnly(r) ==
    /\ rpc[r] = "bump"
    /\ rpc' = [rpc EXCEPT ![r] = "close"]
    /\ generation' = generation + 1
    /\ UNCHANGED <<daemon, devices, codeVars, connVars, target, matching, missed>>

\* Under Server.mu: the generation advances and the published connections are collected.
BumpGeneration(r) ==
    /\ rpc[r] = "bump"
    /\ rpc' = [rpc EXCEPT ![r] = "close"]
    /\ generation' = generation + 1
    /\ matching' = [matching EXCEPT ![r] = Published(target[r])]
    /\ UNCHANGED <<daemon, devices, codeVars, connVars, target, missed>>

\* conn.close on one of them.
CloseMatching(r, c) ==
    /\ rpc[r] = "close"
    /\ c \in matching[r]
    /\ open' = [open EXCEPT ![c] = FALSE]
    /\ matching' = [matching EXCEPT ![r] = @ \ {c}]
    /\ UNCHANGED <<daemon, devices, codeVars, generation, pc, phone, proof, gen, outstanding,
                   attempts, deviceID, rpc, target, missed>>

\* All of them are closed: Revoke returns.
RevokeReturns(r) ==
    /\ rpc[r] = "close"
    /\ matching[r] = {}
    /\ rpc' = [rpc EXCEPT ![r] = "idle"]
    /\ target' = [target EXCEPT ![r] = NoPhone]
    /\ UNCHANGED <<daemon, devices, codeVars, generation, connVars, matching, missed>>

\* The connections that have seen phone p on disk and will not look again.
PassedLookup(p) == {c \in Conns : phone[c] = p /\ pc[c] \in {"publish", "tunnel"}}

\* `devices revoke` edits devices.json itself, in its own process, some time after its
\* control request failed: no socket, or no answer in 15 s. Whatever the daemon is doing
\* by then, it is not told.
CLIRevoke(p) ==
    /\ p \in devices
    /\ devices' = devices \ {p}
    /\ missed' = missed \cup (PassedLookup(p) \X {p})
    /\ UNCHANGED <<daemon, codeVars, generation, connVars, rpc, target, matching>>

(***************************************************************************)
(* The daemon's own life.                                                  *)
(***************************************************************************)
\* SIGTERM: the control socket and the listener close; hijacked links live on
\* until the process is gone.
StopDaemon ==
    /\ daemon \in {"starting", "up"}
    /\ daemon' = "stopping"
    /\ UNCHANGED <<devices, codeVars, generation, connVars, revokeVars>>

\* The process ends, by itself or killed between any two steps: only the trust
\* file survives.
DaemonExits ==
    /\ daemon # "down"
    /\ daemon' = "down"
    /\ codes' = {}
    /\ generation' = 0
    /\ pc' = [c \in Conns |-> "idle"]
    /\ phone' = [c \in Conns |-> NoPhone]
    /\ proof' = [c \in Conns |-> NoCode]
    /\ gen' = [c \in Conns |-> 0]
    /\ outstanding' = [c \in Conns |-> {}]
    /\ attempts' = [c \in Conns |-> 0]
    /\ deviceID' = [c \in Conns |-> NoPhone]
    /\ open' = [c \in Conns |-> FALSE]
    /\ rpc' = [r \in Revokers |-> "idle"]
    /\ target' = [r \in Revokers |-> NoPhone]
    /\ matching' = [r \in Revokers |-> {}]
    /\ missed' = {}
    /\ UNCHANGED <<devices, issued, pairedWith>>

\* The process starts: its listener and its relay client first.
DaemonStarts ==
    /\ daemon = "down"
    /\ daemon' = "starting"
    /\ UNCHANGED <<devices, codeVars, generation, connVars, revokeVars>>

\* control.Serve: pairing and revocation requests are answered from now on.
ControlServes ==
    /\ daemon = "starting"
    /\ daemon' = "up"
    /\ UNCHANGED <<devices, codeVars, generation, connVars, revokeVars>>

(***************************************************************************)
(* The specification.                                                      *)
(***************************************************************************)
\* The steps a handshake takes once the phone's Confirm is there.
Decide(c) ==
    \/ CaptureGeneration(c) \/ ReadOutstanding(c)
    \/ Finish(c) \/ FinishUntrusted(c)
    \/ Consume(c) \/ ConsumeFails(c)
    \/ AddTrusted(c) \/ AddTrustedFails(c)
    \/ Publish(c) \/ PublishStale(c)
    \/ Revalidate(c) \/ RevalidateFails(c)

ConnStep(c) ==
    \/ HelloAccepted(c) \/ HandshakeFails(c) \/ Decide(c)
    \/ RenameRefused(c) \/ TunnelEnds(c)

\* The steps Server.Revoke takes by itself.
RevokeStep(r) ==
    \/ StoreRevoke(r) \/ StoreRevokeFails(r) \/ BumpGeneration(r)
    \/ \E c \in Conns : CloseMatching(r, c)
    \/ RevokeReturns(r)

Next ==
    \/ \E k \in Codes : Issue(k) \/ Expire(k)
    \/ \E c \in Conns, p \in Phones, k \in Codes \cup {NoCode} : Connect(c, p, k)
    \/ \E c \in Conns : ConnStep(c)
    \/ \E r \in Revokers, p \in Phones : RevokeCalled(r, p)
    \/ \E r \in Revokers : RevokeStep(r)
    \/ \E p \in Phones : CLIRevoke(p)
    \/ StopDaemon \/ DaemonExits \/ DaemonStarts \/ ControlServes

Spec == Init /\ [][Next]_vars

\* Scheduling: a goroutine that can go on does.  A handshake waits at most
\* handshakeTimeout for a frame; Revoke never waits.  Nothing is assumed of a tunnel:
\* even with its link closed its loops may not return.
Fairness ==
    /\ \A c \in Conns : WF_vars(HelloAccepted(c) \/ HandshakeFails(c) \/ Decide(c))
    /\ \A r \in Revokers : WF_vars(RevokeStep(r))

FairSpec == Spec /\ Fairness

(***************************************************************************)
(* Properties.                                                             *)
(***************************************************************************)
\* A connection that serves phone p.
Serves(c, p) == pc[c] = "tunnel" /\ open[c] /\ deviceID[c] = p

\* A revocation is under way that will close connection c if it serves p.
Doomed(c, p) ==
    \E r \in Revokers :
        \/ rpc[r] = "bump" /\ target[r] = p
        \/ rpc[r] = "close" /\ c \in matching[r]

\* Server.Revoke: a connection that serves a phone not on disk is one that a revocation
\* still running is about to close, or one that the command line's own edit missed. So
\* once Revoke has returned no connection of the phone is left, not even one whose
\* handshake had passed the trust lookup before the phone was removed; and after the
\* command line's edit no connection is admitted that had not passed its lookup by then.
RevokedDisconnected ==
    \A c \in Conns, p \in Phones :
        Serves(c, p) => p \in devices \/ Doomed(c, p) \/ <<c, p>> \in missed

\* pairings.Consume, Store.AddTrusted, Store.Trust: a phone gets onto disk only on the
\* strength of a one-time code nobody was ever paired with, so two phones racing
\* for one code, a late rename or an admission retry cannot bring a phone (back) in.
TrustNeedsFreshCode ==
    [][\A p \in devices' \ devices :
            \E k \in Codes : pairedWith[k] = {} /\ pairedWith'[k] = {p}]_vars

\* The ledger's view: connections serving a phone and not about to be closed.
onlineView ==
    {x \in Conns \X Phones : Serves(x[1], x[2]) /\ ~Doomed(x[1], x[2])}

Ledger == INSTANCE TrustLedger WITH trusted <- devices, online <- onlineView

\* The steps of admission and revocation, in any interleaving and with crashes between
\* them, look like the ledger's: admission only of a phone trusted at that moment,
\* revocation that takes the phone and all its connections at once, and an edit of the
\* file by the command line that leaves exactly the connections it missed.
LedgerSpec == Ledger!LedgerSpec

\* Server.Revoke and publishAdmission: a phone that is not on disk, or no longer is, does
\* not keep its link. Each of its connections, in a handshake or in a tunnel, is closed or
\* leaves, unless the phone is paired again or the command line's edit missed it.
RevokedPhoneCutOff ==
    \A c \in Conns, p \in Phones :
        (phone[c] = p /\ p \notin devices /\ <<c, p>> \notin missed)
            ~> (~open[c] \/ phone[c] # p \/ p \in devices)
==============================================================================
