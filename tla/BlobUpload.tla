------------------------------ MODULE BlobUpload ------------------------------
(***************************************************************************)
(* Attachment uploads: the process-wide spool (blobManager) and the upload *)
(* of each phone connection (blobConnection), internal/bridge/blob.go.     *)
(*                                                                         *)
(* On every connection three goroutines meet in blobConnection.mu: the     *)
(* reader, which handles begin, data, commit and abort one after the       *)
(* other; the upload's monitor, which ends an upload that is idle or       *)
(* cancelled; and the commit, which hands the file to the gateway.  Any of *)
(* them may run finish, which is done once.  Connections share the         *)
(* manager's reservations and the spool directory, which outlives the      *)
(* process.                                                                *)
(***************************************************************************)
EXTENDS Integers, FiniteSets

CONSTANTS
    Conns,        \* phone connections
    Ids,          \* upload ids, chosen by the phone and possibly used again
    Sizes,        \* declared sizes, in chunks
    MaxBytes,     \* blobManager.maxBytes (512 MiB)
    MaxUploads,   \* blobManager.maxUploads (2)
    None          \* no upload, no cached result

ASSUME SpoolAssumption ==
    /\ Sizes \subseteq Nat
    /\ MaxBytes \in Nat /\ MaxUploads \in Nat
    /\ IsFiniteSet(Conns)

VARIABLES
    proc,       \* the bridge process: "up" or "crashed"
    initErr,    \* blobManager.initErr is set: nothing is reserved any more
    active,     \* blobManager.active
    reserved,   \* blobManager.reserved
    stale,      \* bytes in spool directories that no upload owns
    link,       \* the tunnel: "down", "up", "closing" (its context is cancelled)
    reader,     \* the reader goroutine: "idle" (between frames), "failing" (it has unlocked
                \* mu and is about to call finish), "stopped"
    upload,     \* blobConnection.active
    monitor,    \* monitorUpload: "none", "watching", "claimed"
    commit,     \* commit: "none", "verify", "attach", "decided"
    fin,        \* finish: "none", then "cleaned", "answered"
    completed,  \* blobConnection.completed
    attached    \* what the gateway has accepted over this connection

manager  == <<initErr, active, reserved, stale>>
workers  == <<reader, monitor, commit>>
seen     == <<completed, attached>>
vars     == <<proc, manager, link, workers, upload, fin, seen>>

Uploads == [id : Ids, size : Sizes, good : BOOLEAN, offset : Nat,
            phase : {"receiving", "committing"}, finished : BOOLEAN, cancelled : BOOLEAN,
            disk : BOOLEAN, answer : {"none", "error", "ok"}, cache : BOOLEAN]
Results == [id : Ids, ok : BOOLEAN]

ASSUME NoneAssumption == None \notin Uploads /\ None \notin Results

TypeOK ==
    /\ proc \in {"up", "crashed"}
    /\ initErr \in BOOLEAN
    /\ active \in 0..MaxUploads
    /\ reserved \in 0..MaxBytes
    /\ stale \in 0..MaxBytes
    /\ link \in [Conns -> {"down", "up", "closing"}]
    /\ reader \in [Conns -> {"idle", "failing", "stopped"}]
    /\ upload \in [Conns -> Uploads \cup {None}]
    /\ monitor \in [Conns -> {"none", "watching", "claimed"}]
    /\ commit \in [Conns -> {"none", "verify", "attach", "decided"}]
    /\ fin \in [Conns -> {"none", "cleaned", "answered"}]
    /\ completed \in [Conns -> Results \cup {None}]
    /\ attached \in [Conns -> SUBSET [id : Ids, whole : BOOLEAN]]

Init ==
    /\ proc = "up"
    /\ initErr = FALSE
    /\ active = 0 /\ reserved = 0 /\ stale = 0
    /\ link = [c \in Conns |-> "down"]
    /\ reader = [c \in Conns |-> "stopped"]
    /\ upload = [c \in Conns |-> None]
    /\ monitor = [c \in Conns |-> "none"]
    /\ commit = [c \in Conns |-> "none"]
    /\ fin = [c \in Conns |-> "none"]
    /\ completed = [c \in Conns |-> None]
    /\ attached = [c \in Conns |-> {}]

\* Changes to the fields of c's upload.
Field(c, name, value) == upload' = [upload EXCEPT ![c][name] = value]

(***************************************************************************)
(* The reader's handlers.  A handler that only replies with an error       *)
(* (upload_busy, unknown_upload, ...) or sends the completed result again  *)
(* (a repeated commit) changes nothing and is left out.                    *)
(***************************************************************************)
\* A new tunnel of the phone: newBlobConnection.
Connect(c) ==
    /\ proc = "up" /\ link[c] = "down"
    /\ link' = [link EXCEPT ![c] = "up"]
    /\ reader' = [reader EXCEPT ![c] = "idle"]
    /\ UNCHANGED <<proc, manager, upload, monitor, commit, fin, seen>>

\* The reader has a frame in hand; one it read before the tunnel's end is still handled.
Handles(c) == reader[c] = "idle"

\* Mutant: the quota is compared with the upload alone.
ReserveAlone(size) ==
    /\ ~initErr
    /\ active < MaxUploads
    /\ size <= MaxBytes

\* reserve succeeds.
Reserve(size) ==
    /\ ~initErr
    /\ active < MaxUploads
    /\ size <= MaxBytes - reserved

\* handleBegin: the reservation and the payload file are made, the monitor started. An
\* upload begun by the last frame of a tunnel that has ended is born cancelled.
Begin(c, id, size, good) ==
    /\ Handles(c) /\ upload[c] = None
    /\ Reserve(size)
    /\ active' = active + 1
    /\ reserved' = reserved + size
    /\ upload' = [upload EXCEPT ![c] =
         [id |-> id, size |-> size, good |-> good, offset |-> 0, phase |-> "receiving",
          finished |-> FALSE, cancelled |-> link[c] # "up", disk |-> TRUE,
          answer |-> "none", cache |-> FALSE]]
    /\ monitor' = [monitor EXCEPT ![c] = "watching"]
    /\ UNCHANGED <<proc, initErr, stale, link, reader, commit, fin, seen>>

\* handleBegin: the payload cannot be created and its directory not removed; the
\* reservation is kept. (When it can be removed, the reservation is given back.)
BeginLeavesDirectory(c, size) ==
    /\ Handles(c) /\ upload[c] = None
    /\ Reserve(size)
    /\ active' = active + 1
    /\ reserved' = reserved + size
    /\ initErr' = TRUE
    /\ UNCHANGED <<proc, stale, link, workers, upload, fin, seen>>

\* handleData and handleCommit go on only with an upload that receives.
Receiving(c) ==
    /\ Handles(c) /\ upload[c] # None
    /\ ~upload[c].finished /\ ~upload[c].cancelled
    /\ upload[c].phase = "receiving"

\* handleData: the next chunk is written and acknowledged.
Data(c) ==
    /\ Receiving(c)
    /\ upload[c].offset < upload[c].size
    /\ Field(c, "offset", upload[c].offset + 1)
    /\ UNCHANGED <<proc, manager, link, workers, fin, seen>>

\* handleData, failMatchingUpload: a bad offset, too many bytes, a failed write or a bad
\* frame ends the upload; mu is released before finish is called.
DataFails(c) ==
    /\ Receiving(c)
    /\ reader' = [reader EXCEPT ![c] = "failing"]
    /\ UNCHANGED <<proc, manager, link, upload, monitor, commit, fin, seen>>

\* handleCommit: the commit takes the file over; the monitor has yet to notice.
Commit(c) ==
    /\ Receiving(c)
    /\ Field(c, "phase", "committing")
    /\ commit' = [commit EXCEPT ![c] = "verify"]
    /\ UNCHANGED <<proc, manager, link, reader, monitor, fin, seen>>

\* handleAbort.
Abort(c) ==
    /\ Handles(c) /\ upload[c] # None
    /\ Field(c, "cancelled", TRUE)
    /\ UNCHANGED <<proc, manager, link, workers, fin, seen>>

(***************************************************************************)
(* The monitor and the commit.                                             *)
(***************************************************************************)
\* Mutant: the monitor does not look at the phase.
Claimable(c) == upload[c] # None /\ ~upload[c].finished

\* claimReceivingFinish: only an upload the commit has not taken over and nobody finishes.
ClaimReceivingFinish(c) ==
    upload[c] # None /\ ~upload[c].finished /\ upload[c].phase = "receiving"

\* Mutants: an idle upload, or a cancelled one, is not ended.
MonitorIgnoresIdle(c) ==
    /\ monitor[c] = "watching"
    /\ ClaimReceivingFinish(c) /\ upload[c].cancelled
    /\ upload' = [upload EXCEPT ![c].finished = TRUE]
    /\ monitor' = [monitor EXCEPT ![c] = "claimed"]
    /\ UNCHANGED <<proc, manager, link, reader, commit, fin, seen>>


\* monitorUpload: the context is cancelled (no answer), or nothing arrived in time.
MonitorClaims(c) ==
    /\ monitor[c] = "watching"
    /\ ClaimReceivingFinish(c)
    /\ \E answer \in IF upload[c].cancelled THEN {"none", "error"} ELSE {"error"} :
         upload' = [upload EXCEPT ![c].finished = TRUE, ![c].answer = answer]
    /\ monitor' = [monitor EXCEPT ![c] = "claimed"]
    /\ UNCHANGED <<proc, manager, link, reader, commit, fin, seen>>

\* The monitor wakes up and finds the upload committing or finished.
MonitorReturns(c) ==
    /\ monitor[c] = "watching"
    /\ ~ClaimReceivingFinish(c)
    /\ monitor' = [monitor EXCEPT ![c] = "none"]
    /\ UNCHANGED <<proc, manager, link, reader, upload, commit, fin, seen>>

\* Mutant: the byte count is not compared.
HashMatches(c) == upload[c].good

\* commit compares size and hash with what was declared.
Verified(c) == upload[c].offset = upload[c].size /\ upload[c].good

\* commit, the checks: a mismatch or a failed sync or close is the answer.
CommitRejects(c) ==
    /\ commit[c] = "verify"
    /\ commit' = [commit EXCEPT ![c] = "decided"]
    /\ upload' = [upload EXCEPT ![c].answer = "error", ![c].cache = TRUE]
    /\ UNCHANGED <<proc, manager, link, reader, monitor, fin, seen>>

CommitVerifies(c) ==
    /\ commit[c] = "verify"
    /\ Verified(c)
    /\ commit' = [commit EXCEPT ![c] = "attach"]
    /\ UNCHANGED <<proc, manager, link, reader, monitor, upload, fin, seen>>

\* The gateway attaches the file it is handed (external).
GatewayAccepts(c) ==
    attached' = [attached EXCEPT ![c] =
        @ \cup {[id |-> upload[c].id,
                 whole |-> upload[c].offset = upload[c].size /\ upload[c].good]}]

\* callFileAttach returns the gateway's receipt; one too long to send is an error.
AttachSucceeds(c) ==
    /\ commit[c] = "attach"
    /\ GatewayAccepts(c)
    /\ commit' = [commit EXCEPT ![c] = "decided"]
    /\ \E answer \in {"ok", "error"} :
         upload' = [upload EXCEPT ![c].answer = answer, ![c].cache = TRUE]
    /\ UNCHANGED <<proc, manager, link, reader, monitor, fin, completed>>

\* callFileAttach fails or times out, before or after the gateway attached the file. A
\* cancelled upload is not answered.
AttachFails(c) ==
    /\ commit[c] = "attach"
    /\ GatewayAccepts(c) \/ attached' = attached
    /\ commit' = [commit EXCEPT ![c] = "decided"]
    /\ upload' = [upload EXCEPT ![c].answer = IF upload[c].cancelled THEN "none" ELSE "error",
                                ![c].cache = ~upload[c].cancelled]
    /\ UNCHANGED <<proc, manager, link, reader, monitor, fin, completed>>

(***************************************************************************)
(* finish, inside finishOnce: whoever comes second waits for its end.      *)
(***************************************************************************)
\* What the caller answers: the reader's own error, else what was decided before.
Wanted(c, who) ==
    IF who = "reader" THEN [answer |-> "error", cache |-> FALSE]
                      ELSE [answer |-> upload[c].answer, cache |-> upload[c].cache]

Caller(c, who) ==
    \/ who = "reader" /\ reader[c] = "failing"
    \/ who = "monitor" /\ monitor[c] = "claimed"
    \/ who = "commit" /\ commit[c] = "decided"

\* The upload is marked finished and cancelled, its file closed and its directory
\* removed.
FinishCleans(c, who) ==
    /\ Caller(c, who) /\ upload[c] # None /\ fin[c] = "none"
    /\ upload' = [upload EXCEPT ![c].finished = TRUE, ![c].cancelled = TRUE, ![c].disk = FALSE,
                                ![c].answer = Wanted(c, who).answer,
                                ![c].cache = Wanted(c, who).cache]
    /\ fin' = [fin EXCEPT ![c] = "cleaned"]
    /\ UNCHANGED <<proc, manager, link, workers, seen>>

\* Mutant: the spool stays in use.
FinishIgnoresError(c, who) ==
    /\ Caller(c, who) /\ upload[c] # None /\ fin[c] = "none"
    /\ upload' = [upload EXCEPT ![c].finished = TRUE, ![c].cancelled = TRUE,
                                ![c].answer = "error", ![c].cache = TRUE]
    /\ fin' = [fin EXCEPT ![c] = "cleaned"]
    /\ UNCHANGED <<proc, manager, link, workers, seen>>

\* The directory cannot be removed: the spool is closed to further uploads, the
\* reservation kept (the upload is "leaked"), and the answer is spool_cleanup_failed.
FinishCannotClean(c, who) ==
    /\ Caller(c, who) /\ upload[c] # None /\ fin[c] = "none"
    /\ upload' = [upload EXCEPT ![c].finished = TRUE, ![c].cancelled = TRUE,
                                ![c].answer = "error", ![c].cache = TRUE]
    /\ initErr' = TRUE
    /\ fin' = [fin EXCEPT ![c] = "cleaned"]
    /\ UNCHANGED <<proc, active, reserved, stale, link, workers, seen>>

\* The answer is kept for a repeated commit and sent while the tunnel lives.
FinishAnswers(c) ==
    /\ fin[c] = "cleaned"
    /\ LET u == upload[c] IN
       completed' = [completed EXCEPT ![c] =
           IF u.cache /\ u.answer # "none" THEN [id |-> u.id, ok |-> u.answer = "ok"] ELSE @]
    /\ fin' = [fin EXCEPT ![c] = "answered"]
    /\ UNCHANGED <<proc, manager, link, workers, upload, attached>>

\* settleCleanup(size, nil), unless the directory is still there, which then has no owner
\* any more; blobConnection.active = nil; finish returns to all its callers. A monitor
\* that still watches finds the upload finished and returns, whatever begins next. The
\* manager's lock and the connection's are taken one after the other; in between a begin of
\* this connection is refused as before and one of another finds the quota as after.
FinishSettles(c) ==
    /\ fin[c] = "answered"
    /\ active' = IF upload[c].disk THEN active ELSE active - 1
    /\ reserved' = IF upload[c].disk THEN reserved ELSE reserved - upload[c].size
    /\ stale' = IF upload[c].disk THEN stale + upload[c].size ELSE stale
    /\ upload' = [upload EXCEPT ![c] = None]
    /\ fin' = [fin EXCEPT ![c] = "none"]
    /\ monitor' = [monitor EXCEPT ![c] = "none"]
    /\ commit' = [commit EXCEPT ![c] = "none"]
    /\ reader' = [reader EXCEPT ![c] = IF @ = "failing" THEN "idle" ELSE @]
    /\ UNCHANGED <<proc, initErr, link, seen>>

(***************************************************************************)
(* The end of a tunnel and of the process.                                 *)
(***************************************************************************)
\* Any loop of the tunnel fails, a failed send of an answer included: its context, the
\* parent of the upload's, is cancelled.
TunnelEnds(c) ==
    /\ link[c] = "up"
    /\ link' = [link EXCEPT ![c] = "closing"]
    /\ IF upload[c] = None THEN upload' = upload ELSE Field(c, "cancelled", TRUE)
    /\ UNCHANGED <<proc, manager, workers, fin, seen>>

\* loops.Wait: the reader's next recv fails.
ReaderStops(c) ==
    /\ link[c] = "closing" /\ reader[c] = "idle"
    /\ reader' = [reader EXCEPT ![c] = "stopped"]
    /\ UNCHANGED <<proc, manager, link, upload, monitor, commit, fin, seen>>

\* shutdownAndWait: the monitor and the commit have returned.
ShutdownAndWait(c) ==
    /\ link[c] = "closing" /\ reader[c] = "stopped"
    /\ monitor[c] = "none" /\ commit[c] = "none"
    /\ link' = [link EXCEPT ![c] = "down"]
    /\ completed' = [completed EXCEPT ![c] = None]
    /\ attached' = [attached EXCEPT ![c] = {}]
    /\ UNCHANGED <<proc, manager, workers, upload, fin>>

\* The bytes, as chunks by connection and number, that uploads u declare on connections S.
Bytes(u, S) == Cardinality(UNION {{c} \X (1..u[c].size) : c \in S})

DiskBytes == Bytes(upload, {c \in Conns : upload[c] # None /\ upload[c].disk})

\* The process dies; the spool directories stay.
Crash ==
    /\ proc = "up"
    /\ proc' = "crashed"
    /\ stale' = stale + DiskBytes
    /\ initErr' = FALSE /\ active' = 0 /\ reserved' = 0
    /\ link' = [c \in Conns |-> "down"]
    /\ reader' = [c \in Conns |-> "stopped"]
    /\ upload' = [c \in Conns |-> None]
    /\ monitor' = [c \in Conns |-> "none"]
    /\ commit' = [c \in Conns |-> "none"]
    /\ fin' = [c \in Conns |-> "none"]
    /\ completed' = [c \in Conns |-> None]
    /\ attached' = [c \in Conns |-> {}]

\* newBlobManager, prepareRoot: every directory left behind is removed, or the first
\* one that cannot be closes the spool.
PrepareRoot ==
    /\ proc = "crashed"
    /\ proc' = "up"
    /\ \/ stale' = 0 /\ initErr' = FALSE
       \/ stale' \in 0..stale /\ initErr' = TRUE
    /\ UNCHANGED <<active, reserved, link, workers, upload, fin, seen>>

(***************************************************************************)
(* The specification.                                                      *)
(***************************************************************************)
ReaderStep(c) ==
    \/ \E id \in Ids, size \in Sizes, good \in BOOLEAN : Begin(c, id, size, good)
    \/ \E size \in Sizes : BeginLeavesDirectory(c, size)
    \/ Data(c) \/ DataFails(c) \/ Commit(c) \/ Abort(c)

MonitorStep(c) == MonitorClaims(c) \/ MonitorReturns(c)

CommitStep(c) == CommitRejects(c) \/ CommitVerifies(c) \/ AttachSucceeds(c) \/ AttachFails(c)

FinishStep(c) ==
    \/ \E who \in {"reader", "monitor", "commit"} :
        FinishCleans(c, who) \/ FinishCannotClean(c, who)
    \/ FinishAnswers(c) \/ FinishSettles(c)

TunnelStep(c) == Connect(c) \/ TunnelEnds(c) \/ ReaderStops(c) \/ ShutdownAndWait(c)

Next ==
    \/ \E c \in Conns :
        ReaderStep(c) \/ MonitorStep(c) \/ CommitStep(c) \/ FinishStep(c) \/ TunnelStep(c)
    \/ Crash \/ PrepareRoot

Spec == Init /\ [][Next]_vars

\* The goroutines run on, the idle timer fires and the gateway call ends (it has a
\* deadline, and so has every write). Nobody has to send a frame or to leave.
Fairness ==
    /\ \A c \in Conns :
        /\ WF_vars(MonitorStep(c))
        /\ WF_vars(CommitStep(c))
        /\ WF_vars(FinishStep(c))
        /\ WF_vars(ReaderStops(c))
        /\ WF_vars(ShutdownAndWait(c))

FairSpec == Spec /\ Fairness

(***************************************************************************)
(* Properties.                                                             *)
(***************************************************************************)
\* reserve, settleCleanup: while the spool is in use, the counters are exactly those
\* of the uploads that have not given their reservation back, on every connection.
Accounting ==
    proc = "up" /\ ~initErr =>
        LET open == {c \in Conns : upload[c] # None}
        IN  /\ active = Cardinality(open)
            /\ reserved = Bytes(upload, open)

\* reserve, prepareRoot, settleCleanup: whatever fails to be removed and whenever the
\* process dies, the spool directory never holds more than maxBytes.
SpoolBounded == stale + DiskBytes <= MaxBytes

\* reserve, prepareRoot, settleCleanup: the quota is kept, in the counters and on the disk;
\* neither follows from the other when a directory cannot be removed or the process dies.
SpoolAccounted == Accounting /\ SpoolBounded

\* claimReceivingFinish: from the commit's start to its decision nobody else closes or
\* removes the file it reads.
CommitOwnsFile ==
    \A c \in Conns : commit[c] \in {"verify", "attach"} =>
        upload[c] # None /\ upload[c].disk /\ ~upload[c].finished /\ fin[c] = "none"

\* commit, finish, handleCommit: the gateway is handed complete, verified files only, and a
\* success the phone is told, now or when it commits again, is of an id it has attached.
SuccessIsReal ==
    \A c \in Conns :
        /\ \A a \in attached[c] : a.whole
        /\ completed[c] # None /\ completed[c].ok =>
              \E a \in attached[c] : a.id = completed[c].id
        /\ upload[c] # None /\ upload[c].answer = "ok" =>
              \E a \in attached[c] : a.id = upload[c].id

\* monitorUpload, commit, finish: no upload lasts, whatever the phone and the gateway do, and
\* with it goes its reservation.
UploadEnds == \A c \in Conns : upload[c] # None ~> upload[c] = None

===============================================================================
