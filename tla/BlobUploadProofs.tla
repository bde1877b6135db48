---------------------------- MODULE BlobUploadProofs ----------------------------
(***************************************************************************)
(* Proofs about BlobUpload, for every number of connections, every size    *)
(* and every quota: type correctness, that the spool's counters and quota  *)
(* are right, that a commit owns its file, and that a success is real.     *)
(***************************************************************************)
EXTENDS BlobUpload, FiniteSetTheorems, TLAPS

Open   == {c \in Conns : upload[c] # None}
OnDisk == {c \in Conns : upload[c] # None /\ upload[c].disk}

\* The reader, the monitor, the commit and finish of one connection: who may be where with
\* the upload. The monitor claims only what the commit has not taken over; finish is
\* under way only for a finished upload; somebody attends to every upload; a verified
\* file stays verified; and a tunnel that is down has neither reader nor upload.
Attended(c) ==
    /\ monitor[c] = "claimed" =>
          upload[c] # None /\ upload[c].finished /\ upload[c].phase = "receiving"
    /\ reader[c] = "failing" => upload[c] # None /\ upload[c].phase = "receiving"
    /\ commit[c] # "none" => upload[c] # None /\ upload[c].phase = "committing"
    /\ fin[c] # "none" => upload[c] # None /\ upload[c].finished
    /\ upload[c] # None =>
          /\ upload[c].phase = "committing" => commit[c] # "none"
          /\ fin[c] = "none" => upload[c].disk
          /\ \/ monitor[c] = "claimed" \/ commit[c] # "none" \/ reader[c] = "failing"
             \/ monitor[c] = "watching" /\ ~upload[c].finished
    /\ commit[c] \in {"verify", "attach"} => ~upload[c].finished
    /\ commit[c] = "attach" => Verified(c)
    /\ link[c] = "down" => reader[c] = "stopped" /\ upload[c] = None

\* What the phone was told, on one connection (SuccessIsReal).
Real(c) ==
    /\ \A a \in attached[c] : a.whole
    /\ completed[c] # None /\ completed[c].ok =>
          \E a \in attached[c] : a.id = completed[c].id
    /\ upload[c] # None /\ upload[c].answer = "ok" =>
          \E a \in attached[c] : a.id = upload[c].id

\* The spool: the reservations cover the uploads, exactly while the spool is in use, when
\* nothing is left behind either; only a closed spool keeps the directory of an upload
\* that finish has dealt with; and the quota covers what is on the disk.
Spool ==
    /\ \A c \in Open : upload[c].size <= MaxBytes
    /\ Cardinality(Open) <= active /\ Bytes(upload, Open) <= reserved
    /\ ~initErr => /\ Cardinality(Open) = active /\ Bytes(upload, Open) = reserved
                   /\ proc = "up" => stale = 0
    /\ \A c \in Open : fin[c] # "none" /\ upload[c].disk => initErr
    /\ stale + Bytes(upload, OnDisk) <= MaxBytes
    /\ proc = "crashed" => active = 0 /\ reserved = 0 /\ \A c \in Conns : link[c] = "down"

IInv == TypeOK /\ Spool /\ \A c \in Conns : Attended(c) /\ Real(c)

-----------------------------------------------------------------------------
\* Counting bytes.

LEMMA ConnsFinite ==
    ASSUME NEW S \in SUBSET Conns
    PROVE  IsFiniteSet(S) /\ Cardinality(S) \in Nat
BY SpoolAssumption, FS_Subset, FS_CardinalityType

\* Uploads of the same sizes have the same bytes.
LEMMA BytesAgree ==
    ASSUME NEW S, NEW u, NEW w, \A c \in S : u[c].size = w[c].size
    PROVE  Bytes(u, S) = Bytes(w, S)
<1>1. UNION {{c} \X (1..u[c].size) : c \in S} = UNION {{c} \X (1..w[c].size) : c \in S}
  OBVIOUS
<1> QED BY <1>1 DEF Bytes

LEMMA BytesNone ==
    ASSUME NEW u
    PROVE  Bytes(u, {}) = 0
<1>1. UNION {{c} \X (1..u[c].size) : c \in {}} = {}
  OBVIOUS
<1> QED BY <1>1, FS_EmptySet DEF Bytes

\* One more upload has its own chunks.
LEMMA BytesAdd ==
    ASSUME NEW S \in SUBSET Conns, NEW x \in Conns, x \notin S, NEW u,
           \A c \in S \cup {x} : u[c].size \in Nat /\ u[c].size <= MaxBytes
    PROVE  Bytes(u, S \cup {x}) = Bytes(u, S) + u[x].size /\ Bytes(u, S) \in Nat
<1> DEFINE Chunks(T) == UNION {{c} \X (1..u[c].size) : c \in T}
<1>1. PICK n \in Nat : n = u[x].size
  OBVIOUS
<1> DEFINE all == Chunks(S)
           own == {x} \X (1..n)
<1>2. Chunks(S \cup {x}) = all \cup own /\ all \cap own = {}
  BY <1>1
<1>3. all \subseteq S \X (1..MaxBytes)
  BY SpoolAssumption
<1> HIDE DEF all
<1>4. IsFiniteSet(all) /\ Cardinality(all) \in Nat
  <2>1. IsFiniteSet(S) /\ IsFiniteSet(1..MaxBytes)
    BY ConnsFinite, FS_Interval, SpoolAssumption
  <2>2. IsFiniteSet(S \X (1..MaxBytes))
    BY <2>1, FS_Product
  <2> QED BY <1>3, <2>2, FS_Subset, FS_CardinalityType
<1>5. IsFiniteSet(own) /\ Cardinality(own) = n
  <2>1. 1 \in Int /\ n \in Int
    OBVIOUS
  <2>2. IsFiniteSet(1..n) /\ Cardinality(1..n) = n
    BY <2>1, FS_Interval
  <2>3. IsFiniteSet({x}) /\ Cardinality({x}) = 1
    BY FS_Singleton
  <2>4. IsFiniteSet(own) /\ Cardinality(own) = Cardinality({x}) * Cardinality(1..n)
    BY <2>2, <2>3, FS_Product
  <2>5. 1 * n = n
    OBVIOUS
  <2> QED BY <2>2, <2>3, <2>4, <2>5, Zenon
<1> HIDE DEF own
<1>6. Cardinality(all \cup own) = Cardinality(all) + Cardinality(own) - Cardinality(all \cap own)
  BY <1>4, <1>5, FS_Union
<1>7. Cardinality(all \cap own) = 0
  BY <1>2, FS_EmptySet
<1>8. Cardinality(all \cup own) = Cardinality(all) + n
  BY <1>4, <1>5, <1>6, <1>7
<1>9. Cardinality(Chunks(S \cup {x})) = Cardinality(all) + n
  BY <1>2, <1>8
<1> QED BY <1>1, <1>4, <1>9 DEF Bytes, all

\* Fewer uploads have no more bytes.
LEMMA BytesSubset ==
    ASSUME NEW S \in SUBSET Conns, NEW T \in SUBSET S, NEW u,
           \A c \in S : u[c].size \in Nat /\ u[c].size <= MaxBytes
    PROVE  Bytes(u, S) \in Nat /\ Bytes(u, T) \in Nat /\ Bytes(u, T) <= Bytes(u, S)
<1> DEFINE Chunks(R) == UNION {{c} \X (1..u[c].size) : c \in R}
<1>1. Chunks(S) \subseteq S \X (1..MaxBytes)
  BY SpoolAssumption
<1>2. IsFiniteSet(S) /\ IsFiniteSet(1..MaxBytes)
  BY ConnsFinite, FS_Interval, SpoolAssumption
<1>3. IsFiniteSet(S \X (1..MaxBytes))
  BY <1>2, FS_Product
<1>4. IsFiniteSet(Chunks(S))
  BY <1>1, <1>3, FS_Subset
<1>5. Chunks(T) \subseteq Chunks(S)
  OBVIOUS
<1>6. IsFiniteSet(Chunks(T)) /\ Cardinality(Chunks(T)) <= Cardinality(Chunks(S))
  BY <1>4, <1>5, FS_Subset
<1> QED BY <1>4, <1>6, FS_CardinalityType DEF Bytes

-----------------------------------------------------------------------------
\* One connection's step.

\* An upload that keeps what it declared and what is on the disk: only its progress, its
\* flags and its answer are changed.
Kept(u, w) ==
    /\ u \in Uploads /\ w \in Uploads
    /\ w.id = u.id /\ w.size = u.size /\ w.good = u.good

\* A step of connection c changes nothing on the others.
Local(c) ==
    \A d \in Conns \ {c} :
        /\ link'[d] = link[d] /\ reader'[d] = reader[d] /\ upload'[d] = upload[d]
        /\ monitor'[d] = monitor[d] /\ commit'[d] = commit[d] /\ fin'[d] = fin[d]
        /\ completed'[d] = completed[d] /\ attached'[d] = attached[d]

LEMMA OthersInv ==
    ASSUME IInv, NEW c \in Conns, Local(c), Attended(c)', Real(c)'
    PROVE  \A d \in Conns : Attended(d)' /\ Real(d)'
<1> SUFFICES ASSUME NEW d \in Conns, d # c PROVE Attended(d)' /\ Real(d)'
  OBVIOUS
<1>1. Attended(d) /\ Real(d)
  BY DEF IInv
<1>2. Attended(d)'
  BY <1>1 DEF Local, Attended, Verified
<1>3. Real(d)'
  BY <1>1 DEF Local, Real
<1> QED BY <1>2, <1>3

\* A step that neither begins nor settles an upload, nor touches its directory, leaves the
\* spool's accounts alone.
LEMMA SpoolKept ==
    ASSUME IInv, NEW c \in Conns, Local(c), UNCHANGED <<proc, manager>>,
           upload[c] = None => upload'[c] = None,
           upload[c] # None => Kept(upload[c], upload'[c]) /\ upload'[c].disk = upload[c].disk,
           fin[c] = "none" => fin'[c] = "none",
           proc = "crashed" => link'[c] = "down"
    PROVE  Spool'
<1> USE DEF IInv
<1>1. \A d \in Conns : /\ upload'[d] = None <=> upload[d] = None
                       /\ upload[d] # None => /\ upload'[d].size = upload[d].size
                                              /\ upload'[d].disk = upload[d].disk
                       /\ fin[d] = "none" => fin'[d] = "none"
  BY NoneAssumption DEF Local, Kept
<1>2. Open' = Open /\ OnDisk' = OnDisk
  BY <1>1 DEF Open, OnDisk
<1>3. Bytes(upload', Open) = Bytes(upload, Open) /\ Bytes(upload', OnDisk) = Bytes(upload, OnDisk)
  BY <1>1, BytesAgree DEF Open, OnDisk
<1>4. \A d \in Open : (fin'[d] # "none" => fin[d] # "none") /\ upload'[d].size = upload[d].size
                       /\ upload'[d].disk = upload[d].disk
  BY <1>1 DEF Open
<1>5. proc = "crashed" => \A d \in Conns : link'[d] = "down"
  BY DEF Local, Spool
<1> QED BY <1>2, <1>3, <1>4, <1>5 DEF Spool, manager

\* The two together, for the steps that keep the spool's accounts.
LEMMA StepInv ==
    ASSUME IInv, NEW c \in Conns, TypeOK', Local(c), Attended(c)', Real(c)',
           UNCHANGED <<proc, manager>>,
           upload[c] = None => upload'[c] = None,
           upload[c] # None => Kept(upload[c], upload'[c]) /\ upload'[c].disk = upload[c].disk,
           fin[c] = "none" => fin'[c] = "none",
           proc = "crashed" => link'[c] = "down"
    PROVE  IInv'
<1>1. Spool'
  BY SpoolKept
<1>2. \A d \in Conns : Attended(d)' /\ Real(d)'
  BY OthersInv
<1> QED BY <1>1, <1>2 DEF IInv

\* Steps that leave the uploads alone.
LEMMA GoroutineInv ==
    ASSUME IInv, NEW c \in Conns,
           \/ Connect(c) \/ ReaderStops(c) \/ ShutdownAndWait(c)
           \/ DataFails(c) \/ MonitorReturns(c) \/ CommitVerifies(c)
    PROVE  IInv'
<1> USE DEF IInv
<1> USE DEF workers, seen
<1>1. TypeOK'
  BY DEF TypeOK, Connect, ReaderStops, ShutdownAndWait, DataFails, MonitorReturns,
         CommitVerifies, manager
<1>2. Local(c)
  BY DEF Local, TypeOK, Connect, ReaderStops, ShutdownAndWait, DataFails, MonitorReturns,
         CommitVerifies
<1>3. /\ UNCHANGED <<proc, manager, upload, fin>>
      /\ proc = "crashed" => link'[c] = "down"
  BY DEF TypeOK, Spool, Connect, ReaderStops, ShutdownAndWait, DataFails, MonitorReturns,
         CommitVerifies
<1>4. Attended(c)'
  <2>1. CASE Connect(c)
    BY <2>1, <1>3 DEF Connect, TypeOK, Attended, Verified
  <2>2. CASE ReaderStops(c)
    BY <2>2, <1>3 DEF ReaderStops, TypeOK, Attended, Verified
  <2>3. CASE ShutdownAndWait(c)
    BY <2>3, <1>3 DEF ShutdownAndWait, TypeOK, Attended, Verified
  <2>4. CASE DataFails(c)
    BY <2>4, <1>3 DEF DataFails, Receiving, Handles, TypeOK, Attended, Verified
  <2>5. CASE MonitorReturns(c)
    BY <2>5, <1>3 DEF MonitorReturns, ClaimReceivingFinish, TypeOK, Uploads, Attended, Verified
  <2>6. CASE CommitVerifies(c)
    BY <2>6, <1>3 DEF CommitVerifies, TypeOK, Attended, Verified
  <2> QED BY <2>1, <2>2, <2>3, <2>4, <2>5, <2>6
<1>5. Real(c)'
  <2>1. CASE ShutdownAndWait(c)
    <3>1. upload[c] = None
      BY <2>1 DEF ShutdownAndWait, Attended
    <3>2. upload'[c] = None /\ completed'[c] = None /\ attached'[c] = {}
      BY <2>1, <3>1 DEF ShutdownAndWait, TypeOK
    <3> QED BY <3>2 DEF Real
  <2>2. CASE ~ShutdownAndWait(c)
    <3>1. UNCHANGED <<upload, completed, attached>>
      BY <2>2 DEF Connect, ReaderStops, DataFails, MonitorReturns, CommitVerifies
    <3> QED BY <3>1 DEF Real
  <2> QED BY <2>1, <2>2
<1>6. upload[c] # None => Kept(upload[c], upload'[c])
  BY <1>3 DEF Kept, TypeOK
<1> QED BY <1>1, <1>2, <1>3, <1>4, <1>5, <1>6, StepInv

\* The fields of c's upload are written.
LEMMA Rewritten ==
    ASSUME IInv, NEW c \in Conns, upload[c] \in Uploads, NEW w \in Uploads,
           upload' = [upload EXCEPT ![c] = w]
    PROVE  /\ upload' \in [Conns -> Uploads \cup {None}]
           /\ upload'[c] = w /\ upload[c] # None /\ w # None
           /\ \A d \in Conns \ {c} : upload'[d] = upload[d]
BY NoneAssumption DEF IInv, TypeOK

\* handleData.
LEMMA DataInv ==
    ASSUME IInv, NEW c \in Conns, Data(c)
    PROVE  IInv'
<1> USE DEF IInv
<1> USE DEF workers, seen
<1> DEFINE u == upload[c]
           w == [u EXCEPT !.offset = u.offset + 1]
<1>1. u \in Uploads
  BY DEF Data, Receiving, Field, TypeOK
<1>2. w \in Uploads
  BY <1>1 DEF Uploads
<1>3. upload' = [upload EXCEPT ![c] = w]
  BY <1>1 DEF Data, Receiving, Field, TypeOK
<1>4. /\ upload' \in [Conns -> Uploads \cup {None}]
      /\ upload'[c] = w /\ u # None /\ w # None
      /\ \A d \in Conns \ {c} : upload'[d] = upload[d]
  BY <1>1, <1>2, <1>3, Rewritten
<1>5. /\ Kept(u, w) /\ w.disk = u.disk
      /\ w.finished = u.finished /\ w.phase = u.phase /\ w.answer = u.answer
  BY <1>1, <1>2 DEF Kept, Uploads
<1> HIDE DEF w
<1>6. TypeOK'
  BY <1>4 DEF Data, Receiving, Field, TypeOK, manager
<1>7. Local(c)
  BY <1>4 DEF Data, Receiving, Field, TypeOK, Local
<1>8. Attended(c)'
  BY <1>4, <1>5 DEF Data, Receiving, Field, TypeOK, Attended, Verified
<1>9. Real(c)'
  BY <1>4, <1>5 DEF Data, Receiving, Field, Real, Kept
<1>10. UNCHANGED <<proc, manager>> /\ fin' = fin /\ (proc = "crashed" => link'[c] = "down")
  BY DEF Data, Receiving, Field, Spool
<1> QED BY <1>4, <1>5, <1>6, <1>7, <1>8, <1>9, <1>10, StepInv

\* handleCommit.
LEMMA CommitInv ==
    ASSUME IInv, NEW c \in Conns, Commit(c)
    PROVE  IInv'
<1> USE DEF IInv
<1> USE DEF workers, seen
<1> DEFINE u == upload[c]
           w == [u EXCEPT !.phase = "committing"]
<1>1. u \in Uploads
  BY DEF Commit, Receiving, Handles, Field, TypeOK
<1>2. w \in Uploads
  BY <1>1 DEF Uploads
<1>3. upload' = [upload EXCEPT ![c] = w]
  BY <1>1 DEF Commit, Receiving, Handles, Field, TypeOK
<1>4. /\ upload' \in [Conns -> Uploads \cup {None}]
      /\ upload'[c] = w /\ u # None /\ w # None
      /\ \A d \in Conns \ {c} : upload'[d] = upload[d]
  BY <1>1, <1>2, <1>3, Rewritten
<1>5. /\ Kept(u, w) /\ w.disk = u.disk
      /\ w.finished = u.finished /\ w.answer = u.answer /\ w.phase = "committing"
  BY <1>1, <1>2 DEF Kept, Uploads
<1> HIDE DEF w
<1>6. TypeOK'
  BY <1>4 DEF Commit, Receiving, Handles, Field, TypeOK, manager
<1>7. Local(c)
  BY <1>4 DEF Commit, Receiving, Handles, Field, TypeOK, Local
<1>8. Attended(c)'
  <2>1. /\ reader'[c] = "idle" /\ ~w.finished /\ ~u.finished /\ u.phase = "receiving"
        /\ UNCHANGED <<monitor, fin, link>> /\ commit'[c] = "verify"
    BY <1>5 DEF Commit, Receiving, Handles, TypeOK
  <2>2. fin[c] = "none" /\ u.disk /\ monitor[c] # "claimed" /\ link[c] # "down"
    BY <1>4, <2>1 DEF Attended
  <2> QED BY <1>4, <1>5, <2>1, <2>2 DEF Attended
<1>9. Real(c)'
  BY <1>4, <1>5 DEF Commit, Receiving, Handles, Field, Real, Kept
<1>10. UNCHANGED <<proc, manager>> /\ fin' = fin /\ (proc = "crashed" => link'[c] = "down")
  BY DEF Commit, Receiving, Handles, Field, Spool
<1> QED BY <1>4, <1>5, <1>6, <1>7, <1>8, <1>9, <1>10, StepInv

\* handleAbort.
LEMMA AbortInv ==
    ASSUME IInv, NEW c \in Conns, Abort(c)
    PROVE  IInv'
<1> USE DEF IInv
<1> USE DEF workers, seen
<1> DEFINE u == upload[c]
           w == [u EXCEPT !.cancelled = TRUE]
<1>1. u \in Uploads
  BY DEF Abort, Field, TypeOK
<1>2. w \in Uploads
  BY <1>1 DEF Uploads
<1>3. upload' = [upload EXCEPT ![c] = w]
  BY <1>1 DEF Abort, Field, TypeOK
<1>4. /\ upload' \in [Conns -> Uploads \cup {None}]
      /\ upload'[c] = w /\ u # None /\ w # None
      /\ \A d \in Conns \ {c} : upload'[d] = upload[d]
  BY <1>1, <1>2, <1>3, Rewritten
<1>5. /\ Kept(u, w) /\ w.disk = u.disk
      /\ w.finished = u.finished /\ w.phase = u.phase /\ w.answer = u.answer /\ w.offset = u.offset
  BY <1>1, <1>2 DEF Kept, Uploads
<1> HIDE DEF w
<1>6. TypeOK'
  BY <1>4 DEF Abort, Field, TypeOK, manager
<1>7. Local(c)
  BY <1>4 DEF Abort, Field, TypeOK, Local
<1>8. Attended(c)'
  <2>1. UNCHANGED <<reader, monitor, commit, fin, link>>
    BY DEF Abort
  <2>2. w.size = u.size /\ w.good = u.good
    BY <1>5 DEF Kept
  <2> QED BY <1>4, <1>5, <2>1, <2>2 DEF Attended, Verified
<1>9. Real(c)'
  BY <1>4, <1>5 DEF Abort, Field, Real, Kept
<1>10. UNCHANGED <<proc, manager>> /\ fin' = fin /\ (proc = "crashed" => link'[c] = "down")
  BY DEF Abort, Field, Spool
<1> QED BY <1>4, <1>5, <1>6, <1>7, <1>8, <1>9, <1>10, StepInv

\* claimReceivingFinish: an upload the commit has taken over is left to it.
LEMMA MonitorClaimsInv ==
    ASSUME IInv, NEW c \in Conns, MonitorClaims(c)
    PROVE  IInv'
<1> USE DEF IInv
<1> USE DEF workers, seen
<1>0. PICK answer \in {"none", "error"} :
         upload' = [upload EXCEPT ![c].finished = TRUE, ![c].answer = answer]
  BY DEF MonitorClaims
<1> DEFINE u == upload[c]
           w == [u EXCEPT !.finished = TRUE, !.answer = answer]
<1>1. u \in Uploads
  BY DEF MonitorClaims, ClaimReceivingFinish, TypeOK
<1>2. w \in Uploads
  BY <1>1, <1>0 DEF Uploads
<1>3. upload' = [upload EXCEPT ![c] = w]
  BY <1>1, <1>0 DEF MonitorClaims, ClaimReceivingFinish, TypeOK
<1>4. /\ upload' \in [Conns -> Uploads \cup {None}]
      /\ upload'[c] = w /\ u # None /\ w # None
      /\ \A d \in Conns \ {c} : upload'[d] = upload[d]
  BY <1>1, <1>2, <1>3, Rewritten
<1>5. /\ Kept(u, w) /\ w.disk = u.disk
      /\ w.finished /\ w.phase = u.phase /\ w.answer # "ok"
  BY <1>1, <1>2, <1>0 DEF Kept, Uploads
<1> HIDE DEF w
<1>6. TypeOK'
  BY <1>4 DEF MonitorClaims, ClaimReceivingFinish, TypeOK, manager
<1>7. Local(c)
  BY <1>4 DEF MonitorClaims, ClaimReceivingFinish, TypeOK, Local
<1>8. Attended(c)'
  BY <1>4, <1>5 DEF MonitorClaims, ClaimReceivingFinish, TypeOK, Attended, Verified
<1>9. Real(c)'
  BY <1>4, <1>5 DEF MonitorClaims, ClaimReceivingFinish, Real, Kept
<1>10. UNCHANGED <<proc, manager>> /\ fin' = fin /\ (proc = "crashed" => link'[c] = "down")
  BY DEF MonitorClaims, ClaimReceivingFinish, Spool
<1> QED BY <1>4, <1>5, <1>6, <1>7, <1>8, <1>9, <1>10, StepInv

\* commit: a file that does not match what was declared.
LEMMA CommitRejectsInv ==
    ASSUME IInv, NEW c \in Conns, CommitRejects(c)
    PROVE  IInv'
<1> USE DEF IInv
<1> USE DEF workers, seen
<1> DEFINE u == upload[c]
           w == [u EXCEPT !.answer = "error", !.cache = TRUE]
<1>1. u \in Uploads
  BY DEF CommitRejects, TypeOK, Attended
<1>2. w \in Uploads
  BY <1>1 DEF Uploads
<1>3. upload' = [upload EXCEPT ![c] = w]
  BY <1>1 DEF CommitRejects, TypeOK
<1>4. /\ upload' \in [Conns -> Uploads \cup {None}]
      /\ upload'[c] = w /\ u # None /\ w # None
      /\ \A d \in Conns \ {c} : upload'[d] = upload[d]
  BY <1>1, <1>2, <1>3, Rewritten
<1>5. /\ Kept(u, w) /\ w.disk = u.disk
      /\ w.finished = u.finished /\ w.phase = u.phase /\ w.answer = "error"
  BY <1>1, <1>2 DEF Kept, Uploads
<1> HIDE DEF w
<1>6. TypeOK'
  BY <1>4 DEF CommitRejects, TypeOK, manager
<1>7. Local(c)
  BY <1>4 DEF CommitRejects, TypeOK, Local
<1>8. Attended(c)'
  BY <1>4, <1>5 DEF CommitRejects, TypeOK, Attended, Verified
<1>9. Real(c)'
  BY <1>4, <1>5 DEF CommitRejects, Real, Kept
<1>10. UNCHANGED <<proc, manager>> /\ fin' = fin /\ (proc = "crashed" => link'[c] = "down")
  BY DEF CommitRejects, Spool
<1> QED BY <1>4, <1>5, <1>6, <1>7, <1>8, <1>9, <1>10, StepInv

\* The gateway has accepted the file commit handed it, which was verified.
LEMMA AcceptedWhole ==
    ASSUME IInv, NEW c \in Conns, commit[c] = "attach", GatewayAccepts(c)
    PROVE  /\ attached' \in [Conns -> SUBSET [id : Ids, whole : BOOLEAN]]
           /\ attached[c] \subseteq attached'[c] /\ \A a \in attached'[c] : a.whole
           /\ \E a \in attached'[c] : a.id = upload[c].id
           /\ \A d \in Conns \ {c} : attached'[d] = attached[d]
<1> DEFINE new == [id |-> upload[c].id,
                   whole |-> upload[c].offset = upload[c].size /\ upload[c].good]
<1>1. upload[c] \in Uploads /\ Verified(c) /\ Real(c)
  BY DEF IInv, TypeOK, Attended
<1>2. new \in [id : Ids, whole : BOOLEAN] /\ new.whole /\ new.id = upload[c].id
  BY <1>1 DEF Verified, Uploads
<1>3. attached' = [attached EXCEPT ![c] = attached[c] \cup {new}]
  BY DEF GatewayAccepts
<1> HIDE DEF new
<1>4. attached \in [Conns -> SUBSET [id : Ids, whole : BOOLEAN]]
  BY DEF IInv, TypeOK
<1>5. /\ attached' \in [Conns -> SUBSET [id : Ids, whole : BOOLEAN]]
      /\ attached'[c] = attached[c] \cup {new}
      /\ \A d \in Conns \ {c} : attached'[d] = attached[d]
  BY <1>2, <1>3, <1>4
<1> QED BY <1>1, <1>2, <1>5 DEF Real

\* callFileAttach returns, the gateway having attached the file or not.
LEMMA AttachInv ==
    ASSUME IInv, NEW c \in Conns, AttachSucceeds(c) \/ AttachFails(c)
    PROVE  IInv'
<1> USE DEF IInv
<1> USE DEF workers, seen
<1>0. PICK answer \in {"none", "error", "ok"}, cache \in BOOLEAN :
         /\ upload' = [upload EXCEPT ![c].answer = answer, ![c].cache = cache]
         /\ answer = "ok" => GatewayAccepts(c)
  BY DEF AttachSucceeds, AttachFails
<1> DEFINE u == upload[c]
           w == [u EXCEPT !.answer = answer, !.cache = cache]
<1>1. u \in Uploads /\ commit[c] = "attach"
  BY DEF AttachSucceeds, AttachFails, TypeOK, Attended
<1>2. w \in Uploads
  BY <1>1 DEF Uploads
<1>3. upload' = [upload EXCEPT ![c] = w]
  BY <1>0, <1>1 DEF TypeOK
<1>4. /\ upload' \in [Conns -> Uploads \cup {None}]
      /\ upload'[c] = w /\ u # None /\ w # None
      /\ \A d \in Conns \ {c} : upload'[d] = upload[d]
  BY <1>1, <1>2, <1>3, Rewritten
<1>5. /\ Kept(u, w) /\ w.disk = u.disk
      /\ w.finished = u.finished /\ w.phase = u.phase /\ w.answer = answer
  BY <1>1, <1>2 DEF Kept, Uploads
<1>6. /\ attached' \in [Conns -> SUBSET [id : Ids, whole : BOOLEAN]]
      /\ attached[c] \subseteq attached'[c] /\ \A a \in attached'[c] : a.whole
      /\ \A d \in Conns \ {c} : attached'[d] = attached[d]
      /\ answer = "ok" => \E a \in attached'[c] : a.id = u.id
  <2>1. CASE GatewayAccepts(c)
    BY <1>1, <2>1, AcceptedWhole
  <2>2. CASE ~GatewayAccepts(c)
    <3>1. attached' = attached /\ answer # "ok"
      BY <1>0, <2>2 DEF AttachSucceeds, AttachFails
    <3> QED BY <3>1 DEF TypeOK, Real
  <2> QED BY <2>1, <2>2
<1> HIDE DEF w
<1>7. /\ UNCHANGED <<proc, manager, link, reader, monitor, fin, completed>>
      /\ commit' = [commit EXCEPT ![c] = "decided"]
  BY DEF AttachSucceeds, AttachFails
<1>8. TypeOK'
  BY <1>4, <1>6, <1>7 DEF TypeOK, manager
<1>9. Local(c)
  BY <1>4, <1>6, <1>7 DEF TypeOK, Local
<1>10. Attended(c)'
  <2>1. commit'[c] = "decided"
    BY <1>7 DEF TypeOK
  <2> QED BY <1>1, <1>4, <1>5, <1>7, <2>1 DEF Attended
<1>11. Real(c)'
  BY <1>4, <1>5, <1>6, <1>7 DEF Real, Kept
<1>12. proc = "crashed" => link'[c] = "down"
  BY <1>7 DEF Spool
<1> QED BY <1>4, <1>5, <1>7, <1>8, <1>9, <1>10, <1>11, <1>12, StepInv

\* finish keeps the answer for a repeated commit.
LEMMA AnswersInv ==
    ASSUME IInv, NEW c \in Conns, FinishAnswers(c)
    PROVE  IInv'
<1> USE DEF IInv
<1> USE DEF workers, seen
<1> DEFINE u == upload[c]
           r == IF u.cache /\ u.answer # "none" THEN [id |-> u.id, ok |-> u.answer = "ok"]
                                               ELSE completed[c]
<1>1. u \in Uploads /\ u # None
  BY DEF FinishAnswers, Attended, TypeOK
<1>2. /\ completed' = [completed EXCEPT ![c] = r] /\ fin' = [fin EXCEPT ![c] = "answered"]
      /\ UNCHANGED <<proc, manager, link, reader, monitor, commit, upload, attached>>
      /\ fin[c] = "cleaned"
  BY DEF FinishAnswers
<1>3. /\ r \in Results \cup {None}
      /\ r # None /\ r.ok => \E a \in attached[c] : a.id = r.id
  <2>1. CASE u.cache /\ u.answer # "none"
    <3>1. r \in Results /\ r.id = u.id /\ (r.ok => u.answer = "ok")
      BY <1>1, <2>1 DEF Uploads, Results
    <3> QED BY <1>1, <3>1 DEF Real
  <2>2. CASE ~(u.cache /\ u.answer # "none")
    BY <2>2 DEF TypeOK, Real
  <2> QED BY <2>1, <2>2
<1> HIDE DEF r
<1>4. TypeOK'
  BY <1>2, <1>3 DEF TypeOK, manager
<1>5. Local(c)
  BY <1>2 DEF Local, TypeOK
<1>6. Attended(c)'
  <2>1. fin'[c] = "answered"
    BY <1>2 DEF TypeOK
  <2> QED BY <1>2, <2>1 DEF Attended, Verified
<1>7. Real(c)'
  <2>1. completed'[c] = r
    BY <1>2 DEF TypeOK
  <2> QED BY <1>2, <1>3, <2>1 DEF Real
<1>8. Kept(upload[c], upload'[c])
  BY <1>1, <1>2 DEF Kept
<1>9. proc = "crashed" => link'[c] = "down"
  BY <1>2 DEF Spool
<1> QED BY <1>1, <1>2, <1>4, <1>5, <1>6, <1>7, <1>8, <1>9, StepInv

\* The tunnel's context is cancelled, and with it the upload's.
LEMMA TunnelEndsInv ==
    ASSUME IInv, NEW c \in Conns, TunnelEnds(c)
    PROVE  IInv'
<1> USE DEF IInv
<1> USE DEF workers, seen
<1>1. /\ UNCHANGED <<proc, manager, reader, monitor, commit, fin, completed, attached>>
      /\ link' = [link EXCEPT ![c] = "closing"] /\ link[c] = "up"
  BY DEF TunnelEnds
<1>2. /\ upload' \in [Conns -> Uploads \cup {None}]
      /\ \A d \in Conns \ {c} : upload'[d] = upload[d]
      /\ upload[c] = None => upload'[c] = None
      /\ upload[c] # None =>
            /\ Kept(upload[c], upload'[c]) /\ upload'[c] # None
            /\ upload'[c].disk = upload[c].disk /\ upload'[c].finished = upload[c].finished
            /\ upload'[c].phase = upload[c].phase /\ upload'[c].answer = upload[c].answer
            /\ upload'[c].offset = upload[c].offset
  <2>1. CASE upload[c] = None
    BY <2>1 DEF TunnelEnds, TypeOK
  <2>2. CASE upload[c] # None
    <3> DEFINE u == upload[c]
               w == [u EXCEPT !.cancelled = TRUE]
    <3>1. u \in Uploads
      BY <2>2 DEF TypeOK
    <3>2. w \in Uploads
      BY <3>1 DEF Uploads
    <3>3. upload' = [upload EXCEPT ![c] = w]
      BY <2>2, <3>1 DEF TunnelEnds, Field, TypeOK
    <3>4. /\ Kept(u, w) /\ w.disk = u.disk /\ w.finished = u.finished /\ w.phase = u.phase
          /\ w.answer = u.answer /\ w.offset = u.offset
      BY <3>1, <3>2 DEF Kept, Uploads
    <3> HIDE DEF w
    <3> QED BY <2>2, <3>1, <3>2, <3>3, <3>4, Rewritten
  <2> QED BY <2>1, <2>2
<1>3. TypeOK'
  BY <1>1, <1>2 DEF TypeOK, manager
<1>4. Local(c)
  BY <1>1, <1>2 DEF Local, TypeOK
<1>5. link'[c] = "closing"
  BY <1>1 DEF TypeOK
<1>6. Attended(c)'
  <2>1. upload[c] # None => upload'[c].size = upload[c].size /\ upload'[c].good = upload[c].good
    BY <1>2 DEF Kept
  <2> QED BY <1>1, <1>2, <1>5, <2>1 DEF Attended, Verified
<1>7. Real(c)'
  BY <1>1, <1>2 DEF Real, Kept
<1>8. proc # "crashed"
  BY <1>1 DEF Spool
<1> QED BY <1>1, <1>2, <1>3, <1>4, <1>6, <1>7, <1>8, StepInv

-----------------------------------------------------------------------------
\* finish, and the steps of the spool.

LEMMA SizesNat ==
    ASSUME IInv
    PROVE  /\ OnDisk \subseteq Open /\ Open \subseteq Conns
           /\ \A c \in Open : upload[c].size \in Nat /\ upload[c].size <= MaxBytes
           /\ Bytes(upload, Open) \in Nat /\ Bytes(upload, OnDisk) \in Nat
           /\ Bytes(upload, OnDisk) <= Bytes(upload, Open)
           /\ Cardinality(Open) \in Nat /\ IsFiniteSet(Open)
<1>1. OnDisk \subseteq Open /\ Open \subseteq Conns
  BY DEF OnDisk, Open
<1>2. \A c \in Open : upload[c].size \in Nat /\ upload[c].size <= MaxBytes
  <2>1. \A c \in Open : upload[c] \in Uploads
    BY DEF IInv, TypeOK, Open
  <2>2. \A c \in Open : upload[c].size \in Nat
    BY <2>1, SpoolAssumption DEF Uploads
  <2> QED BY <2>2 DEF IInv, Spool
<1> QED BY <1>1, <1>2, BytesSubset, ConnsFinite

\* finish is never called for a file the commit still reads: the reader and the monitor end
\* uploads that receive.
LEMMA CallerOwns ==
    ASSUME IInv, NEW c \in Conns, NEW who, Caller(c, who), upload[c] # None
    PROVE  commit[c] \notin {"verify", "attach"}
BY DEF IInv, Caller, Attended

\* finish marks the upload finished, with its directory removed or not.
LEMMA FinishRewrites ==
    ASSUME IInv, NEW c \in Conns, NEW who, FinishCleans(c, who) \/ FinishCannotClean(c, who)
    PROVE  /\ upload[c] # None /\ Kept(upload[c], upload'[c]) /\ upload'[c] # None
           /\ upload'[c].finished /\ upload'[c].phase = upload[c].phase
           /\ upload'[c].answer = "ok" => upload[c].answer = "ok"
           /\ upload'[c].disk => upload[c].disk /\ FinishCannotClean(c, who)
           /\ upload' \in [Conns -> Uploads \cup {None}]
           /\ \A d \in Conns \ {c} : upload'[d] = upload[d]
<1> DEFINE u == upload[c]
<1>1. u \in Uploads /\ u # None
  BY DEF FinishCleans, FinishCannotClean, IInv, TypeOK
<1>2. CASE FinishCleans(c, who)
  <2> DEFINE wanted == Wanted(c, who)
             w == [u EXCEPT !.finished = TRUE, !.cancelled = TRUE, !.disk = FALSE,
                            !.answer = wanted.answer, !.cache = wanted.cache]
  <2>1. /\ wanted.answer \in {"none", "error", "ok"} /\ wanted.cache \in BOOLEAN
        /\ wanted.answer = "ok" => u.answer = "ok"
    BY <1>1 DEF Wanted, Uploads
  <2>2. upload' = [upload EXCEPT ![c].finished = TRUE, ![c].cancelled = TRUE, ![c].disk = FALSE,
                                 ![c].answer = wanted.answer, ![c].cache = wanted.cache]
    BY <1>2 DEF FinishCleans
  <2> HIDE DEF wanted
  <2>3. upload' = [upload EXCEPT ![c] = w]
    BY <1>1, <2>2 DEF IInv, TypeOK
  <2>4. w \in Uploads
    BY <1>1, <2>1 DEF Uploads
  <2>5. /\ Kept(u, w) /\ w.finished /\ w.phase = u.phase /\ ~w.disk
        /\ w.answer = "ok" => u.answer = "ok"
    BY <1>1, <2>1, <2>4 DEF Kept, Uploads
  <2> HIDE DEF w
  <2> QED BY <1>1, <2>3, <2>4, <2>5, Rewritten
<1>3. CASE FinishCannotClean(c, who)
  <2> DEFINE w == [u EXCEPT !.finished = TRUE, !.cancelled = TRUE,
                            !.answer = "error", !.cache = TRUE]
  <2>1. upload' = [upload EXCEPT ![c] = w]
    BY <1>1, <1>3 DEF FinishCannotClean, IInv, TypeOK
  <2>2. w \in Uploads
    BY <1>1 DEF Uploads
  <2>3. /\ Kept(u, w) /\ w.finished /\ w.phase = u.phase /\ w.disk = u.disk
        /\ w.answer = "error"
    BY <1>1, <2>2 DEF Kept, Uploads
  <2> HIDE DEF w
  <2> QED BY <1>1, <1>3, <2>1, <2>2, <2>3, Rewritten
<1> QED BY <1>2, <1>3

LEMMA FinishInv ==
    ASSUME IInv, NEW c \in Conns, NEW who, FinishCleans(c, who) \/ FinishCannotClean(c, who)
    PROVE  IInv'
<1> USE DEF IInv
<1> USE DEF workers, seen
<1>1. /\ upload[c] # None /\ Kept(upload[c], upload'[c]) /\ upload'[c] # None
      /\ upload'[c].finished /\ upload'[c].phase = upload[c].phase
      /\ upload'[c].answer = "ok" => upload[c].answer = "ok"
      /\ upload'[c].disk => upload[c].disk /\ FinishCannotClean(c, who)
      /\ upload' \in [Conns -> Uploads \cup {None}]
      /\ \A d \in Conns \ {c} : upload'[d] = upload[d]
  BY FinishRewrites
<1>2. /\ UNCHANGED <<proc, active, reserved, stale, link, reader, monitor, commit>>
      /\ UNCHANGED <<completed, attached>>
      /\ fin[c] = "none" /\ fin' = [fin EXCEPT ![c] = "cleaned"]
      /\ initErr' \in BOOLEAN /\ (initErr => initErr') /\ (FinishCannotClean(c, who) => initErr')
  BY DEF FinishCleans, FinishCannotClean, manager, TypeOK
<1>3. Caller(c, who) /\ commit[c] \notin {"verify", "attach"}
  BY <1>1, CallerOwns DEF FinishCleans, FinishCannotClean
<1>4. TypeOK'
  BY <1>1, <1>2 DEF TypeOK
<1>5. Local(c)
  BY <1>1, <1>2 DEF Local, TypeOK
<1>6. fin'[c] = "cleaned"
  BY <1>2 DEF TypeOK
<1>7. Attended(c)'
  <2>1. monitor[c] = "claimed" \/ commit[c] # "none" \/ reader[c] = "failing"
    BY <1>3 DEF Caller
  <2> QED BY <1>1, <1>2, <1>3, <1>6, <2>1 DEF Attended
<1>8. Real(c)'
  BY <1>1, <1>2 DEF Real, Kept
<1>9. Spool'
  <2>1. \A d \in Conns : /\ upload'[d] = None <=> upload[d] = None
                         /\ upload[d] # None => upload'[d].size = upload[d].size
                         /\ upload[d] # None /\ upload'[d].disk => upload[d].disk
    BY <1>1 DEF Kept
  <2>2. Open' = Open /\ OnDisk' \subseteq OnDisk
    BY <2>1 DEF Open, OnDisk
  <2>3. /\ Bytes(upload', Open) = Bytes(upload, Open)
        /\ Bytes(upload', OnDisk') = Bytes(upload, OnDisk')
    BY <2>1, BytesAgree DEF Open, OnDisk
  <2>4. /\ Bytes(upload, OnDisk') <= Bytes(upload, OnDisk)
        /\ Bytes(upload, OnDisk') \in Nat /\ Bytes(upload, OnDisk) \in Nat
    BY <2>2, SizesNat, BytesSubset
  <2>5. (stale + Bytes(upload, OnDisk) <= MaxBytes)'
    BY <1>2, <2>3, <2>4, SpoolAssumption DEF Spool, TypeOK
  <2>6. \A d \in Open : fin'[d] # "none" /\ upload'[d].disk => initErr'
    BY <1>1, <1>2 DEF Spool, Open, TypeOK
  <2>7. \A d \in Open : upload'[d].size <= MaxBytes
    BY <2>1 DEF Spool, Open
  <2> QED BY <1>2, <2>2, <2>3, <2>5, <2>6, <2>7 DEF Spool
<1> QED BY <1>4, <1>5, <1>7, <1>8, <1>9, OthersInv

\* reserve: what an upload or a directory that cannot be removed takes fits the quota.
LEMMA ReserveFits ==
    ASSUME IInv, NEW c \in Conns, Handles(c), NEW size \in Sizes, Reserve(size)
    PROVE  /\ proc = "up" /\ ~initErr /\ link[c] # "down"
           /\ stale = 0 /\ active = Cardinality(Open) /\ reserved = Bytes(upload, Open)
           /\ size \in Nat /\ size <= MaxBytes
           /\ active + 1 \in 0..MaxUploads /\ reserved + size \in 0..MaxBytes
<1> USE DEF IInv
<1>1. link[c] # "down"
  BY DEF Handles, Attended
<1>2. proc = "up" /\ ~initErr
  BY <1>1 DEF Spool, TypeOK, Reserve
<1>3. size \in Nat /\ reserved \in 0..MaxBytes /\ active \in 0..MaxUploads
  BY SpoolAssumption DEF TypeOK
<1>4. size <= MaxBytes /\ active + 1 \in 0..MaxUploads /\ reserved + size \in 0..MaxBytes
  BY <1>3, SpoolAssumption DEF Reserve
<1> QED BY <1>1, <1>2, <1>3, <1>4 DEF Spool

\* handleBegin.
LEMMA BeginInv ==
    ASSUME IInv, NEW c \in Conns, NEW id \in Ids, NEW size \in Sizes, NEW good \in BOOLEAN,
           Begin(c, id, size, good)
    PROVE  IInv'
<1> USE DEF IInv
<1> USE DEF workers, seen
<1> DEFINE w == [id |-> id, size |-> size, good |-> good, offset |-> 0, phase |-> "receiving",
                 finished |-> FALSE, cancelled |-> link[c] # "up", disk |-> TRUE,
                 answer |-> "none", cache |-> FALSE]
<1>1. /\ proc = "up" /\ ~initErr /\ link[c] # "down"
      /\ stale = 0 /\ active = Cardinality(Open) /\ reserved = Bytes(upload, Open)
      /\ size \in Nat /\ size <= MaxBytes
      /\ active + 1 \in 0..MaxUploads /\ reserved + size \in 0..MaxBytes
  BY ReserveFits DEF Begin
<1>2. /\ upload[c] = None /\ reader[c] = "idle" /\ upload' = [upload EXCEPT ![c] = w]
      /\ active' = active + 1 /\ reserved' = reserved + size
      /\ monitor' = [monitor EXCEPT ![c] = "watching"]
      /\ UNCHANGED <<proc, initErr, stale, link, reader, commit, fin, completed, attached>>
  BY DEF Begin, Handles
<1>3. w \in Uploads /\ w # None
  <2>1. PICK gone \in BOOLEAN : gone = (link[c] # "up")
    OBVIOUS
  <2>2. w \in Uploads
    BY <2>1 DEF Uploads
  <2> QED BY <2>2, NoneAssumption
<1>4. /\ w.size = size /\ w.disk /\ ~w.finished /\ w.phase = "receiving" /\ w.answer = "none"
  OBVIOUS
<1> HIDE DEF w
<1>5. /\ upload' \in [Conns -> Uploads \cup {None}] /\ upload'[c] = w
      /\ \A d \in Conns \ {c} : upload'[d] = upload[d]
  BY <1>2, <1>3 DEF TypeOK
<1>6. TypeOK'
  BY <1>1, <1>2, <1>5 DEF TypeOK
<1>7. Local(c)
  BY <1>2, <1>5 DEF Local, TypeOK
<1>8. Attended(c)'
  <2>1. monitor'[c] = "watching" /\ fin[c] = "none" /\ commit[c] = "none"
    BY <1>2 DEF TypeOK, Attended
  <2> QED BY <1>1, <1>2, <1>3, <1>4, <1>5, <2>1 DEF Attended
<1>9. Real(c)'
  BY <1>2, <1>4, <1>5 DEF Real
<1>10. Spool'
  <2>1. Open' = Open \cup {c} /\ c \notin Open
    BY <1>2, <1>3, <1>5 DEF Open
  <2>2. Cardinality(Open') = Cardinality(Open) + 1
    BY <2>1, SizesNat, FS_AddElement
  <2>3. \A d \in Open \cup {c} : upload'[d].size \in Nat /\ upload'[d].size <= MaxBytes
    BY <1>1, <1>4, <1>5, <2>1, SizesNat
  <2>4. Bytes(upload', Open) = Bytes(upload, Open)
    BY <1>5, <2>1, BytesAgree, SizesNat
  <2>5. Bytes(upload', Open') = Bytes(upload, Open) + size
    <3>1. Bytes(upload', Open \cup {c}) = Bytes(upload', Open) + upload'[c].size
      BY <2>1, <2>3, SizesNat, BytesAdd
    <3> QED BY <1>4, <1>5, <2>1, <2>4, <3>1
  <2>6. OnDisk' \subseteq Open' /\ Open' \subseteq Conns
    BY DEF OnDisk, Open
  <2>7. Bytes(upload', OnDisk') <= Bytes(upload', Open') /\ Bytes(upload', OnDisk') \in Nat
    BY <2>1, <2>3, <2>6, BytesSubset
  <2>8. stale' + Bytes(upload', OnDisk') <= MaxBytes
    BY <1>1, <1>2, <2>5, <2>7, SpoolAssumption
  <2>9. \A d \in Open' : fin'[d] # "none" /\ upload'[d].disk => initErr'
    BY <1>2, <1>5, <2>1 DEF Spool, Attended
  <2>10. /\ Cardinality(Open') = active' /\ Bytes(upload', Open') = reserved'
         /\ active' \in Nat /\ reserved' \in Nat
    BY <1>1, <1>2, <2>2, <2>5
  <2> QED BY <1>1, <1>2, <2>1, <2>3, <2>8, <2>9, <2>10 DEF Spool
<1> QED BY <1>6, <1>7, <1>8, <1>9, <1>10, OthersInv

\* handleBegin, when the payload's directory is left behind: the spool is closed.
LEMMA BeginLeavesInv ==
    ASSUME IInv, NEW c \in Conns, NEW size \in Sizes, BeginLeavesDirectory(c, size)
    PROVE  IInv'
<1> USE DEF IInv
<1> USE DEF workers, seen
<1>1. /\ proc = "up" /\ active = Cardinality(Open) /\ reserved = Bytes(upload, Open)
      /\ size \in Nat /\ active + 1 \in 0..MaxUploads /\ reserved + size \in 0..MaxBytes
  BY ReserveFits DEF BeginLeavesDirectory
<1>2. /\ active' = active + 1 /\ reserved' = reserved + size /\ initErr' = TRUE
      /\ UNCHANGED <<proc, stale, link, reader, monitor, commit, upload, fin, completed, attached>>
  BY DEF BeginLeavesDirectory
<1>3. TypeOK'
  BY <1>1, <1>2 DEF TypeOK
<1>4. \A d \in Conns : Attended(d)' /\ Real(d)'
  BY <1>2 DEF Attended, Real, Verified
<1>5. Open' = Open /\ OnDisk' = OnDisk
  BY <1>2 DEF Open, OnDisk
<1>6. Cardinality(Open) <= active' /\ Bytes(upload, Open) <= reserved'
  BY <1>1, <1>2, SizesNat
<1>7. Spool'
  BY <1>1, <1>2, <1>5, <1>6 DEF Spool
<1> QED BY <1>3, <1>4, <1>7

\* settleCleanup: the reservation is given back, or stays with the directory.
LEMMA SettlesInv ==
    ASSUME IInv, NEW c \in Conns, FinishSettles(c)
    PROVE  IInv'
<1> USE DEF IInv
<1> USE DEF workers, seen
<1> DEFINE u == upload[c]
<1>1. u \in Uploads /\ u # None /\ u.finished /\ (u.disk => initErr)
  BY DEF FinishSettles, Attended, TypeOK, Spool, Open
<1>2. /\ upload' = [upload EXCEPT ![c] = None] /\ fin' = [fin EXCEPT ![c] = "none"]
      /\ monitor' = [monitor EXCEPT ![c] = "none"] /\ commit' = [commit EXCEPT ![c] = "none"]
      /\ reader' = [reader EXCEPT ![c] = IF @ = "failing" THEN "idle" ELSE @]
      /\ UNCHANGED <<proc, initErr, link, completed, attached>>
  BY DEF FinishSettles
<1>3. /\ upload' \in [Conns -> Uploads \cup {None}] /\ upload'[c] = None
      /\ \A d \in Conns \ {c} : upload'[d] = upload[d]
  BY <1>2 DEF TypeOK
<1>4. Open = Open' \cup {c} /\ c \notin Open' /\ Open' \subseteq Conns
  BY <1>1, <1>3 DEF Open
<1>5. Cardinality(Open) = Cardinality(Open') + 1 /\ Cardinality(Open') \in Nat
  BY <1>4, ConnsFinite, FS_AddElement
<1>6. /\ \A d \in Open : upload[d].size \in Nat /\ upload[d].size <= MaxBytes
      /\ OnDisk \subseteq Open /\ Open \subseteq Conns
      /\ Bytes(upload, Open) \in Nat /\ Bytes(upload, OnDisk) \in Nat
  BY SizesNat
<1>7. Bytes(upload, Open) = Bytes(upload, Open') + u.size /\ Bytes(upload, Open') \in Nat
  BY <1>4, <1>6, BytesAdd
<1>8. /\ Bytes(upload', Open') = Bytes(upload, Open')
      /\ Bytes(upload', OnDisk') = Bytes(upload, OnDisk')
  <2>1. \A d \in Open' : upload'[d].size = upload[d].size
    BY <1>3, <1>4
  <2>2. OnDisk' \subseteq Open'
    BY DEF OnDisk, Open
  <2> QED BY <2>1, <2>2, BytesAgree
<1>9. IF u.disk THEN OnDisk = OnDisk' \cup {c} /\ c \notin OnDisk' ELSE OnDisk = OnDisk'
  BY <1>1, <1>3 DEF OnDisk
<1>10. u.size \in Nat /\ stale \in Nat /\ active \in Nat /\ reserved \in Nat
  BY <1>4, <1>6, SpoolAssumption DEF TypeOK
<1>11. /\ stale' + Bytes(upload', OnDisk') = stale + Bytes(upload, OnDisk)
       /\ stale' \in Nat /\ Bytes(upload', OnDisk') \in Nat
  <2>1. CASE u.disk
    <3>1. stale' = stale + u.size
      BY <2>1 DEF FinishSettles
    <3>2. Bytes(upload, OnDisk) = Bytes(upload, OnDisk') + u.size /\ Bytes(upload, OnDisk') \in Nat
      <4>1. /\ OnDisk' \subseteq Conns
            /\ \A d \in OnDisk' \cup {c} : upload[d].size \in Nat /\ upload[d].size <= MaxBytes
        BY <1>6, <1>9, <2>1
      <4>2. Bytes(upload, OnDisk' \cup {c}) = Bytes(upload, OnDisk') + upload[c].size
               /\ Bytes(upload, OnDisk') \in Nat
        BY <1>9, <2>1, <4>1, BytesAdd
      <4> QED BY <1>9, <2>1, <4>2
    <3> QED BY <1>8, <1>10, <3>1, <3>2
  <2>2. CASE ~u.disk
    BY <1>6, <1>8, <1>9, <1>10, <2>2 DEF FinishSettles
  <2> QED BY <2>1, <2>2
<1>12. /\ Cardinality(Open') <= active' /\ Bytes(upload', Open') <= reserved'
       /\ active' \in 0..active /\ reserved' \in 0..reserved
       /\ ~initErr => Cardinality(Open') = active' /\ Bytes(upload', Open') = reserved'
  <2>1. /\ Cardinality(Open) <= active /\ Bytes(upload, Open) <= reserved
        /\ ~initErr => Cardinality(Open) = active /\ Bytes(upload, Open) = reserved
    BY DEF Spool
  <2>2. CASE u.disk
    <3>1. active' = active /\ reserved' = reserved
      BY <2>2 DEF FinishSettles
    <3> QED BY <1>1, <1>5, <1>7, <1>8, <1>10, <2>1, <2>2, <3>1
  <2>3. CASE ~u.disk
    <3>1. active' = active - 1 /\ reserved' = reserved - u.size
      BY <2>3 DEF FinishSettles
    <3>2. /\ Cardinality(Open') <= active' /\ active' \in 0..active
          /\ ~initErr => Cardinality(Open') = active'
      BY <1>5, <1>10, <2>1, <3>1
    <3>3. /\ Bytes(upload, Open') <= reserved' /\ reserved' \in 0..reserved
          /\ ~initErr => Bytes(upload, Open') = reserved'
      BY <1>7, <1>10, <2>1, <3>1
    <3> QED BY <1>8, <3>2, <3>3
  <2> QED BY <2>2, <2>3
<1>13. stale' + Bytes(upload', OnDisk') <= MaxBytes
  BY <1>11 DEF Spool
<1>14. TypeOK'
  <2>1. active' \in 0..MaxUploads /\ reserved' \in 0..MaxBytes /\ stale' \in 0..MaxBytes
    BY <1>11, <1>12, <1>13, SpoolAssumption DEF TypeOK
  <2>2. /\ reader' \in [Conns -> {"idle", "failing", "stopped"}]
        /\ monitor' \in [Conns -> {"none", "watching", "claimed"}]
        /\ commit' \in [Conns -> {"none", "verify", "attach", "decided"}]
        /\ fin' \in [Conns -> {"none", "cleaned", "answered"}]
    BY <1>2 DEF TypeOK
  <2> QED BY <1>2, <1>3, <2>1, <2>2 DEF TypeOK
<1>15. Local(c)
  BY <1>2, <1>3 DEF Local, TypeOK
<1>16. Attended(c)'
  <2>1. /\ fin'[c] = "none" /\ monitor'[c] = "none" /\ commit'[c] = "none"
        /\ reader'[c] # "failing" /\ link'[c] # "down"
    BY <1>1, <1>2 DEF TypeOK, Attended
  <2> QED BY <1>3, <2>1 DEF Attended
<1>17. Real(c)'
  BY <1>2, <1>3 DEF Real
<1>18. Spool'
  <2>1. \A d \in Open' : upload'[d].size <= MaxBytes
    BY <1>3, <1>4 DEF Spool
  <2>2. \A d \in Open' : fin'[d] # "none" /\ upload'[d].disk => initErr'
    BY <1>2, <1>3, <1>4, <1>15 DEF Spool, Local
  <2>3. ~initErr' /\ proc' = "up" => stale' = 0
    <3>1. ~initErr => stale' = stale
      BY <1>1 DEF FinishSettles
    <3> QED BY <1>2, <3>1 DEF Spool
  <2>4. proc # "crashed"
    BY <1>1 DEF Spool, Attended
  <2> QED BY <1>2, <1>12, <1>13, <2>1, <2>2, <2>3, <2>4 DEF Spool
<1> QED BY <1>14, <1>15, <1>16, <1>17, <1>18, OthersInv

\* Nothing of the process is left after a crash, and nothing but the spool before the start.
LEMMA NoUploads ==
    ASSUME upload = [c \in Conns |-> None]
    PROVE  /\ Open = {} /\ OnDisk = {}
           /\ Cardinality(Open) = 0 /\ Bytes(upload, Open) = 0 /\ Bytes(upload, OnDisk) = 0
<1>1. Open = {} /\ OnDisk = {}
  BY DEF Open, OnDisk
<1> QED BY <1>1, BytesNone, FS_EmptySet

LEMMA IInvInit == Init => IInv
<1> SUFFICES ASSUME Init PROVE IInv
  OBVIOUS
<1>1. /\ Open = {} /\ OnDisk = {}
      /\ Cardinality(Open) = 0 /\ Bytes(upload, Open) = 0 /\ Bytes(upload, OnDisk) = 0
  BY NoUploads DEF Init
<1>2. TypeOK
  <2>1. active \in 0..MaxUploads /\ reserved \in 0..MaxBytes /\ stale \in 0..MaxBytes
    BY SpoolAssumption DEF Init
  <2> QED BY <2>1 DEF Init, TypeOK
<1>3. Spool
  BY <1>1, SpoolAssumption DEF Init, Spool
<1>4. \A c \in Conns : Attended(c) /\ Real(c)
  BY DEF Init, Attended, Real
<1> QED BY <1>2, <1>3, <1>4 DEF IInv

\* The process dies: what was on the disk is stale.
LEMMA CrashInv ==
    ASSUME IInv, Crash
    PROVE  IInv'
<1> USE DEF IInv
<1>1. upload' = [c \in Conns |-> None]
  BY DEF Crash
<1>2. /\ Open' = {} /\ OnDisk' = {}
      /\ Cardinality(Open') = 0 /\ Bytes(upload', Open') = 0 /\ Bytes(upload', OnDisk') = 0
  <2>1. Open' = {} /\ OnDisk' = {}
    BY <1>1 DEF Open, OnDisk
  <2> QED BY <2>1, BytesNone, FS_EmptySet
<1>3. stale' = stale + Bytes(upload, OnDisk) /\ stale' \in 0..MaxBytes
  <2>1. stale' = stale + Bytes(upload, OnDisk)
    BY DEF Crash, DiskBytes, OnDisk
  <2> QED BY <2>1, SizesNat DEF Spool, TypeOK
<1>4. TypeOK'
  <2>1. active' \in 0..MaxUploads /\ reserved' \in 0..MaxBytes
    BY SpoolAssumption DEF Crash
  <2> QED BY <1>3, <2>1 DEF Crash, TypeOK
<1>5. Spool'
  BY <1>2, <1>3, SpoolAssumption DEF Crash, Spool
<1>6. \A c \in Conns : Attended(c)' /\ Real(c)'
  BY DEF Crash, Attended, Real
<1> QED BY <1>4, <1>5, <1>6

\* newBlobManager.
LEMMA PrepareInv ==
    ASSUME IInv, PrepareRoot
    PROVE  IInv'
<1> USE DEF IInv
<1> USE DEF workers, seen
<1>0. stale \in Nat /\ stale <= MaxBytes /\ 0 \in 0..stale
  BY SpoolAssumption DEF TypeOK
<1>1. /\ UNCHANGED <<active, reserved, link, reader, monitor, commit, upload, fin>>
      /\ UNCHANGED <<completed, attached>>
      /\ proc = "crashed" /\ proc' = "up" /\ initErr' \in BOOLEAN
      /\ stale' \in 0..stale /\ (~initErr' => stale' = 0)
  BY <1>0 DEF PrepareRoot
<1>2. TypeOK'
  <2>1. stale' \in 0..MaxBytes
    BY <1>0, <1>1, SpoolAssumption
  <2> QED BY <1>1, <2>1 DEF TypeOK
<1>3. \A c \in Conns : Attended(c)' /\ Real(c)'
  BY <1>1 DEF Attended, Real, Verified
<1>4. \A c \in Conns : upload[c] = None
  BY <1>1 DEF Spool, Attended
<1>5. Open = {} /\ OnDisk = {} /\ Open' = {} /\ OnDisk' = {}
  BY <1>1, <1>4 DEF Open, OnDisk
<1>6. active' = 0 /\ reserved' = 0
  BY <1>1 DEF Spool
<1>7. Cardinality({}) = 0 /\ Bytes(upload', {}) = 0
  BY BytesNone, FS_EmptySet
<1>8. stale' + Bytes(upload', {}) <= MaxBytes
  <2>1. \A n \in 0..MaxBytes : n + 0 <= MaxBytes
    BY SpoolAssumption
  <2>2. stale' \in 0..MaxBytes
    BY <1>2 DEF TypeOK
  <2> QED BY <1>7, <2>1, <2>2
<1>9. Spool'
  BY <1>1, <1>5, <1>6, <1>7, <1>8 DEF Spool
<1> QED BY <1>2, <1>3, <1>9

-----------------------------------------------------------------------------
\* The theorems.

\* IInv is an invariant of the uploads: every step of a reader, a monitor, a commit, finish,
\* a tunnel and the process keeps it.
THEOREM UploadsInductive == Spec => []IInv
<1>1. Init => IInv
  BY IInvInit
<1>2. IInv /\ [Next]_vars => IInv'
  <2> SUFFICES ASSUME IInv, [Next]_vars PROVE IInv'
    OBVIOUS
  <2>1. ASSUME NEW c \in Conns, ReaderStep(c) PROVE IInv'
    BY <2>1, BeginInv, BeginLeavesInv, DataInv, GoroutineInv, CommitInv, AbortInv DEF ReaderStep
  <2>2. ASSUME NEW c \in Conns, MonitorStep(c) PROVE IInv'
    BY <2>2, MonitorClaimsInv, GoroutineInv DEF MonitorStep
  <2>3. ASSUME NEW c \in Conns, CommitStep(c) PROVE IInv'
    BY <2>3, CommitRejectsInv, GoroutineInv, AttachInv DEF CommitStep
  <2>4. ASSUME NEW c \in Conns, FinishStep(c) PROVE IInv'
    BY <2>4, FinishInv, AnswersInv, SettlesInv DEF FinishStep
  <2>5. ASSUME NEW c \in Conns, TunnelStep(c) PROVE IInv'
    BY <2>5, GoroutineInv, TunnelEndsInv DEF TunnelStep
  <2>6. CASE Crash \/ PrepareRoot
    BY <2>6, CrashInv, PrepareInv
  <2>7. CASE UNCHANGED vars
    BY <2>7 DEF vars, manager, workers, seen, IInv, TypeOK, Spool, Attended, Real, Verified,
                Open, OnDisk
  <2> QED BY <2>1, <2>2, <2>3, <2>4, <2>5, <2>6, <2>7 DEF Next
<1> QED BY <1>1, <1>2, PTL DEF Spec

\* blobManager and blobConnection are always well typed: the counters of the spool, and the
\* bytes left behind, never leave their range.
THEOREM TypeCorrect == Spec => []TypeOK
BY UploadsInductive, PTL DEF IInv

\* reserve, settleCleanup, prepareRoot: the counters are exactly those of the uploads while
\* the spool is in use, and the spool directory never holds more than maxBytes, whatever
\* cannot be removed and whenever the process dies.
THEOREM QuotaKept == Spec => []SpoolAccounted
<1>1. IInv => SpoolAccounted
  <2> SUFFICES ASSUME IInv PROVE SpoolAccounted
    OBVIOUS
  <2>1. SpoolBounded
    BY DEF IInv, Spool, SpoolBounded, DiskBytes, OnDisk
  <2>2. Accounting
    BY DEF IInv, Spool, Accounting, Open
  <2> QED BY <2>1, <2>2 DEF SpoolAccounted
<1> QED BY <1>1, UploadsInductive, PTL

\* claimReceivingFinish: from the commit's start to its decision nobody else closes or
\* removes the file it reads.
THEOREM CommitKeepsFile == Spec => []CommitOwnsFile
<1>1. IInv => CommitOwnsFile
  BY DEF IInv, Attended, CommitOwnsFile, TypeOK
<1> QED BY <1>1, UploadsInductive, PTL

\* commit, finish, handleCommit: the gateway is handed verified files only, and every success
\* the phone is told, the first time or again, is of a file the gateway has attached.
THEOREM SuccessTold == Spec => []SuccessIsReal
<1>1. IInv => SuccessIsReal
  BY DEF IInv, Real, SuccessIsReal
<1> QED BY <1>1, UploadsInductive, PTL
=============================================================================
