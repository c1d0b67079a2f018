-------------------------- MODULE IntegrityProofs --------------------------
(***************************************************************************)
(* Proofs about Integrity, for any repository, any number of damaged       *)
(* objects and any commands that read it meanwhile.                        *)
(***************************************************************************)
EXTENDS Integrity, FiniteSetTheorems, FunctionTheorems, TLAPS

-----------------------------------------------------------------------------
(* Types *)

Stored == Keys \cup {Absent, Junk}

TypeOK ==
    /\ changed \subseteq Snapshots
    /\ objects \in [Keys -> Stored]
    /\ forgotten \subseteq Snapshots
    /\ faults \in Nat
    /\ reader \in Reader

(* The keys are keys, and no two kinds of object share one. *)
LEMMA KeysAreKeys ==
    /\ \A s \in Snapshots : /\ CommitKey(s) \in Keys /\ ForgetKey(s) \in Keys
                            /\ ManifestKey(s) \in Keys /\ IndexKey(s) \in Keys
    /\ \A c \in Chunks : ChunkKey(c) \in Keys
    /\ \A k \in Keys : k # Absent /\ k # Junk
  BY IntegrityAssumption DEF CommitKey, ForgetKey, ManifestKey, IndexKey, ChunkKey,
                             SnapshotKeys, Keys

(* A command that begins. *)
LEMMA BegunType ==
    ASSUME NEW pc \in ReaderPc, NEW s \in Snapshots
    PROVE  /\ Begun(pc, s) \in Reader
           /\ Begun(pc, s).pc = pc /\ Begun(pc, s).target = s
           /\ Begun(pc, s).hidden = {} /\ Begun(pc, s).chunks = {}
           /\ \A f \in Files : Begun(pc, s).got[f] = <<>>
  <1>1. (CHOOSE sel \in Selections : TRUE) \in Selections
    BY IntegrityAssumption
  <1>2. [f \in Files |-> <<>>] \in [Files -> Seq(Chunks)]
    OBVIOUS
  <1>3. "" \in ReaderErrors /\ CommitKey(s) \in Keys
    BY KeysAreKeys DEF ReaderErrors
  <1>4. QED
    BY <1>1, <1>2, <1>3 DEF Begun, Reader

(* A command that fails keeps its target, and whether all was calm. *)
LEMMA FailType ==
    ASSUME TypeOK, NEW e \in ReaderErrors, NEW k \in Keys, Fail(e, k)
    PROVE  /\ reader' \in Reader
           /\ reader'.pc = "failed" /\ reader'.calm = reader.calm
           /\ reader'.error = e /\ reader'.blamed = k
           /\ reader'.hidden = {} /\ \A f \in Files : reader'.got[f] = <<>>
  <1>1. PICK t \in Snapshots : t = reader.target
    BY DEF TypeOK, Reader
  <1>2. "failed" \in ReaderPc /\ reader.calm \in BOOLEAN
    BY DEF ReaderPc, TypeOK, Reader
  <1> DEFINE b == Begun("failed", t)
  <1>3. b \in Reader /\ b.pc = "failed" /\ b.hidden = {} /\ \A f \in Files : b.got[f] = <<>>
    BY <1>2, BegunType
  <1>4. reader' = [b EXCEPT !.calm = reader.calm, !.error = e, !.blamed = k]
    BY <1>1 DEF Fail
  <1> HIDE DEF b
  <1>5. QED
    BY <1>2, <1>3, <1>4 DEF Reader

(* Why an encrypted object was refused. *)
LEMMA RefusedType ==
    ASSUME NEW k \in Keys
    PROVE  /\ Refused(k) \in MissingErrors \cup ObjectErrors
           /\ Refused(k) \in ReaderErrors
  <1>1. Missing \in MissingErrors
    BY DEF Missing, MissingErrors
  <1>2. Refused(k) \in MissingErrors \cup ObjectErrors
    BY <1>1, KeysAreKeys DEF Refused, ObjectErrors
  <1>3. QED
    BY <1>2 DEF ReaderErrors

(* Why a marker was refused: a commit marker, or a forget marker. *)
LEMMA RefusedMarkerType ==
    ASSUME NEW s \in Snapshots
    PROVE  /\ \E e \in {"storage_object_not_found", "repository_commit_decode_failed",
                        "repository_commit_marker_invalid"} :
                /\ FailCommit(s) <=> Fail(e, CommitKey(s))
                /\ e = "storage_object_not_found" <=> objects[CommitKey(s)] = Absent
           /\ \E e \in {"storage_object_not_found", "repository_forget_marker_decode_failed",
                        "repository_forget_marker_invalid"} :
                /\ FailForget(s) <=> Fail(e, ForgetKey(s))
                /\ e = "storage_object_not_found" <=> objects[ForgetKey(s)] = Absent
  <1>0. Absent \notin {"commit", "forget"} \X Snapshots
    BY IntegrityAssumption DEF Keys, SnapshotKeys
  <1> DEFINE e1 == RefusedMarker(CommitKey(s), {"commit", "forget"},
                                 "repository_commit_decode_failed",
                                 "repository_commit_marker_invalid")
             e2 == RefusedMarker(ForgetKey(s), {"forget"},
                                 "repository_forget_marker_decode_failed",
                                 "repository_forget_marker_invalid")
  <1>1. /\ e1 \in {"storage_object_not_found", "repository_commit_decode_failed",
                   "repository_commit_marker_invalid"}
        /\ e1 = "storage_object_not_found" <=> objects[CommitKey(s)] = Absent
    BY <1>0 DEF RefusedMarker
  <1>2. /\ e2 \in {"storage_object_not_found", "repository_forget_marker_decode_failed",
                   "repository_forget_marker_invalid"}
        /\ e2 = "storage_object_not_found" <=> objects[ForgetKey(s)] = Absent
    BY <1>0 DEF RefusedMarker
  <1>3. (FailCommit(s) <=> Fail(e1, CommitKey(s))) /\ (FailForget(s) <=> Fail(e2, ForgetKey(s)))
    BY DEF FailCommit, FailForget
  <1> HIDE DEF e1, e2
  <1>4. QED
    BY <1>1, <1>2, <1>3

(***************************************************************************)
(* The steps in which a command fails leave the store alone and name an    *)
(* error and a key.                                                        *)
(***************************************************************************)
Failing == /\ \E e \in ReaderErrors, k \in Keys : Fail(e, k)
           /\ UNCHANGED <<objects, forgotten, faults>>

-----------------------------------------------------------------------------
(* What each command knows *)

(* A restore has read the manifest of its target, and its chunks in order. *)
RestoreKnows(r) ==
    /\ r.pc \in {"restore_index", "restore_chunks", "restored"} => r.body = r.target
    /\ r.pc \notin {"restore_chunks", "restored"} => \A f \in Files : r.got[f] = <<>>
    /\ \A f \in Files :
          /\ Len(r.got[f]) <= Len(Contents[r.body][f])
          /\ \A i \in 1..Len(r.got[f]) : r.got[f][i] = Contents[r.body][f][i]
          /\ r.pc = "restored" => Len(r.got[f]) = Len(Contents[r.body][f])

RestoreInv == RestoreKnows(reader)

(* The bytes of a forget marker are found nowhere before the snapshot is forgotten. *)
HideInv ==
    /\ reader.hidden \subseteq forgotten
    /\ \A k \in Keys, s \in Snapshots : objects[k] = ForgetKey(s) => s \in forgotten

Checking == {"check", "check_manifest", "check_index"}
Verifying == {"check_data", "verified", "checked"}

(* Markers still to be read were listed, so they are there while all is calm. *)
MarkersKnown(r) ==
    r.calm =>
       /\ r.pc \in Checking \cup {"commits", "load_manifest"} =>
             \A s \in Snapshots : s \in r.todo => objects[CommitKey(s)] # Absent
       /\ r.pc = "forgets" =>
             \A s \in Snapshots : s \in r.todo => objects[ForgetKey(s)] # Absent

Referenced(S) == UNION {ChunksOf(s) : s \in S}

(* A check has been through the snapshots it listed, but for those still to do. *)
PassedKnown(r) ==
    r.calm /\ r.pc \in Checking =>
       /\ r.todo \subseteq r.seen
       /\ r.pc # "check" => r.target \in r.seen
       /\ r.pc = "check_index" => ManifestOpens(r.target)
       /\ \A s \in r.seen :
             \/ s \in r.todo
             \/ r.pc # "check" /\ s = r.target
             \/ ManifestOpens(s) /\ IndexOpens(s) /\ ChunksOf(s) \subseteq r.chunks
       /\ r.chunks \subseteq Referenced(r.seen)

(* It has selected chunks, and those no longer to do are good. *)
VerifiedKnown(r) ==
    r.calm /\ r.pc \in Verifying =>
       /\ \A s \in r.seen : ManifestOpens(s) /\ IndexOpens(s)
       /\ r.todo \subseteq r.chunks
       /\ r.pc # "check_data" => r.todo = {}
       /\ \A c \in r.chunks : c \in r.todo \/ ChunkOpens(c)
       /\ r.select.mode = "full" => r.chunks = Referenced(r.seen)
       /\ r.select.mode = "percent" =>
             Cardinality(r.chunks) * 100 >= Cardinality(Referenced(r.seen)) * r.select.n

CheckKnows(r) == MarkersKnown(r) /\ PassedKnown(r) /\ VerifiedKnown(r)

CheckInv == CheckKnows(reader)

-----------------------------------------------------------------------------
(* A command that reads either fails or finds what it is looking for. *)

(* Bytes that open under a key are those that were written under it. *)
CommitGood(s) == CommitDecodes(s) /\ CommitNames(s) = s

Goes ==
    \/ \E s \in Snapshots : Publish(s) \/ Forget(s)
    \/ \E k \in Keys, bytes \in Stored : Damage(k, bytes)
    \/ \E sel \in Selections : BeginCheck(sel)
    \/ \E s \in Snapshots : CheckCommit(s) /\ CommitGood(s)
    \/ CheckManifest /\ ManifestOpens(reader.target)
    \/ CheckIndex /\ IndexOpens(reader.target)
    \/ CheckSelect
    \/ \E c \in Chunks : CheckChunk(c) /\ ChunkOpens(c)
    \/ CheckReport /\ reader' = [reader EXCEPT !.pc = "checked"]
    \/ \E s \in Snapshots : BeginRestore(s)
    \/ RestoreManifest /\ ManifestOpens(reader.target)
    \/ RestoreIndex /\ IndexOpens(reader.body)
    \/ \E f \in Files : RestoreChunk(f) /\ ChunkOpens(NextChunk(f))
    \/ BeginList
    \/ ListCommits
    \/ LoadManifest /\ ManifestOpens(reader.target)
    \/ ListDone
    \/ \E s \in Snapshots : ReadForget(s) /\ objects[ForgetKey(s)] = ForgetKey(s)
    \/ \E s \in Snapshots : ReadCommit(s) /\ CommitDecodes(s) /\
          \/ reader' = [reader EXCEPT !.todo = @ \ {s}]
          \/ reader' = [reader EXCEPT !.todo = @ \ {s}, !.pc = "load_manifest",
                                      !.target = s]

LEMMA ChunksTyped ==
    ASSUME TypeOK, NEW f \in Files
    PROVE  Contents[reader.body][f] \in Seq(Chunks) /\ reader.got[f] \in Seq(Chunks)
  <1>1. reader.body \in Snapshots /\ reader.got \in [Files -> Seq(Chunks)]
    BY DEF TypeOK, Reader
  <1>2. Contents[reader.body] \in [Files -> Seq(Chunks)]
    BY <1>1, IntegrityAssumption
  <1>3. QED
    BY <1>1, <1>2

LEMMA NextChunkType ==
    ASSUME TypeOK, NEW f \in Unfinished
    PROVE  NextChunk(f) \in Chunks
  <1>1. /\ Contents[reader.body][f] \in Seq(Chunks) /\ reader.got[f] \in Seq(Chunks)
        /\ Len(reader.got[f]) < Len(Contents[reader.body][f])
    BY ChunksTyped DEF Unfinished
  <1>2. Len(reader.got[f]) + 1 \in 1..Len(Contents[reader.body][f])
    BY <1>1
  <1>3. QED
    BY <1>1, <1>2 DEF NextChunk

LEMMA FailsOrGoes ==
    ASSUME TypeOK, Step
    PROVE  Failing \/ Goes
  <1>1. /\ reader.target \in Snapshots /\ reader.body \in Snapshots /\ reader.blamed \in Keys
        /\ \A s \in Snapshots :
              (FailCommit(s) \/ FailForget(s)) =>
                 \E e1 \in ReaderErrors, k \in Keys : Fail(e1, k)
    <2>1. reader.target \in Snapshots /\ reader.body \in Snapshots /\ reader.blamed \in Keys
      BY DEF TypeOK, Reader
    <2>2. {"storage_object_not_found", "repository_commit_decode_failed",
           "repository_commit_marker_invalid", "repository_forget_marker_decode_failed",
           "repository_forget_marker_invalid"} \subseteq ReaderErrors
      BY DEF ReaderErrors, ObjectErrors, ForgetMarkerErrors
    <2>3. ASSUME NEW s \in Snapshots, FailCommit(s) \/ FailForget(s)
          PROVE  \E e1 \in ReaderErrors, k \in Keys : Fail(e1, k)
      BY <2>2, <2>3, KeysAreKeys, RefusedMarkerType
    <2>4. QED
      BY <2>1, <2>3
  <1>2. CASE \E s \in Snapshots : Publish(s) \/ Forget(s)
    BY <1>2 DEF Goes
  <1>3. CASE \E k \in Keys, bytes \in Keys \cup {Absent, Junk} : Damage(k, bytes)
    BY <1>3 DEF Goes, Stored
  <1>4. CASE \/ \E sel \in Selections : BeginCheck(sel)
             \/ CheckSelect \/ BeginList \/ ListCommits \/ ListDone
             \/ \E s \in Snapshots : BeginRestore(s)
    BY <1>4 DEF Goes
  <1>5. CASE CheckManifest
    <2>1. CASE ManifestOpens(reader.target)
      BY <1>5, <2>1 DEF Goes
    <2>2. CASE ~ManifestOpens(reader.target)
      BY <1>1, <1>5, <2>2, RefusedType, KeysAreKeys DEF CheckManifest, Failing
    <2>3. QED
      BY <2>1, <2>2
  <1>6. CASE CheckIndex
    <2>1. CASE IndexOpens(reader.target)
      BY <1>6, <2>1 DEF Goes
    <2>2. CASE ~IndexOpens(reader.target)
      BY <1>1, <1>6, <2>2, RefusedType, KeysAreKeys DEF CheckIndex, Failing
    <2>3. QED
      BY <2>1, <2>2
  <1>7. CASE CheckReport
    <2>1. "system_clock_invalid" \in ReaderErrors
      BY DEF ReaderErrors
    <2>2. QED
      BY <1>1, <1>7, <2>1 DEF CheckReport, Failing, Goes
  <1>8. ASSUME NEW s \in Snapshots, CheckCommit(s)
        PROVE  Failing \/ Goes
    <2>1. CASE CommitGood(s)
      BY <1>8, <2>1 DEF Goes
    <2>2. CASE ~CommitGood(s)
      BY <1>1, <1>8, <2>2 DEF CheckCommit, CommitGood, Failing
    <2>3. QED
      BY <2>1, <2>2
  <1>9. ASSUME NEW c \in Chunks, CheckChunk(c)
        PROVE  Failing \/ Goes
    <2>1. CASE ChunkOpens(c)
      BY <1>9, <2>1 DEF Goes
    <2>2. CASE ~ChunkOpens(c)
      BY <1>1, <1>9, <2>2, RefusedType, KeysAreKeys DEF CheckChunk, Failing
    <2>3. QED
      BY <2>1, <2>2
  <1>10. CASE RestoreManifest
    <2>1. CASE ManifestOpens(reader.target)
      BY <1>10, <2>1 DEF Goes
    <2>2. CASE ~ManifestOpens(reader.target)
      BY <1>1, <1>10, <2>2, RefusedType, KeysAreKeys DEF RestoreManifest, Failing
    <2>3. QED
      BY <2>1, <2>2
  <1>11. CASE RestoreIndex
    <2>1. CASE IndexOpens(reader.body)
      BY <1>11, <2>1 DEF Goes
    <2>2. CASE ~IndexOpens(reader.body)
      BY <1>1, <1>11, <2>2, RefusedType, KeysAreKeys DEF RestoreIndex, Failing
    <2>3. QED
      BY <2>1, <2>2
  <1>12. ASSUME NEW f \in Files, RestoreChunk(f)
         PROVE  Failing \/ Goes
    <2>1. CASE ChunkOpens(NextChunk(f))
      BY <1>12, <2>1 DEF Goes
    <2>2. CASE ~ChunkOpens(NextChunk(f))
      <3>1. NextChunk(f) \in Chunks
        BY <1>12, NextChunkType DEF RestoreChunk, First
      <3>2. QED
        BY <1>12, <2>2, <3>1, RefusedType, KeysAreKeys DEF RestoreChunk, Failing
    <2>3. QED
      BY <2>1, <2>2
  <1>13. CASE LoadManifest
    <2>1. CASE ManifestOpens(reader.target)
      BY <1>13, <2>1 DEF Goes
    <2>2. CASE ~ManifestOpens(reader.target)
      BY <1>1, <1>13, <2>2, RefusedType, KeysAreKeys DEF LoadManifest, Failing
    <2>3. QED
      BY <2>1, <2>2
  <1>14. ASSUME NEW s \in Snapshots, ReadForget(s)
         PROVE  Failing \/ Goes
    <2>1. CASE objects[ForgetKey(s)] = ForgetKey(s)
      BY <1>14, <2>1 DEF Goes
    <2>2. CASE ~(objects[ForgetKey(s)] = ForgetKey(s))
      BY <1>1, <1>14, <2>2 DEF ReadForget, Failing
    <2>3. QED
      BY <2>1, <2>2
  <1>15. ASSUME NEW s \in Snapshots, ReadCommit(s)
         PROVE  Failing \/ Goes
    <2>1. CASE FailCommit(s)
      BY <1>1, <1>15, <2>1 DEF ReadCommit, Failing
    <2>2. CASE ~FailCommit(s)
      BY <1>15, <2>2 DEF ReadCommit, Goes
    <2>3. QED
      BY <2>1, <2>2
  <1>16. QED
    BY <1>2, <1>3, <1>4, <1>5, <1>6, <1>7, <1>8, <1>9, <1>10, <1>11, <1>12, <1>13, <1>14,
       <1>15 DEF Step

-----------------------------------------------------------------------------
(* Type correctness *)

LEMMA ReaderStays ==
    ASSUME TypeOK, Goes
    PROVE  /\ objects' \in [Keys -> Stored] /\ forgotten' \subseteq Snapshots
           /\ faults' \in Nat /\ reader' \in Reader
  <1> USE DEF ReaderPc
  <1>0. reader \in Reader /\ TypeOK
    BY DEF TypeOK
  <1>1. ASSUME NEW s \in Snapshots, Publish(s)
        PROVE  /\ objects' \in [Keys -> Stored] /\ forgotten' \subseteq Snapshots
               /\ faults' \in Nat /\ reader' \in Reader
    BY <1>1, <1>0 DEF Publish, TypeOK, Stored
  <1>2. ASSUME NEW s \in Snapshots, Forget(s)
        PROVE  /\ objects' \in [Keys -> Stored] /\ forgotten' \subseteq Snapshots
               /\ faults' \in Nat /\ reader' \in Reader
    BY <1>2, <1>0, KeysAreKeys DEF Forget, TypeOK, Stored
  <1>3. ASSUME NEW k \in Keys, NEW bytes \in Stored, Damage(k, bytes)
        PROVE  /\ objects' \in [Keys -> Stored] /\ forgotten' \subseteq Snapshots
               /\ faults' \in Nat /\ reader' \in Reader
    <2>1. reader' = [reader EXCEPT !.calm = FALSE] /\ UNCHANGED forgotten
          /\ faults' = faults + 1 /\ objects' = [objects EXCEPT ![k] = bytes]
      BY <1>3 DEF Damage
    <2>2. reader' \in Reader
      BY <2>1, <1>0 DEF Reader
    <2>3. QED
      BY <2>1, <2>2 DEF TypeOK
  <1> DEFINE Quiet == UNCHANGED <<objects, forgotten, faults>>
  <1>4. ASSUME Quiet, reader' \in Reader
        PROVE  /\ objects' \in [Keys -> Stored] /\ forgotten' \subseteq Snapshots
               /\ faults' \in Nat /\ reader' \in Reader
    BY <1>4 DEF TypeOK
  <1>t. PICK t \in Snapshots : t = reader.target
    BY DEF TypeOK, Reader
  <1>l. Listed("commit") \subseteq Snapshots /\ Listed("forget") \subseteq Snapshots
    BY DEF Listed
  <1> DEFINE Todo == (SUBSET Snapshots) \cup (SUBSET Chunks)
  <1>d. \A x : reader.todo \ {x} \in Todo
    <2>1. reader.todo \in Todo
      BY <1>0 DEF Reader
    <2>2. QED
      BY <2>1
  <1>5. ASSUME NEW sel \in Selections, BeginCheck(sel)
        PROVE  Quiet /\ reader' \in Reader
    <2> DEFINE b == Begun("check", t)
    <2>1. b \in Reader
      BY BegunType
    <2>2. reader' = [b EXCEPT !.select = sel, !.todo = Listed("commit"),
                              !.seen = Listed("commit")]
      BY <1>5, <1>t DEF BeginCheck
    <2> HIDE DEF b
    <2>3. reader' \in Reader
      BY <2>1, <2>2, <1>l DEF Reader
    <2>4. QED
      BY <2>3, <1>5 DEF BeginCheck
  <1>6. ASSUME NEW s \in Snapshots, CheckCommit(s) /\ CommitGood(s)
        PROVE  Quiet /\ reader' \in Reader
    <2>1. PICK T \in Todo : T = reader.todo \ {s}
      BY <1>d
    <2>2. reader' = [reader EXCEPT !.pc = "check_manifest", !.target = s, !.todo = T] /\ Quiet
      BY <1>6, <2>1 DEF CheckCommit, CommitGood
    <2>3. QED
      BY <2>2, <1>0 DEF Reader
  <1>7. ASSUME CheckManifest /\ ManifestOpens(reader.target)
        PROVE  Quiet /\ reader' \in Reader
    BY <1>7, <1>0 DEF CheckManifest, Reader
  <1>8. ASSUME CheckIndex /\ IndexOpens(reader.target)
        PROVE  Quiet /\ reader' \in Reader
    <2>1. PICK C \in SUBSET Chunks : C = reader.chunks \cup ChunksOf(reader.target)
      BY <1>0 DEF Reader, ChunksOf
    <2>2. reader' = [reader EXCEPT !.pc = "check", !.chunks = C] /\ Quiet
      BY <1>8, <2>1 DEF CheckIndex
    <2>3. QED
      BY <2>2, <1>0 DEF Reader
  <1>9. ASSUME CheckSelect
        PROVE  Quiet /\ reader' \in Reader
    <2>1. reader.chunks \subseteq Chunks
      BY <1>0 DEF Reader
    <2>2. PICK chosen \in SUBSET Chunks, pc \in {"verified", "check_data"} :
             reader' = [reader EXCEPT !.pc = pc, !.todo = chosen, !.chunks = chosen] /\ Quiet
      BY <1>9, <2>1 DEF CheckSelect
    <2>3. chosen \in Todo
      OBVIOUS
    <2>4. QED
      BY <2>2, <2>3, <1>0 DEF Reader
  <1>10. ASSUME NEW c \in Chunks, CheckChunk(c) /\ ChunkOpens(c)
         PROVE  Quiet /\ reader' \in Reader
    <2>1. PICK T \in Todo : T = reader.todo \ {c}
      BY <1>d
    <2>2. PICK pc \in {"verified", "check_data"} :
             reader' = [reader EXCEPT !.todo = T, !.pc = pc] /\ Quiet
      BY <1>10, <2>1 DEF CheckChunk
    <2>3. QED
      BY <2>2, <1>0 DEF Reader
  <1>11. ASSUME CheckReport /\ reader' = [reader EXCEPT !.pc = "checked"]
         PROVE  Quiet /\ reader' \in Reader
    BY <1>11, <1>0 DEF CheckReport, Reader
  <1>12. ASSUME NEW s \in Snapshots, BeginRestore(s)
         PROVE  Quiet /\ reader' \in Reader
    BY <1>12, <1>0 DEF BeginRestore, Reader
  <1>13. ASSUME RestoreManifest /\ ManifestOpens(reader.target)
         PROVE  Quiet /\ reader' \in Reader
    <2>1. reader' = [reader EXCEPT !.pc = "restore_index", !.body = t] /\ Quiet
      BY <1>13, <1>t DEF RestoreManifest, ManifestOpens, Opens, ManifestKey
    <2>2. QED
      BY <2>1, <1>0 DEF Reader
  <1>14. ASSUME RestoreIndex /\ IndexOpens(reader.body)
         PROVE  Quiet /\ reader' \in Reader
    <2>1. PICK pc \in {"restored", "restore_chunks"} :
             reader' = [reader EXCEPT !.pc = pc] /\ Quiet
      BY <1>14 DEF RestoreIndex
    <2>2. QED
      BY <2>1, <1>0 DEF Reader
  <1>15. ASSUME NEW f \in Files, RestoreChunk(f) /\ ChunkOpens(NextChunk(f))
         PROVE  Quiet /\ reader' \in Reader
    <2>1. PICK c \in Chunks : c = NextChunk(f)
      BY <1>15, NextChunkType DEF RestoreChunk, First
    <2>2. objects[ChunkKey(NextChunk(f))][2] = c
      BY <1>15, <2>1 DEF ChunkOpens, Opens, ChunkKey
    <2>3. PICK pc \in {"restored", "restore_chunks"} :
             reader' = [reader EXCEPT !.got[f] = Append(@, objects[ChunkKey(NextChunk(f))][2]),
                                      !.pc = pc]
      BY <1>15 DEF RestoreChunk
    <2>4. PICK g \in [Files -> Seq(Chunks)] :
             g = [reader.got EXCEPT ![f] = Append(@, c)]
      <3>1. reader.got \in [Files -> Seq(Chunks)] /\ Append(reader.got[f], c) \in Seq(Chunks)
        BY <1>0 DEF Reader
      <3>2. QED
        BY <3>1
    <2>5. reader' = [reader EXCEPT !.got = g, !.pc = pc]
      BY <2>2, <2>3, <2>4, <1>0 DEF Reader
    <2>6. reader' \in Reader
      BY <2>5, <1>0 DEF Reader
    <2>7. QED
      BY <1>15, <2>6 DEF RestoreChunk
  <1>16. ASSUME BeginList
         PROVE  Quiet /\ reader' \in Reader
    <2> DEFINE b == Begun("forgets", t)
    <2>1. b \in Reader
      BY BegunType
    <2>2. reader' = [b EXCEPT !.todo = Listed("forget")]
      BY <1>16, <1>t DEF BeginList
    <2> HIDE DEF b
    <2>3. reader' \in Reader
      BY <2>1, <2>2, <1>l DEF Reader
    <2>4. QED
      BY <2>3, <1>16 DEF BeginList
  <1>17. ASSUME ListCommits
         PROVE  Quiet /\ reader' \in Reader
    BY <1>17, <1>0, <1>l DEF ListCommits, Reader
  <1>18. ASSUME LoadManifest /\ ManifestOpens(reader.target)
         PROVE  Quiet /\ reader' \in Reader
    <2>1. PICK S \in SUBSET Snapshots : S = reader.shown \cup {reader.target}
      BY <1>0 DEF Reader
    <2>2. reader' = [reader EXCEPT !.pc = "commits", !.shown = S] /\ Quiet
      BY <1>18, <2>1 DEF LoadManifest
    <2>3. QED
      BY <2>2, <1>0 DEF Reader
  <1>19. ASSUME ListDone
         PROVE  Quiet /\ reader' \in Reader
    BY <1>19, <1>0 DEF ListDone, Reader
  <1>20. ASSUME NEW s \in Snapshots, ReadForget(s) /\ objects[ForgetKey(s)] = ForgetKey(s)
         PROVE  Quiet /\ reader' \in Reader
    <2>1. PICK T \in Todo : T = reader.todo \ {s}
      BY <1>d
    <2>2. PICK S \in SUBSET Snapshots : S = reader.hidden \cup {s}
      BY <1>0 DEF Reader
    <2>3. reader' = [reader EXCEPT !.todo = T, !.hidden = S] /\ Quiet
      BY <1>20, <2>1, <2>2 DEF ReadForget
    <2>4. QED
      BY <2>3, <1>0 DEF Reader
  <1>21. ASSUME NEW s \in Snapshots, ReadCommit(s),
                \/ reader' = [reader EXCEPT !.todo = @ \ {s}]
                \/ reader' = [reader EXCEPT !.todo = @ \ {s}, !.pc = "load_manifest",
                                            !.target = s]
         PROVE  Quiet /\ reader' \in Reader
    <2>1. PICK T \in Todo : T = reader.todo \ {s}
      BY <1>d
    <2>2. \/ reader' = [reader EXCEPT !.todo = T]
          \/ reader' = [reader EXCEPT !.todo = T, !.pc = "load_manifest", !.target = s]
      BY <1>21, <2>1
    <2>3. reader' \in Reader
      BY <2>2, <1>0 DEF Reader
    <2>4. QED
      BY <1>21, <2>3 DEF ReadCommit
  <1> HIDE DEF Quiet, Todo
  <1>22. QED
    BY <1>1, <1>2, <1>3, <1>4, <1>5, <1>6, <1>7, <1>8, <1>9, <1>10, <1>11, <1>12, <1>13,
       <1>14, <1>15, <1>16, <1>17, <1>18, <1>19, <1>20, <1>21 DEF Goes

LEMMA TypeStays == TypeOK /\ [Next]_vars => TypeOK'
  <1> SUFFICES ASSUME TypeOK, [Next]_vars PROVE TypeOK'
    OBVIOUS
  <1>1. CASE Next
    <2>1. Failing \/ Goes
      BY <1>1, FailsOrGoes DEF Next
    <2>2. CASE Failing
      BY <1>1, <2>2, FailType DEF Failing, TypeOK, Next
    <2>3. CASE Goes
      BY <1>1, <2>3, ReaderStays DEF TypeOK, Next
    <2>4. QED
      BY <2>1, <2>2, <2>3
  <1>2. CASE UNCHANGED vars
    BY <1>2 DEF vars, TypeOK
  <1>3. QED
    BY <1>1, <1>2

LEMMA TypeBegins == Init => TypeOK
  <1> SUFFICES ASSUME Init PROVE TypeOK
    OBVIOUS
  <1>1. "idle" \in ReaderPc
    BY DEF ReaderPc
  <1>2. PICK s \in Snapshots : reader = Begun("idle", s)
    BY DEF Init
  <1>3. reader \in Reader
    BY <1>1, <1>2, BegunType
  <1>4. QED
    BY <1>3 DEF Init, TypeOK, Stored

-----------------------------------------------------------------------------
(* Restores and hidden snapshots *)

Restoring == {"restore_index", "restore_chunks", "restored"}

(***************************************************************************)
(* All other steps of a command leave the store alone, hide nothing more   *)
(* and are no part of a restore.                                           *)
(***************************************************************************)
Apart ==
    /\ UNCHANGED <<objects, forgotten, faults>>
    /\ reader'.hidden \in {reader.hidden, {}}
    /\ reader'.pc \notin Restoring \cup {"failed"}
    /\ \/ \A f \in Files : reader'.got[f] = <<>>
       \/ reader.pc \notin Restoring /\ reader'.got = reader.got

LEMMA ApartSteps ==
    ASSUME TypeOK, Goes
    PROVE  \/ \E s \in Snapshots : Publish(s) \/ Forget(s)
           \/ \E k \in Keys, bytes \in Stored : Damage(k, bytes)
           \/ RestoreManifest /\ ManifestOpens(reader.target)
           \/ RestoreIndex /\ IndexOpens(reader.body)
           \/ \E f \in Files : RestoreChunk(f) /\ ChunkOpens(NextChunk(f))
           \/ \E s \in Snapshots : ReadForget(s) /\ objects[ForgetKey(s)] = ForgetKey(s)
           \/ Apart
  <1> USE DEF Apart, Restoring, At
  <1>0. reader \in Reader
    BY DEF TypeOK
  <1>t. PICK t \in Snapshots : t = reader.target
    BY <1>0 DEF Reader
  <1>5. ASSUME NEW sel \in Selections, BeginCheck(sel)
        PROVE  Apart
    <2> DEFINE b == Begun("check", t)
    <2>1. b \in Reader /\ b.pc = "check" /\ b.hidden = {} /\ \A f \in Files : b.got[f] = <<>>
      BY BegunType DEF ReaderPc
    <2>2. reader' = [b EXCEPT !.select = sel, !.todo = Listed("commit"),
                              !.seen = Listed("commit")]
      BY <1>5, <1>t DEF BeginCheck
    <2> HIDE DEF b
    <2>3. reader'.pc = "check" /\ reader'.hidden = {} /\ \A f \in Files : reader'.got[f] = <<>>
      BY <2>1, <2>2 DEF Reader
    <2>4. QED
      BY <2>3, <1>5 DEF BeginCheck
  <1>6. ASSUME NEW s \in Snapshots, CheckCommit(s) /\ CommitGood(s)
        PROVE  Apart
    BY <1>6, <1>0 DEF CheckCommit, CommitGood, Reader
  <1>7. ASSUME CheckManifest /\ ManifestOpens(reader.target)
        PROVE  Apart
    BY <1>7, <1>0 DEF CheckManifest, Reader
  <1>8. ASSUME CheckIndex /\ IndexOpens(reader.target)
        PROVE  Apart
    BY <1>8, <1>0 DEF CheckIndex, Reader
  <1>9. ASSUME CheckSelect
        PROVE  Apart
    <2>1. PICK chosen \in SUBSET reader.chunks, pc \in {"verified", "check_data"} :
             reader' = [reader EXCEPT !.pc = pc, !.todo = chosen, !.chunks = chosen]
      BY <1>9 DEF CheckSelect
    <2>2. QED
      BY <1>9, <2>1, <1>0 DEF CheckSelect, Reader
  <1>10. ASSUME NEW c \in Chunks, CheckChunk(c) /\ ChunkOpens(c)
         PROVE  Apart
    <2>1. PICK pc \in {"verified", "check_data"} :
             reader' = [reader EXCEPT !.todo = @ \ {c}, !.pc = pc]
      BY <1>10 DEF CheckChunk
    <2>2. QED
      BY <1>10, <2>1, <1>0 DEF CheckChunk, Reader
  <1>11. ASSUME CheckReport /\ reader' = [reader EXCEPT !.pc = "checked"]
         PROVE  Apart
    BY <1>11, <1>0 DEF CheckReport, Reader
  <1>12. ASSUME NEW s \in Snapshots, BeginRestore(s)
         PROVE  Apart
    BY <1>12, <1>0 DEF BeginRestore, Reader
  <1>16. ASSUME BeginList
         PROVE  Apart
    <2> DEFINE b == Begun("forgets", t)
    <2>1. b \in Reader /\ b.pc = "forgets" /\ b.hidden = {} /\ \A f \in Files : b.got[f] = <<>>
      BY BegunType DEF ReaderPc
    <2>2. reader' = [b EXCEPT !.todo = Listed("forget")]
      BY <1>16, <1>t DEF BeginList
    <2> HIDE DEF b
    <2>3. /\ reader'.pc = "forgets" /\ reader'.hidden = {}
          /\ \A f \in Files : reader'.got[f] = <<>>
      BY <2>1, <2>2 DEF Reader
    <2>4. QED
      BY <2>3, <1>16 DEF BeginList
  <1>17. ASSUME ListCommits
         PROVE  Apart
    BY <1>17, <1>0 DEF ListCommits, Reader
  <1>18. ASSUME LoadManifest /\ ManifestOpens(reader.target)
         PROVE  Apart
    BY <1>18, <1>0 DEF LoadManifest, Reader
  <1>19. ASSUME ListDone
         PROVE  Apart
    BY <1>19, <1>0 DEF ListDone, Reader
  <1>21. ASSUME NEW s \in Snapshots, ReadCommit(s),
                \/ reader' = [reader EXCEPT !.todo = @ \ {s}]
                \/ reader' = [reader EXCEPT !.todo = @ \ {s}, !.pc = "load_manifest",
                                            !.target = s]
         PROVE  Apart
    <2>1. At("commits") /\ UNCHANGED <<objects, forgotten, faults>>
      BY <1>21 DEF ReadCommit
    <2>2. QED
      BY <1>21, <2>1, <1>0 DEF Reader
  <1> HIDE DEF Apart
  <1>22. QED
    BY <1>5, <1>6, <1>7, <1>8, <1>9, <1>10, <1>11, <1>12, <1>16, <1>17, <1>18, <1>19,
       <1>21 DEF Goes

LEMMA BodyTyped ==
    ASSUME NEW r \in Reader, NEW f \in Files
    PROVE  /\ Contents[r.body][f] \in Seq(Chunks) /\ r.got[f] \in Seq(Chunks)
           /\ Len(Contents[r.body][f]) \in Nat /\ Len(r.got[f]) \in Nat
  <1>1. r.body \in Snapshots /\ r.got \in [Files -> Seq(Chunks)]
    BY DEF Reader
  <1>2. Contents[r.body] \in [Files -> Seq(Chunks)]
    BY <1>1, IntegrityAssumption
  <1>3. QED
    BY <1>1, <1>2

LEMMA NothingRead ==
    ASSUME NEW r \in Reader, r.pc \notin Restoring, \A f \in Files : r.got[f] = <<>>
    PROVE  RestoreKnows(r)
  <1>1. ASSUME NEW f \in Files
        PROVE  Len(r.got[f]) = 0 /\ 0 <= Len(Contents[r.body][f])
    BY <1>1, BodyTyped
  <1>2. QED
    BY <1>1 DEF RestoreKnows, Restoring

LEMMA RestoreStays ==
    ASSUME TypeOK, RestoreInv, [Next]_vars
    PROVE  RestoreInv'
  <1> DEFINE r == reader
             q == reader'
  <1>0. r \in Reader /\ q \in Reader
    BY TypeStays DEF TypeOK
  <1>k. RestoreKnows(r)
    BY DEF RestoreInv
  <1> SUFFICES RestoreKnows(q)
    BY DEF RestoreInv, RestoreKnows
  <1>1. CASE reader' = reader
    BY <1>1, <1>k
  <1>2. CASE Failing
    <2>1. q.pc = "failed" /\ \A f \in Files : q.got[f] = <<>>
      BY <1>2, FailType DEF Failing
    <2>2. QED
      BY <1>0, <2>1, NothingRead DEF Restoring
  <1>3. ASSUME NEW k \in Keys, NEW bytes \in Stored, Damage(k, bytes)
        PROVE  RestoreKnows(q)
    <2>1. q.pc = r.pc /\ q.body = r.body /\ q.target = r.target /\ q.got = r.got
      BY <1>0, <1>3 DEF Damage, Reader
    <2> HIDE DEF r, q
    <2>2. QED
      BY <2>1, <1>k DEF RestoreKnows
  <1>4. CASE RestoreManifest /\ ManifestOpens(reader.target)
    <2>0. /\ r.pc = "restore"
          /\ q = [r EXCEPT !.pc = "restore_index", !.body = r.target]
      BY <1>4 DEF RestoreManifest, ManifestOpens, Opens, ManifestKey, At
    <2>1. /\ q.pc = "restore_index" /\ q.body = r.target /\ q.target = r.target
          /\ q.got = r.got /\ r.pc = "restore"
      BY <1>0, <2>0 DEF Reader
    <2> HIDE DEF r, q
    <2>2. \A f \in Files : q.got[f] = <<>> /\ Len(q.got[f]) = 0
      BY <2>1, <1>k DEF RestoreKnows
    <2>3. \A f \in Files : Len(Contents[q.body][f]) \in Nat
      BY <1>0, BodyTyped
    <2>4. QED
      BY <2>1, <2>2, <2>3 DEF RestoreKnows
  <1>5. CASE RestoreIndex /\ IndexOpens(reader.body)
    <2>1. /\ r.pc = "restore_index" /\ q = [r EXCEPT !.pc = q.pc]
          /\ q.pc = IF Unfinished = {} THEN "restored" ELSE "restore_chunks"
      BY <1>0, <1>5 DEF RestoreIndex, At, Reader
    <2>2. q.body = r.body /\ q.target = r.target /\ q.got = r.got
      BY <1>0, <2>1 DEF Reader
    <2>3. \A f \in Files : /\ r.got[f] = <<>> /\ Len(r.got[f]) = 0
                           /\ Len(Contents[r.body][f]) \in Nat
      BY <1>0, <1>k, <2>1, BodyTyped DEF RestoreKnows
    <2>4. q.pc = "restored" => \A f \in Files : Len(Contents[r.body][f]) = 0
      BY <2>1, <2>3 DEF Unfinished
    <2>5. r.body = r.target
      BY <1>k, <2>1 DEF RestoreKnows
    <2> HIDE DEF r, q
    <2>6. QED
      BY <2>1, <2>2, <2>3, <2>4, <2>5 DEF RestoreKnows
  <1>6. ASSUME NEW f \in Files, RestoreChunk(f), ChunkOpens(NextChunk(f))
        PROVE  RestoreKnows(q)
    <2> DEFINE n == Len(r.got[f])
    <2>1. PICK c \in Chunks : c = NextChunk(f)
      BY <1>6, NextChunkType DEF RestoreChunk, First
    <2>2. objects[ChunkKey(NextChunk(f))][2] = c
      BY <1>6, <2>1 DEF ChunkOpens, Opens, ChunkKey
    <2>3. reader' = [reader EXCEPT !.got[f] = Append(@, objects[ChunkKey(NextChunk(f))][2]),
                                   !.pc = reader'.pc]
      BY <1>0, <1>6 DEF RestoreChunk, Reader
    <2>4. /\ reader'.pc = IF Unfinished = {f} /\ n + 1 = Len(Contents[reader.body][f])
                          THEN "restored" ELSE "restore_chunks"
          /\ reader.pc = "restore_chunks"
      BY <1>0, <1>6 DEF RestoreChunk, At, Reader
    <2>5. /\ q.got = [r.got EXCEPT ![f] = Append(@, c)]
          /\ q.body = r.body /\ q.target = r.target
      BY <1>0, <2>2, <2>3 DEF Reader
    <2>6. /\ r.got \in [Files -> Seq(Chunks)] /\ r.got[f] \in Seq(Chunks) /\ n \in Nat
          /\ Contents[r.body][f] \in Seq(Chunks) /\ n < Len(Contents[r.body][f])
      BY <1>0, <1>6, BodyTyped DEF Reader, RestoreChunk, First, Unfinished
    <2>7. q.got[f] = Append(r.got[f], c) /\ \A g \in Files : g # f => q.got[g] = r.got[g]
      BY <2>5, <2>6
    <2>8. /\ Len(q.got[f]) = n + 1 /\ q.got[f][n + 1] = c
          /\ \A i \in 1..n : q.got[f][i] = r.got[f][i]
      BY <2>6, <2>7
    <2>9. c = Contents[r.body][f][n + 1]
      BY <2>1 DEF NextChunk
    <2>10. /\ \A g \in Files : /\ Len(r.got[g]) <= Len(Contents[r.body][g])
                               /\ \A i \in 1..Len(r.got[g]) :
                                     r.got[g][i] = Contents[r.body][g][i]
           /\ r.body = r.target
      BY <1>k, <2>4 DEF RestoreKnows
    <2>11. ASSUME q.pc = "restored", NEW g \in Files
           PROVE  Len(q.got[g]) = Len(Contents[q.body][g])
      <3>1. CASE g = f
        BY <3>1, <2>11, <2>4, <2>5, <2>8
      <3>2. CASE g # f
        <4>1. g \notin Unfinished
          BY <3>2, <2>11, <2>4
        <4>2. ~(Len(r.got[g]) < Len(Contents[r.body][g]))
          BY <4>1 DEF Unfinished
        <4>3. Len(r.got[g]) \in Nat /\ Len(Contents[r.body][g]) \in Nat
          BY <1>0, BodyTyped
        <4>4. QED
          BY <4>2, <4>3, <3>2, <2>5, <2>7, <2>10
      <3>3. QED
        BY <3>1, <3>2
    <2>12. q.pc \in {"restored", "restore_chunks"}
      BY <2>4
    <2> HIDE DEF r, q, n
    <2>13. ASSUME NEW g \in Files
           PROVE  /\ Len(q.got[g]) <= Len(Contents[q.body][g])
                  /\ \A i \in 1..Len(q.got[g]) : q.got[g][i] = Contents[q.body][g][i]
      <3>1. CASE g = f
        <4>1. n + 1 <= Len(Contents[q.body][f]) /\ Len(Contents[q.body][f]) \in Nat
          BY <2>5, <2>6
        <4>2. ASSUME NEW i \in 1..(n + 1)
              PROVE  q.got[f][i] = Contents[q.body][f][i]
          <5>1. CASE i = n + 1
            BY <5>1, <2>5, <2>8, <2>9
          <5>2. CASE i # n + 1
            <6>1. i \in 1..n
              BY <5>2, <2>6
            <6>2. QED
              BY <6>1, <2>5, <2>8, <2>10 DEF n
          <5>3. QED
            BY <5>1, <5>2
        <4>3. QED
          BY <3>1, <4>1, <4>2, <2>8
      <3>2. CASE g # f
        BY <3>2, <2>5, <2>7, <2>10
      <3>3. QED
        BY <3>1, <3>2
    <2>14. QED
      BY <2>5, <2>10, <2>11, <2>12, <2>13 DEF RestoreKnows
  <1>7. CASE Apart
    <2>1. r.pc \notin Restoring => \A f \in Files : r.got[f] = <<>>
      BY <1>k DEF RestoreKnows, Restoring
    <2>2. \A f \in Files : q.got[f] = <<>>
      BY <1>7, <2>1 DEF Apart
    <2>3. q.pc \notin Restoring
      BY <1>7 DEF Apart
    <2>4. QED
      BY <1>0, <2>2, <2>3, NothingRead
  <1>8. ASSUME NEW s \in Snapshots, ReadForget(s), objects[ForgetKey(s)] = ForgetKey(s)
        PROVE  RestoreKnows(q)
    <2>1. q.pc = "forgets" /\ q.got = r.got /\ r.pc = "forgets"
      BY <1>0, <1>8 DEF ReadForget, At, Reader
    <2>2. \A f \in Files : q.got[f] = <<>>
      BY <2>1, <1>k DEF RestoreKnows
    <2>3. QED
      BY <1>0, <2>1, <2>2, NothingRead DEF Restoring
  <1>9. ASSUME NEW s \in Snapshots, Publish(s) \/ Forget(s)
        PROVE  reader' = reader
    BY <1>9 DEF Publish, Forget
  <1>10. CASE Next
    <2>1. Failing \/ Goes
      BY <1>10, FailsOrGoes DEF Next
    <2>2. QED
      BY <2>1, <1>1, <1>2, <1>3, <1>4, <1>5, <1>6, <1>7, <1>8, <1>9, ApartSteps
  <1>11. QED
    BY <1>1, <1>10 DEF vars

LEMMA HideStays ==
    ASSUME TypeOK, HideInv, [Next]_vars
    PROVE  HideInv'
  <1>0. reader \in Reader /\ reader' \in Reader /\ objects \in [Keys -> Stored]
    BY TypeStays DEF TypeOK
  <1>1. ASSUME UNCHANGED <<objects, forgotten>>, reader'.hidden \in {reader.hidden, {}}
        PROVE  HideInv'
    BY <1>1 DEF HideInv, ForgetKey
  <1>2. CASE UNCHANGED vars
    BY <1>1, <1>2 DEF vars
  <1>3. CASE Failing
    <2>1. reader'.hidden = {}
      BY <1>3, FailType DEF Failing
    <2>2. QED
      BY <1>1, <1>3, <2>1 DEF Failing
  <1>4. CASE Apart
    BY <1>1, <1>4 DEF Apart
  <1>5. ASSUME NEW s \in Snapshots, Publish(s)
        PROVE  HideInv'
    <2>1. UNCHANGED <<forgotten, reader>>
      BY <1>5 DEF Publish
    <2>2. ASSUME NEW k \in Keys, NEW t \in Snapshots, objects'[k] = ForgetKey(t)
          PROVE  objects[k] = ForgetKey(t)
      <3>1. CASE objects'[k] = objects[k]
        BY <3>1, <2>2
      <3>2. CASE objects'[k] # objects[k]
        <4>1. objects'[k] = k /\ (\/ k \in {CommitKey(s), ManifestKey(s), IndexKey(s)}
                                  \/ \E c \in ChunksOf(s) : k = ChunkKey(c))
          BY <3>2, <1>5 DEF Publish
        <4>2. k[1] # "forget"
          BY <4>1 DEF CommitKey, ManifestKey, IndexKey, ChunkKey
        <4>3. QED
          BY <4>1, <4>2, <2>2 DEF ForgetKey
      <3>3. QED
        BY <3>1, <3>2
    <2>3. QED
      BY <2>1, <2>2 DEF HideInv, ForgetKey
  <1>6. ASSUME NEW s \in Snapshots, Forget(s)
        PROVE  HideInv'
    <2>1. /\ objects' = [objects EXCEPT ![ForgetKey(s)] = ForgetKey(s)]
          /\ forgotten' = forgotten \cup {s} /\ reader' = reader
      BY <1>6 DEF Forget
    <2>2. ASSUME NEW k \in Keys, NEW t \in Snapshots, objects'[k] = ForgetKey(t)
          PROVE  t \in forgotten'
      <3>1. CASE k = ForgetKey(s)
        <4>1. ForgetKey(s) = ForgetKey(t)
          BY <3>1, <2>1, <2>2, <1>0
        <4>2. QED
          BY <4>1, <2>1 DEF ForgetKey
      <3>2. CASE k # ForgetKey(s)
        <4>1. objects[k] = ForgetKey(t)
          BY <3>2, <2>1, <2>2, <1>0
        <4>2. QED
          BY <4>1, <2>1 DEF HideInv
      <3>3. QED
        BY <3>1, <3>2
    <2>3. QED
      BY <2>1, <2>2 DEF HideInv, ForgetKey
  <1>7. ASSUME NEW k \in Keys, NEW bytes \in Stored, Damage(k, bytes)
        PROVE  HideInv'
    <2>1. /\ objects' = [objects EXCEPT ![k] = bytes] /\ UNCHANGED forgotten
          /\ bytes \in {Absent, Junk} \/ \E j \in Keys : objects[j] = bytes
          /\ reader' = [reader EXCEPT !.calm = FALSE]
      BY <1>7 DEF Damage
    <2>2. reader'.hidden = reader.hidden
      BY <1>0, <2>1 DEF Reader
    <2>3. ASSUME NEW j \in Keys, NEW t \in Snapshots, objects'[j] = ForgetKey(t)
          PROVE  t \in forgotten
      <3>1. CASE j = k
        <4>1. bytes = ForgetKey(t)
          BY <3>1, <2>1, <2>3, <1>0
        <4>2. bytes # Absent /\ bytes # Junk
          BY <4>1, KeysAreKeys
        <4>3. QED
          BY <4>1, <4>2, <2>1 DEF HideInv
      <3>2. CASE j # k
        <4>1. objects[j] = ForgetKey(t)
          BY <3>2, <2>1, <2>3, <1>0
        <4>2. QED
          BY <4>1 DEF HideInv
      <3>3. QED
        BY <3>1, <3>2
    <2>4. QED
      BY <2>1, <2>2, <2>3 DEF HideInv, ForgetKey
  <1>8. ASSUME NEW s \in Snapshots, ReadForget(s), objects[ForgetKey(s)] = ForgetKey(s)
        PROVE  HideInv'
    <2>1. /\ reader' = [reader EXCEPT !.todo = @ \ {s}, !.hidden = @ \cup {s}]
          /\ UNCHANGED <<objects, forgotten>>
      BY <1>8 DEF ReadForget
    <2>2. reader'.hidden = reader.hidden \cup {s}
      BY <1>0, <2>1 DEF Reader
    <2>3. s \in forgotten
      BY <1>8, KeysAreKeys DEF HideInv
    <2>4. QED
      BY <2>1, <2>2, <2>3 DEF HideInv, ForgetKey
  <1>10. CASE (\/ RestoreManifest /\ ManifestOpens(reader.target)
               \/ RestoreIndex /\ IndexOpens(reader.body)
               \/ \E f \in Files : RestoreChunk(f) /\ ChunkOpens(NextChunk(f)))
    <2>1. UNCHANGED <<objects, forgotten>>
      BY <1>10 DEF RestoreManifest, RestoreIndex, RestoreChunk
    <2>2. reader'.hidden = reader.hidden
      <3>1. CASE RestoreManifest /\ ManifestOpens(reader.target)
        BY <1>0, <3>1 DEF RestoreManifest, Reader
      <3>2. CASE RestoreIndex /\ IndexOpens(reader.body)
        BY <1>0, <3>2 DEF RestoreIndex, Reader
      <3>3. ASSUME NEW f \in Files, RestoreChunk(f), ChunkOpens(NextChunk(f))
            PROVE  reader'.hidden = reader.hidden
        BY <1>0, <3>3 DEF RestoreChunk, Reader
      <3>4. QED
        BY <1>10, <3>1, <3>2, <3>3
    <2>3. QED
      BY <1>1, <2>1, <2>2
  <1>11. CASE Next
    <2>1. Failing \/ Goes
      BY <1>11, FailsOrGoes DEF Next
    <2>2. QED
      BY <2>1, <1>3, <1>4, <1>5, <1>6, <1>7, <1>8, <1>10, ApartSteps
  <1>12. QED
    BY <1>2, <1>11

LEMMA RestoreBegins == Init => RestoreInv /\ HideInv
  <1> SUFFICES ASSUME Init PROVE RestoreInv /\ HideInv
    OBVIOUS
  <1>1. PICK s \in Snapshots : reader = Begun("idle", s)
    BY DEF Init
  <1>2. /\ reader \in Reader /\ reader.pc = "idle" /\ reader.hidden = {}
        /\ \A f \in Files : reader.got[f] = <<>>
    BY <1>1, BegunType DEF ReaderPc
  <1>3. RestoreInv
    BY <1>2, NothingRead DEF RestoreInv, Restoring
  <1>4. \A k \in Keys, t \in Snapshots : objects[k] # ForgetKey(t)
    BY KeysAreKeys DEF Init
  <1>5. QED
    BY <1>2, <1>3, <1>4 DEF HideInv

(***************************************************************************)
(* A restore that ends well returns, for every file, the contents that     *)
(* were backed up, whatever is lost, garbled or interchanged meanwhile:    *)
(* restore_snapshot_contents opens each object under its own key.          *)
(***************************************************************************)
THEOREM RestoresAreExact == Spec => []RestoreExact
  <1>1. Init => TypeOK /\ RestoreInv
    BY TypeBegins, RestoreBegins
  <1>2. TypeOK /\ RestoreInv /\ [Next]_vars => TypeOK' /\ RestoreInv'
    BY TypeStays, RestoreStays
  <1>3. ASSUME TypeOK, RestoreInv
        PROVE  RestoreExact
    <2> SUFFICES ASSUME reader.pc = "restored"
                 PROVE  reader.got = Contents[reader.target]
      BY DEF RestoreExact, At
    <2>1. reader \in Reader /\ RestoreKnows(reader)
      BY <1>3 DEF TypeOK, RestoreInv
    <2>2. reader.body = reader.target
      BY <2>1 DEF RestoreKnows
    <2>3. /\ reader.got \in [Files -> Seq(Chunks)]
          /\ Contents[reader.body] \in [Files -> Seq(Chunks)]
      BY <2>1, IntegrityAssumption DEF Reader
    <2>4. ASSUME NEW f \in Files
          PROVE  reader.got[f] = Contents[reader.body][f]
      <3>1. /\ Len(reader.got[f]) = Len(Contents[reader.body][f])
            /\ \A i \in 1..Len(reader.got[f]) : reader.got[f][i] = Contents[reader.body][f][i]
        BY <2>1 DEF RestoreKnows
      <3>2. reader.got[f] \in Seq(Chunks) /\ Contents[reader.body][f] \in Seq(Chunks)
        BY <2>3
      <3>3. QED
        BY <3>1, <3>2
    <2>5. QED
      BY <2>2, <2>3, <2>4
  <1>4. QED
    BY <1>1, <1>2, <1>3, PTL DEF Spec

(***************************************************************************)
(* read_forgotten_snapshot_ids hides only snapshots that a forget has      *)
(* marked, however forget markers are damaged or interchanged: the bytes   *)
(* of a marker are found nowhere before the snapshot they name is          *)
(* forgotten, and are accepted only under the key that names it.           *)
(***************************************************************************)
THEOREM HiddenAreForgotten == Spec => []HidesOnlyForgotten
  <1>1. Init => TypeOK /\ HideInv
    BY TypeBegins, RestoreBegins
  <1>2. TypeOK /\ HideInv /\ [Next]_vars => TypeOK' /\ HideInv'
    BY TypeStays, HideStays
  <1>3. HideInv => HidesOnlyForgotten
    BY DEF HideInv, HidesOnlyForgotten
  <1>4. QED
    BY <1>1, <1>2, <1>3, PTL DEF Spec

-----------------------------------------------------------------------------
(* How many chunks a check selects *)

Rank(C, c) == Cardinality({d \in C : d < c})

(* The first m of a set of numbers are m numbers; all of them are the set. *)
LEMMA FirstOnes ==
    ASSUME NEW C \in SUBSET Nat, IsFiniteSet(C), NEW m \in Nat, m <= Cardinality(C)
    PROVE  /\ \A c \in C : Rank(C, c) \in Nat /\ Rank(C, c) < Cardinality(C)
           /\ Cardinality({c \in C : Rank(C, c) < m}) \in Nat
           /\ Cardinality({c \in C : Rank(C, c) < m}) >= m
  <1> DEFINE N == Cardinality(C)
             Below(c) == {d \in C : d < c}
             rank == [c \in C |-> Rank(C, c)]
             first == {c \in C : Rank(C, c) < m}
  <1>0. \A c \in C : c \in Nat
    OBVIOUS
  <1>1. N \in Nat /\ N - 1 \in Int /\ m - 1 \in Int
    BY FS_CardinalityType
  <1>2. ASSUME NEW c \in C
        PROVE  /\ IsFiniteSet(Below(c)) /\ Rank(C, c) = Cardinality(Below(c))
               /\ Rank(C, c) \in Nat /\ Rank(C, c) < N
    <2>1. IsFiniteSet(C \ {c}) /\ Cardinality(C \ {c}) = N - 1
      BY FS_RemoveElement
    <2>2. Below(c) \in SUBSET (C \ {c})
      OBVIOUS
    <2> HIDE DEF Below, N
    <2>3. IsFiniteSet(Below(c)) /\ Cardinality(Below(c)) <= Cardinality(C \ {c})
      BY <2>1, <2>2, FS_Subset
    <2>4. Cardinality(Below(c)) \in Nat
      BY <2>3, FS_CardinalityType
    <2>5. Rank(C, c) = Cardinality(Below(c))
      BY DEF Rank, Below
    <2>6. QED
      BY <2>1, <2>3, <2>4, <2>5, <1>1
  <1>3. ASSUME NEW c \in C, NEW d \in C, c < d
        PROVE  Rank(C, c) < Rank(C, d)
    <2>0. c \in Nat /\ d \in Nat /\ \A x \in C : x \in Nat /\ (x < c => x < d)
      BY <1>0, <1>3
    <2>1. Below(c) \in SUBSET Below(d) /\ c \in Below(d) /\ c \notin Below(c)
      <3>1. \A x \in Below(c) : x \in Below(d)
        BY <2>0
      <3>2. c \in Below(d)
        BY <1>3
      <3>3. c \notin Below(c)
        BY <2>0
      <3> HIDE DEF Below
      <3>4. QED
        BY <3>1, <3>2, <3>3
    <2> HIDE DEF Below
    <2>2. IsFiniteSet(Below(d)) /\ Below(c) # Below(d)
      BY <1>2, <2>1
    <2>3. /\ Cardinality(Below(c)) <= Cardinality(Below(d))
          /\ Cardinality(Below(d)) # Cardinality(Below(c))
      BY <2>1, <2>2, FS_Subset
    <2>4. QED
      BY <2>3, <1>2
  <1>4. rank \in Injection(C, 0..(N - 1))
    <2>0. \A c \in C : Rank(C, c) \in 0..(N - 1)
      <3> HIDE DEF N, Below
      <3>1. QED
        BY <1>1, <1>2
    <2>1. rank \in [C -> 0..(N - 1)]
      BY <2>0
    <2>2. ASSUME NEW c \in C, NEW d \in C, rank[c] = rank[d]
          PROVE  c = d
      <3>1. Rank(C, c) = Rank(C, d)
        BY <2>2
      <3>2. ~(c < d) /\ ~(d < c)
        <4>1. Rank(C, c) \in Nat /\ ~(Rank(C, c) < Rank(C, d)) /\ ~(Rank(C, d) < Rank(C, c))
          <5> HIDE DEF Below, N
          <5>1. Rank(C, c) \in Nat
            BY <1>2
          <5>2. QED
            BY <3>1, <5>1
        <4>2. QED
          BY <4>1, <1>3
      <3>3. c \in Nat /\ d \in Nat
        OBVIOUS
      <3>4. QED
        BY <3>2, <3>3
    <2> HIDE DEF rank
    <2>3. QED
      BY <2>1, <2>2 DEF Injection, IsInjective
  <1>5. IsFiniteSet(0..(N - 1)) /\ Cardinality(0..(N - 1)) = N
    <2>1. IsFiniteSet(0..(N - 1)) /\ Cardinality(0..(N - 1)) = IF 0 > N - 1 THEN 0
                                                               ELSE N - 1 - 0 + 1
      <3> HIDE DEF N
      <3>1. QED
        BY <1>1, FS_Interval
    <2>2. QED
      BY <2>1, <1>1
  <1>6. rank \in Surjection(C, 0..(N - 1))
    <2> HIDE DEF rank
    <2>1. QED
      BY <1>4, <1>5, FS_Injection
  <1>7. first \in SUBSET C /\ IsFiniteSet(first)
    <2>1. first \in SUBSET C
      OBVIOUS
    <2> HIDE DEF first
    <2>2. QED
      BY <2>1, FS_Subset
  <1> DEFINE frank == [c \in first |-> Rank(C, c)]
  <1>8. frank \in Surjection(first, 0..(m - 1))
    <2>0. \A c \in first : Rank(C, c) \in 0..(m - 1)
      <3> HIDE DEF Below, N
      <3>1. QED
        BY <1>2
    <2>1. frank \in [first -> 0..(m - 1)]
      BY <2>0
    <2>2. ASSUME NEW j \in 0..(m - 1)
          PROVE  \E c \in first : frank[c] = j
      <3>1. j \in 0..(N - 1)
        BY <1>1
      <3>2. PICK c \in C : rank[c] = j
        BY <3>1, <1>6 DEF Surjection
      <3>3. Rank(C, c) = j /\ c \in first
        BY <3>2
      <3>4. QED
        BY <3>3
    <2> HIDE DEF frank, first
    <2>3. QED
      BY <2>1, <2>2 DEF Surjection
  <1>9. Cardinality(0..(m - 1)) = m
    <2>1. Cardinality(0..(m - 1)) = IF 0 > m - 1 THEN 0 ELSE m - 1 - 0 + 1
      BY <1>1, FS_Interval
    <2>2. QED
      BY <2>1
  <1> HIDE DEF frank, first
  <1>10. Cardinality(0..(m - 1)) <= Cardinality(first) /\ Cardinality(first) \in Nat
    BY <1>7, <1>8, FS_Surjection, FS_CardinalityType
  <1>11. QED
    BY <1>2, <1>9, <1>10 DEF first

(* A percentage that is rounded up is no less than was asked, and no more than all. *)
LEMMA RoundedUp ==
    ASSUME NEW N \in Nat, NEW n \in Nat, n <= 100
    PROVE  LET m == (N * n + 99) \div 100
           IN  m \in Nat /\ m <= N /\ m * 100 >= N * n
  <1>1. PICK p \in Nat : p = N * n
    OBVIOUS
  <1>2. p <= N * 100
    BY <1>1
  <1>3. QED
    BY <1>1, <1>2

-----------------------------------------------------------------------------
(* Checks *)

(* What is there stays as it is, as long as nothing is damaged. *)
LEMMA StoredStays ==
    ASSUME TypeOK, NEW s \in Snapshots, Publish(s) \/ Forget(s), UNCHANGED changed
    PROVE  /\ \A k \in Keys : objects[k] # Absent => objects'[k] = objects[k]
           /\ \A t \in Snapshots : /\ ManifestOpens(t) => ManifestOpens(t)'
                                   /\ IndexOpens(t) => IndexOpens(t)'
           /\ \A c \in Chunks : ChunkOpens(c) => ChunkOpens(c)'
  <1>1. \A k \in Keys : objects[k] # Absent => objects'[k] = objects[k]
    <2>1. CASE Publish(s)
      BY <2>1 DEF Publish
    <2>2. CASE Forget(s)
      BY <2>2, KeysAreKeys DEF Forget, TypeOK
    <2>3. QED
      BY <2>1, <2>2
  <1>2. \A k \in Keys : Opens(k, objects[k]) => Opens(k, objects'[k])
    BY <1>1, KeysAreKeys DEF Opens
  <1>3. QED
    BY <1>1, <1>2, KeysAreKeys DEF ManifestOpens, IndexOpens, ChunkOpens, Opens,
                                   ManifestKey, IndexKey, ChunkKey

LEMMA CheckSurvives ==
    ASSUME TypeOK, CheckInv, NEW s \in Snapshots, Publish(s) \/ Forget(s), UNCHANGED changed
    PROVE  CheckInv'
  <1>1. UNCHANGED reader
    BY DEF Publish, Forget
  <1>2. reader.seen \subseteq Snapshots /\ reader.chunks \subseteq Chunks
        /\ reader.target \in Snapshots
    BY DEF TypeOK, Reader
  <1>3. MarkersKnown(reader)'
    <2>1. MarkersKnown(reader)
      BY DEF CheckInv, CheckKnows
    <2>2. \A t \in Snapshots : /\ objects[CommitKey(t)] # Absent => objects'[CommitKey(t)] # Absent
                               /\ objects[ForgetKey(t)] # Absent => objects'[ForgetKey(t)] # Absent
      BY StoredStays, KeysAreKeys
    <2>3. QED
      BY <1>1, <2>1, <2>2 DEF MarkersKnown, CommitKey, ForgetKey
  <1>4. PassedKnown(reader)'
    <2>1. PassedKnown(reader)
      BY DEF CheckInv, CheckKnows
    <2>2. QED
      BY <1>1, <1>2, <2>1, StoredStays DEF PassedKnown
  <1>5. VerifiedKnown(reader)'
    <2>1. VerifiedKnown(reader)
      BY DEF CheckInv, CheckKnows
    <2>2. QED
      BY <1>1, <1>2, <2>1, StoredStays DEF VerifiedKnown
  <1>6. QED
    BY <1>3, <1>4, <1>5 DEF CheckInv, CheckKnows

(* Nothing is known of a command that is doing something else, or is not calm. *)
LEMMA NothingKnown ==
    ASSUME NEW r, \/ ~r.calm
                  \/ r.pc \in {"failed", "idle", "restore", "restore_index", "restore_chunks",
                               "restored", "listed"}
    PROVE  CheckKnows(r)
  BY DEF CheckKnows, MarkersKnown, PassedKnown, VerifiedKnown, Checking, Verifying

(* What a command that reads knows depends on what it reads. *)
LEMMA KnownOfStore ==
    ASSUME UNCHANGED <<objects, changed>>, CheckKnows(reader')
    PROVE  CheckInv'
  <1>1. MarkersKnown(reader)'
    BY DEF CheckKnows, MarkersKnown, CommitKey, ForgetKey
  <1>2. PassedKnown(reader)'
    BY DEF CheckKnows, PassedKnown, ManifestOpens, IndexOpens, Opens, ManifestKey, IndexKey
  <1>3. VerifiedKnown(reader)'
    BY DEF CheckKnows, VerifiedKnown, ManifestOpens, IndexOpens, ChunkOpens, Opens,
           ManifestKey, IndexKey, ChunkKey
  <1>4. QED
    BY <1>1, <1>2, <1>3 DEF CheckInv, CheckKnows

(* A command lists markers that are there. *)
LEMMA Begins ==
    ASSUME TypeOK
    PROVE  /\ \A sel \in Selections : BeginCheck(sel) => CheckKnows(reader')
           /\ BeginList => CheckKnows(reader')
           /\ ListCommits => CheckKnows(reader')
  <1>0. PICK t \in Snapshots : t = reader.target
    BY DEF TypeOK, Reader
  <1>l. /\ \A s \in Listed("commit") : objects[CommitKey(s)] # Absent
        /\ \A s \in Listed("forget") : objects[ForgetKey(s)] # Absent
    BY DEF Listed, CommitKey, ForgetKey
  <1>1. ASSUME NEW sel \in Selections, BeginCheck(sel)
        PROVE  CheckKnows(reader')
    <2> DEFINE b == Begun("check", t)
    <2>1. b \in Reader /\ b.pc = "check" /\ b.chunks = {}
      BY BegunType DEF ReaderPc
    <2>2. reader' = [b EXCEPT !.select = sel, !.todo = Listed("commit"),
                              !.seen = Listed("commit")]
      BY <1>0, <1>1 DEF BeginCheck
    <2> HIDE DEF b
    <2>3. /\ reader'.pc = "check" /\ reader'.todo = Listed("commit")
          /\ reader'.seen = Listed("commit") /\ reader'.chunks = {}
      BY <2>1, <2>2 DEF Reader
    <2>4. QED
      BY <2>3, <1>l DEF CheckKnows, MarkersKnown, PassedKnown, VerifiedKnown, Verifying
  <1>2. ASSUME BeginList
        PROVE  CheckKnows(reader')
    <2> DEFINE b == Begun("forgets", t)
    <2>1. b \in Reader /\ b.pc = "forgets"
      BY BegunType DEF ReaderPc
    <2>2. reader' = [b EXCEPT !.todo = Listed("forget")]
      BY <1>0, <1>2 DEF BeginList
    <2> HIDE DEF b
    <2>3. reader'.pc = "forgets" /\ reader'.todo = Listed("forget")
      BY <2>1, <2>2 DEF Reader
    <2>4. QED
      BY <2>3, <1>l DEF CheckKnows, MarkersKnown, PassedKnown, VerifiedKnown, Checking,
                        Verifying
  <1>3. ASSUME ListCommits
        PROVE  CheckKnows(reader')
    <2>1. reader'.pc = "commits" /\ reader'.todo = Listed("commit")
      BY <1>3 DEF ListCommits, TypeOK, Reader
    <2>2. QED
      BY <2>1, <1>l DEF CheckKnows, MarkersKnown, PassedKnown, VerifiedKnown, Checking,
                        Verifying
  <1>4. QED
    BY <1>1, <1>2, <1>3

(* It reads them one by one. *)
LEMMA MarkersRead ==
    ASSUME TypeOK, CheckInv, NEW s \in Snapshots
    PROVE  /\ ReadForget(s) /\ objects[ForgetKey(s)] = ForgetKey(s) => CheckKnows(reader')
           /\ /\ At("commits")
              /\ \/ reader' = [reader EXCEPT !.todo = @ \ {s}]
                 \/ reader' = [reader EXCEPT !.todo = @ \ {s}, !.pc = "load_manifest",
                                             !.target = s]
              => CheckKnows(reader')
           /\ LoadManifest /\ ManifestOpens(reader.target) => CheckKnows(reader')
  <1>0. reader \in Reader /\ MarkersKnown(reader)
    BY DEF TypeOK, CheckInv, CheckKnows
  <1>1. ASSUME ReadForget(s), objects[ForgetKey(s)] = ForgetKey(s)
        PROVE  CheckKnows(reader')
    <2>1. /\ reader'.pc = "forgets" /\ reader.pc = "forgets"
          /\ reader'.todo = reader.todo \ {s} /\ reader'.calm = reader.calm
      BY <1>0, <1>1 DEF ReadForget, At, Reader
    <2>2. QED
      BY <1>0, <2>1 DEF CheckKnows, MarkersKnown, PassedKnown, VerifiedKnown, Checking,
                        Verifying
  <1>2. ASSUME At("commits"),
               \/ reader' = [reader EXCEPT !.todo = @ \ {s}]
               \/ reader' = [reader EXCEPT !.todo = @ \ {s}, !.pc = "load_manifest",
                                           !.target = s]
        PROVE  CheckKnows(reader')
    <2>1. /\ reader'.pc \in {"commits", "load_manifest"} /\ reader.pc = "commits"
          /\ reader'.todo = reader.todo \ {s} /\ reader'.calm = reader.calm
      BY <1>0, <1>2 DEF At, Reader
    <2>2. QED
      BY <1>0, <2>1 DEF CheckKnows, MarkersKnown, PassedKnown, VerifiedKnown, Checking,
                        Verifying
  <1>3. ASSUME LoadManifest, ManifestOpens(reader.target)
        PROVE  CheckKnows(reader')
    <2>1. /\ reader'.pc = "commits" /\ reader.pc = "load_manifest"
          /\ reader'.todo = reader.todo /\ reader'.calm = reader.calm
      BY <1>0, <1>3 DEF LoadManifest, At, Reader
    <2>2. QED
      BY <1>0, <2>1 DEF CheckKnows, MarkersKnown, PassedKnown, VerifiedKnown, Checking,
                        Verifying
  <1>4. QED
    BY <1>1, <1>2, <1>3

(* A check goes through the snapshots. *)
LEMMA SnapshotsChecked ==
    ASSUME TypeOK, CheckInv
    PROVE  /\ \A s \in Snapshots : CheckCommit(s) /\ CommitGood(s) => CheckKnows(reader')
           /\ CheckManifest /\ ManifestOpens(reader.target) => CheckKnows(reader')
           /\ CheckIndex /\ IndexOpens(reader.target) => CheckKnows(reader')
  <1>0. reader \in Reader /\ MarkersKnown(reader) /\ PassedKnown(reader)
    BY DEF TypeOK, CheckInv, CheckKnows
  <1>1. ASSUME NEW s \in Snapshots, CheckCommit(s), CommitGood(s)
        PROVE  CheckKnows(reader')
    <2>0. /\ reader.pc = "check" /\ s \in reader.todo
          /\ reader' = [reader EXCEPT !.pc = "check_manifest", !.target = s,
                                      !.todo = @ \ {s}]
      BY <1>1 DEF CheckCommit, CommitGood, At, First
    <2>1. /\ reader'.pc = "check_manifest" /\ reader'.target = s
          /\ reader'.todo = reader.todo \ {s} /\ reader'.calm = reader.calm
          /\ reader'.seen = reader.seen /\ reader'.chunks = reader.chunks
      BY <1>0, <2>0 DEF Reader
    <2>2. MarkersKnown(reader')
      BY <1>0, <2>0, <2>1 DEF MarkersKnown, Checking
    <2>3. PassedKnown(reader')
      BY <1>0, <2>0, <2>1 DEF PassedKnown, Checking
    <2>4. QED
      BY <2>1, <2>2, <2>3 DEF CheckKnows, VerifiedKnown, Verifying
  <1>2. ASSUME CheckManifest, ManifestOpens(reader.target)
        PROVE  CheckKnows(reader')
    <2>0. reader.pc = "check_manifest" /\ reader' = [reader EXCEPT !.pc = "check_index"]
      BY <1>2 DEF CheckManifest, At
    <2>1. /\ reader'.pc = "check_index" /\ reader'.target = reader.target
          /\ reader'.todo = reader.todo /\ reader'.calm = reader.calm
          /\ reader'.seen = reader.seen /\ reader'.chunks = reader.chunks
      BY <1>0, <2>0 DEF Reader
    <2>2. MarkersKnown(reader')
      BY <1>0, <2>0, <2>1 DEF MarkersKnown, Checking
    <2>3. PassedKnown(reader')
      BY <1>0, <1>2, <2>0, <2>1 DEF PassedKnown, Checking
    <2>4. QED
      BY <2>1, <2>2, <2>3 DEF CheckKnows, VerifiedKnown, Verifying
  <1>3. ASSUME CheckIndex, IndexOpens(reader.target)
        PROVE  CheckKnows(reader')
    <2> DEFINE C == ChunksOf(reader.target)
    <2>0. reader.pc = "check_index"
          /\ reader' = [reader EXCEPT !.pc = "check", !.chunks = @ \cup C]
      BY <1>3 DEF CheckIndex, At
    <2>1. /\ reader'.pc = "check"
          /\ reader'.todo = reader.todo /\ reader'.calm = reader.calm
          /\ reader'.seen = reader.seen /\ reader'.chunks = reader.chunks \cup C
      BY <1>0, <2>0 DEF Reader
    <2>2. MarkersKnown(reader')
      BY <1>0, <2>0, <2>1 DEF MarkersKnown, Checking
    <2>3. reader.calm => C \subseteq Referenced(reader.seen)
      BY <1>0, <2>0 DEF PassedKnown, Checking, Referenced
    <2>4. PassedKnown(reader')
      BY <1>0, <1>3, <2>0, <2>1, <2>3 DEF PassedKnown, Checking
    <2>5. QED
      BY <2>1, <2>2, <2>4 DEF CheckKnows, VerifiedKnown, Verifying
  <1>4. QED
    BY <1>1, <1>2, <1>3

(* It selects as many chunks as was asked, and reads them. *)
LEMMA ChunksSelected ==
    ASSUME TypeOK, CheckInv, CheckSelect
    PROVE  CheckKnows(reader')
  <1> DEFINE C == reader.chunks
             N == Cardinality(C)
             m == SelectedCount(reader.select, N)
             chosen == {c \in C : Rank(C, c) < m}
  <1>0. reader \in Reader /\ PassedKnown(reader)
    BY DEF TypeOK, CheckInv, CheckKnows
  <1>1. /\ C \in SUBSET Nat /\ IsFiniteSet(C) /\ N \in Nat
        /\ reader.select \in Selections /\ reader.seen \subseteq Snapshots
    <2>1. C \in SUBSET Chunks /\ reader.select \in Selections /\ reader.seen \subseteq Snapshots
      BY <1>0 DEF Reader
    <2>2. IsFiniteSet(C)
      BY <2>1, IntegrityAssumption, FS_Subset
    <2>3. QED
      BY <2>1, <2>2, IntegrityAssumption, FS_CardinalityType
  <1>2. /\ reader.pc = "check" /\ reader.todo = {}
        /\ reader' = [reader EXCEPT !.pc = IF chosen = {} THEN "verified" ELSE "check_data",
                                    !.todo = chosen, !.chunks = chosen]
    BY DEF CheckSelect, At, Rank
  <1> HIDE DEF chosen, m
  <1>3. /\ reader'.pc = IF chosen = {} THEN "verified" ELSE "check_data"
        /\ reader'.todo = chosen /\ reader'.chunks = chosen /\ reader'.seen = reader.seen
        /\ reader'.select = reader.select /\ reader'.calm = reader.calm
    BY <1>0, <1>2 DEF Reader
  <1> SUFFICES ASSUME reader.calm PROVE CheckKnows(reader')
    BY <1>3, NothingKnown
  <1>4. /\ \A s \in reader.seen : /\ ManifestOpens(s) /\ IndexOpens(s)
                                  /\ ChunksOf(s) \subseteq C
        /\ C \subseteq Referenced(reader.seen)
    BY <1>0, <1>2 DEF PassedKnown, Checking
  <1>5. Referenced(reader.seen) = C
    BY <1>4 DEF Referenced
  <1>6. reader.select.mode = "full" => chosen = C
    <2> SUFFICES ASSUME reader.select.mode = "full" PROVE chosen = C
      OBVIOUS
    <2>1. m = N
      BY DEF m, SelectedCount
    <2>2. N <= N
      BY <1>1
    <2>3. \A c \in C : Rank(C, c) < N
      <3> HIDE DEF C
      <3>1. QED
        BY <1>1, <2>2, FirstOnes
    <2>4. QED
      BY <2>1, <2>3 DEF chosen
  <1>7. reader.select.mode = "percent" =>
           Cardinality(chosen) * 100 >= N * reader.select.n
    <2> SUFFICES ASSUME reader.select.mode = "percent"
                 PROVE  Cardinality(chosen) * 100 >= N * reader.select.n
      OBVIOUS
    <2>1. PICK n \in Nat : n = reader.select.n /\ n <= 100
      BY <1>1, IntegrityAssumption
    <2>2. m = (N * n + 99) \div 100
      BY <2>1 DEF m, SelectedCount
    <2> HIDE DEF N, C
    <2>3. m \in Nat /\ m <= N /\ m * 100 >= N * n
      BY <1>1, <2>1, <2>2, RoundedUp
    <2>4. Cardinality(chosen) \in Nat /\ Cardinality(chosen) >= m
      BY <1>1, <2>3, FirstOnes DEF chosen, N
    <2>5. N * n \in Nat
      BY <1>1
    <2>6. QED
      BY <2>1, <2>3, <2>4, <2>5
  <1>8. reader'.pc \notin Checking \cup {"commits", "load_manifest", "forgets"}
    BY <1>3 DEF Checking
  <1>9. VerifiedKnown(reader')
    <2>1. chosen \subseteq C
      BY DEF chosen
    <2>2. reader'.pc # "check_data" => reader'.todo = {}
      BY <1>3
    <2> HIDE DEF C, N
    <2>3. QED
      BY <1>3, <1>4, <1>5, <1>6, <1>7, <2>1, <2>2 DEF VerifiedKnown, N
  <1>10. QED
    BY <1>8, <1>9 DEF CheckKnows, MarkersKnown, PassedKnown

LEMMA ChunksVerified ==
    ASSUME TypeOK, CheckInv
    PROVE  /\ \A c \in Chunks : CheckChunk(c) /\ ChunkOpens(c) => CheckKnows(reader')
           /\ CheckReport /\ reader' = [reader EXCEPT !.pc = "checked"] => CheckKnows(reader')
  <1>0. reader \in Reader /\ VerifiedKnown(reader)
    BY DEF TypeOK, CheckInv, CheckKnows
  <1>1. ASSUME NEW c \in Chunks, CheckChunk(c), ChunkOpens(c)
        PROVE  CheckKnows(reader')
    <2>0. /\ reader.pc = "check_data" /\ c \in reader.todo
          /\ reader' = [reader EXCEPT !.todo = @ \ {c},
                           !.pc = IF reader.todo = {c} THEN "verified" ELSE "check_data"]
      BY <1>1 DEF CheckChunk, At, First
    <2>1. /\ reader'.pc = IF reader.todo = {c} THEN "verified" ELSE "check_data"
          /\ reader'.todo = reader.todo \ {c} /\ reader'.calm = reader.calm
          /\ reader'.seen = reader.seen /\ reader'.chunks = reader.chunks
          /\ reader'.select = reader.select
      BY <1>0, <2>0 DEF Reader
    <2>2. /\ reader'.pc \in {"verified", "check_data"}
          /\ reader'.pc # "check_data" => reader'.todo = {}
      BY <2>1
    <2>3. VerifiedKnown(reader')
      BY <1>0, <1>1, <2>0, <2>1, <2>2 DEF VerifiedKnown, Verifying
    <2>4. QED
      BY <2>2, <2>3 DEF CheckKnows, MarkersKnown, PassedKnown, Checking
  <1>2. ASSUME CheckReport, reader' = [reader EXCEPT !.pc = "checked"]
        PROVE  CheckKnows(reader')
    <2>1. /\ reader'.pc = "checked" /\ reader.pc = "verified"
          /\ reader'.todo = reader.todo /\ reader'.calm = reader.calm
          /\ reader'.seen = reader.seen /\ reader'.chunks = reader.chunks
          /\ reader'.select = reader.select
      BY <1>0, <1>2 DEF Reader, CheckReport, At
    <2>2. VerifiedKnown(reader')
      BY <1>0, <2>1 DEF VerifiedKnown, Verifying
    <2>3. QED
      BY <2>1, <2>2 DEF CheckKnows, MarkersKnown, PassedKnown, Checking
  <1>3. QED
    BY <1>1, <1>2

LEMMA CheckStays ==
    ASSUME TypeOK, CheckInv, [Next]_vars
    PROVE  CheckInv'
  <1>0. reader \in Reader
    BY DEF TypeOK
  <1>1. CASE UNCHANGED vars
    BY <1>1, KnownOfStore DEF vars, CheckInv
  <1>2. CASE Next
    <2>0. UNCHANGED changed
      BY <1>2 DEF Next
    <2>1. CASE Failing
      <3>1. reader'.pc = "failed"
        BY <2>1, FailType DEF Failing
      <3>2. QED
        BY <2>0, <2>1, <3>1, NothingKnown, KnownOfStore DEF Failing
    <2>2. ASSUME NEW s \in Snapshots, Publish(s) \/ Forget(s)
          PROVE  CheckInv'
      BY <2>0, <2>2, CheckSurvives
    <2>3. ASSUME NEW k \in Keys, NEW bytes \in Stored, Damage(k, bytes)
          PROVE  CheckInv'
      <3>1. reader'.calm = FALSE
        BY <1>0, <2>3 DEF Damage, Reader
      <3>2. QED
        BY <3>1 DEF CheckInv, CheckKnows, MarkersKnown, PassedKnown, VerifiedKnown
    <2>4. CASE \E sel \in Selections : BeginCheck(sel)
      BY <2>0, <2>4, Begins, KnownOfStore DEF BeginCheck
    <2>5. CASE BeginList \/ ListCommits
      BY <2>0, <2>5, Begins, KnownOfStore DEF BeginList, ListCommits
    <2>6. ASSUME NEW s \in Snapshots, ReadForget(s) /\ objects[ForgetKey(s)] = ForgetKey(s)
          PROVE  CheckInv'
      BY <2>0, <2>6, MarkersRead, KnownOfStore DEF ReadForget
    <2>7. ASSUME NEW s \in Snapshots, ReadCommit(s),
                 \/ reader' = [reader EXCEPT !.todo = @ \ {s}]
                 \/ reader' = [reader EXCEPT !.todo = @ \ {s}, !.pc = "load_manifest",
                                             !.target = s]
          PROVE  CheckInv'
      <3>1. At("commits") /\ UNCHANGED objects
        BY <2>7 DEF ReadCommit
      <3>2. CheckKnows(reader')
        BY <2>7, <3>1, MarkersRead
      <3>3. QED
        BY <2>0, <3>1, <3>2, KnownOfStore
    <2>8. CASE LoadManifest /\ ManifestOpens(reader.target)
      <3>1. reader.target \in Snapshots
        BY <1>0 DEF Reader
      <3>2. QED
        BY <2>0, <2>8, <3>1, MarkersRead, KnownOfStore DEF LoadManifest
    <2>9. ASSUME NEW s \in Snapshots, CheckCommit(s) /\ CommitGood(s)
          PROVE  CheckInv'
      BY <2>0, <2>9, SnapshotsChecked, KnownOfStore DEF CheckCommit
    <2>10. CASE CheckManifest /\ ManifestOpens(reader.target)
      BY <2>0, <2>10, SnapshotsChecked, KnownOfStore DEF CheckManifest
    <2>11. CASE CheckIndex /\ IndexOpens(reader.target)
      BY <2>0, <2>11, SnapshotsChecked, KnownOfStore DEF CheckIndex
    <2>12. CASE CheckSelect
      BY <2>0, <2>12, ChunksSelected, KnownOfStore DEF CheckSelect
    <2>13. ASSUME NEW c \in Chunks, CheckChunk(c) /\ ChunkOpens(c)
           PROVE  CheckInv'
      BY <2>0, <2>13, ChunksVerified, KnownOfStore DEF CheckChunk
    <2>14. CASE CheckReport /\ reader' = [reader EXCEPT !.pc = "checked"]
      BY <2>0, <2>14, ChunksVerified, KnownOfStore DEF CheckReport
    <2>15. CASE (\/ \E s \in Snapshots : BeginRestore(s)
                 \/ RestoreManifest /\ ManifestOpens(reader.target)
                 \/ RestoreIndex /\ IndexOpens(reader.body)
                 \/ \E f \in Files : RestoreChunk(f) /\ ChunkOpens(NextChunk(f))
                 \/ ListDone)
      <3>1. UNCHANGED objects
        BY <2>15 DEF BeginRestore, RestoreManifest, RestoreIndex, RestoreChunk, ListDone
      <3>2. reader'.pc \in {"restore", "restore_index", "restore_chunks", "restored", "listed"}
        <4>1. CASE \E s \in Snapshots : BeginRestore(s)
          BY <1>0, <4>1 DEF BeginRestore, Reader
        <4>2. CASE RestoreManifest /\ ManifestOpens(reader.target)
          BY <1>0, <4>2 DEF RestoreManifest, Reader
        <4>3. CASE RestoreIndex /\ IndexOpens(reader.body)
          BY <1>0, <4>3 DEF RestoreIndex, Reader
        <4>4. ASSUME NEW f \in Files, RestoreChunk(f), ChunkOpens(NextChunk(f))
              PROVE  reader'.pc \in {"restore_chunks", "restored"}
          BY <1>0, <4>4 DEF RestoreChunk, Reader
        <4>5. CASE ListDone
          BY <1>0, <4>5 DEF ListDone, Reader
        <4>6. QED
          BY <2>15, <4>1, <4>2, <4>3, <4>4, <4>5
      <3>3. QED
        BY <2>0, <3>1, <3>2, NothingKnown, KnownOfStore
    <2>16. Failing \/ Goes
      BY <1>2, FailsOrGoes DEF Next
    <2>17. QED
      BY <2>1, <2>2, <2>3, <2>4, <2>5, <2>6, <2>7, <2>8, <2>9, <2>10, <2>11, <2>12, <2>13,
         <2>14, <2>15, <2>16 DEF Goes
  <1>3. QED
    BY <1>1, <1>2

LEMMA CheckBegins == Init => CheckInv
  <1> SUFFICES ASSUME Init PROVE CheckInv
    OBVIOUS
  <1>1. PICK s \in Snapshots : reader = Begun("idle", s)
    BY DEF Init
  <1>2. reader.pc = "idle"
    BY <1>1, BegunType DEF ReaderPc
  <1>3. QED
    BY <1>2, NothingKnown DEF CheckInv

(***************************************************************************)
(* After a check that ends well, if nothing was damaged since it began,    *)
(* check_repository_with_options has read all that a restore of a snapshot *)
(* it listed reads, but for the chunks it did not select: none in a full   *)
(* check, and no more than the percentage asked leaves.                    *)
(***************************************************************************)
THEOREM ChecksAreThorough == Spec => []CheckedIsRestorable
  <1>1. Init => TypeOK /\ CheckInv
    BY TypeBegins, CheckBegins
  <1>2. TypeOK /\ CheckInv /\ [Next]_vars => TypeOK' /\ CheckInv'
    BY TypeStays, CheckStays
  <1>3. ASSUME TypeOK, CheckInv
        PROVE  CheckedIsRestorable
    <2> SUFFICES ASSUME reader.pc = "checked", reader.calm
                 PROVE  LET referenced == Referenced(reader.seen)
                            unread == referenced \ reader.chunks
                        IN /\ \A s \in reader.seen : Restorable(s, unread)
                           /\ reader.select.mode = "full" => unread = {}
                           /\ reader.select.mode = "percent" =>
                                 Cardinality(reader.chunks) * 100
                                   >= Cardinality(referenced) * reader.select.n
      BY DEF CheckedIsRestorable, At, Referenced
    <2>1. VerifiedKnown(reader)
      BY <1>3 DEF CheckInv, CheckKnows
    <2>2. /\ \A s \in reader.seen : ManifestOpens(s) /\ IndexOpens(s)
          /\ \A c \in reader.chunks : ChunkOpens(c)
          /\ reader.select.mode = "full" => reader.chunks = Referenced(reader.seen)
          /\ reader.select.mode = "percent" =>
                Cardinality(reader.chunks) * 100
                  >= Cardinality(Referenced(reader.seen)) * reader.select.n
      BY <2>1 DEF VerifiedKnown, Verifying
    <2>3. ASSUME NEW s \in reader.seen,
                 NEW c \in ChunksOf(s) \ (Referenced(reader.seen) \ reader.chunks)
          PROVE  ChunkOpens(c)
      BY <2>2 DEF Referenced
    <2>4. QED
      BY <2>2, <2>3 DEF Restorable
  <1>4. QED
    BY <1>1, <1>2, <1>3, PTL DEF Spec

-----------------------------------------------------------------------------
(* Failures *)

(* How the errors of a reader appear outside. *)
LEMMA ErrorsTold ==
    /\ \A e \in MissingErrors \cup ObjectErrors \cup ForgetMarkerErrors :
          /\ NamesObject(e) /\ ~Retryable(e) /\ ExitCode(e) = 6
          /\ e # "storage_object_not_found"
    /\ \A e \in MissingErrors \cup ObjectErrors : HasFinding(e)
    /\ NamesObject("storage_object_not_found") /\ ~Retryable("storage_object_not_found")
    /\ ~HasFinding("storage_object_not_found") /\ ExitCode("storage_object_not_found") = 3
  <1> DEFINE Wrong == MissingErrors \cup ObjectErrors \cup ForgetMarkerErrors
             Lost == "storage_object_not_found"
             Usage == ConfigErrors \cup PolicyErrors \cup RepositoryErrors \cup RequestErrors
             Unusable == {"repository_not_initialized", "repository_format_unsupported",
                          "repository_features_unsupported", "storage_object_not_found"}
             Tried == SourceErrors \cup TransientStorageErrors \cup DestinationErrors
             Stopped == Tried \cup {"chunk_compression_failed", "storage_object_already_exists"}
             NotFound == {"snapshot_not_found", "forget_no_snapshots_matched",
                          "snapshot_path_not_found"}
             Unsupported == {"repository_url_unsupported", "restore_feature_unsupported",
                             "storage_backend_config_failed"}
  <1>1. \A e \in Wrong \cup {Lost} : e \notin Usage
    BY DEF MissingErrors, ObjectErrors, ForgetMarkerErrors, ConfigErrors, PolicyErrors,
           RepositoryErrors, RequestErrors
  <1>2. \A e \in Wrong \cup {Lost} : e \notin Stopped /\ e \notin Tried
    BY DEF MissingErrors, ObjectErrors, ForgetMarkerErrors, SourceErrors,
           TransientStorageErrors, DestinationErrors
  <1>3. \A e \in Wrong : e \notin Unusable /\ e # "repository_unlock_failed"
    BY DEF MissingErrors, ObjectErrors, ForgetMarkerErrors
  <1>4. \A e \in Wrong \cup {Lost} : e \notin NotFound /\ e \notin Unsupported
    BY DEF MissingErrors, ObjectErrors, ForgetMarkerErrors
  <1>5. Lost \notin IntegrityErrors /\ Lost # "repository_unlock_failed" /\ Lost \in Unusable
    BY DEF IntegrityErrors, MissingErrors, ObjectErrors, ForgetMarkerErrors, KeySlotErrors
  <1>6. \A e \in Wrong : e \in IntegrityErrors
    BY DEF IntegrityErrors
  <1>7. ~HasFinding(Lost) /\ NamesObject(Lost)
    BY DEF HasFinding, NamesObject, MissingErrors, ObjectErrors
  <1>8. \A e \in Wrong : NamesObject(e)
    BY DEF NamesObject
  <1>9. \A e \in MissingErrors \cup ObjectErrors : HasFinding(e)
    BY DEF HasFinding
  <1>10. \A e \in Wrong \cup {Lost} : ~Retryable(e)
    BY <1>2 DEF Retryable
  <1>11. /\ \A e \in Wrong : ExitCode(e) = 6
         /\ ExitCode(Lost) = 3
    <2> HIDE DEF Wrong, Lost, Usage, Unusable, Tried, Stopped, NotFound, Unsupported
    <2>1. ASSUME NEW e
          PROVE  ExitCode(e) = CASE e \in Usage -> 2
                                 [] e \in Unusable -> 3
                                 [] e = "repository_unlock_failed" -> 4
                                 [] e \in Stopped -> 5
                                 [] e \in IntegrityErrors -> 6
                                 [] e \in NotFound -> 7
                                 [] e \in Unsupported -> 9
                                 [] OTHER -> 1
      BY DEF ExitCode, Usage, Unusable, Stopped, Tried, NotFound, Unsupported
    <2>2. QED
      BY <1>1, <1>2, <1>3, <1>4, <1>5, <1>6, <2>1
  <1>12. \A e \in Wrong : e # Lost
    BY <1>3
  <1>13. QED
    BY <1>7, <1>8, <1>9, <1>10, <1>11, <1>12

(* What FailuresBlameTheBad says of a step in which a command fails. *)
Blames ==
    LET e == reader'.error IN
    \/ e = "system_clock_invalid" /\ reader.pc = "verified"
    \/ /\ NamesObject(e) /\ Bad(reader'.blamed) /\ ~Retryable(e)
       /\ ExitCode(e) = IF e = "storage_object_not_found" THEN 3 ELSE 6
       /\ ExitCode(e) = 3 => ~reader.calm
       /\ reader.pc \in {"check", "check_manifest", "check_index", "check_data"} =>
             (HasFinding(e) <=> ExitCode(e) = 6)

(* An encrypted object is refused because it is bad. *)
LEMMA RefusedBlamed ==
    ASSUME TypeOK, NEW k \in Keys, Fail(Refused(k), k), Bad(k)
    PROVE  Blames
  <1>1. reader'.error = Refused(k) /\ reader'.blamed = k
    BY RefusedType, FailType
  <1>2. PICK e \in MissingErrors \cup ObjectErrors : e = reader'.error
    BY <1>1, RefusedType
  <1>3. /\ NamesObject(e) /\ ~Retryable(e) /\ ExitCode(e) = 6 /\ HasFinding(e)
        /\ e # "storage_object_not_found"
    BY <1>2, ErrorsTold
  <1>4. Bad(reader'.blamed)
    BY <1>1
  <1>5. QED
    BY <1>2, <1>3, <1>4 DEF Blames

(* So is a marker; one that was listed and is gone was damaged meanwhile. *)
LEMMA MarkerBlamed ==
    ASSUME TypeOK, NEW s \in Snapshots, NEW k \in {CommitKey(s), ForgetKey(s)},
           NEW e \in {"storage_object_not_found"} \cup ObjectErrors \cup ForgetMarkerErrors,
           Fail(e, k), Bad(k),
           e = "storage_object_not_found" => ~reader.calm,
           e \in ForgetMarkerErrors =>
              reader.pc \notin {"check", "check_manifest", "check_index", "check_data"}
    PROVE  Blames
  <1>0. k \in Keys /\ e \in ReaderErrors
    BY KeysAreKeys DEF ReaderErrors
  <1>1. reader'.error = e /\ reader'.blamed = k
    BY <1>0, FailType
  <1>2. Bad(reader'.blamed)
    BY <1>1
  <1>3. CASE e = "storage_object_not_found"
    BY <1>1, <1>2, <1>3, ErrorsTold DEF Blames
  <1>4. CASE e \in ObjectErrors
    BY <1>1, <1>2, <1>4, ErrorsTold DEF Blames
  <1>5. CASE e \in ForgetMarkerErrors
    BY <1>1, <1>2, <1>5, ErrorsTold DEF Blames
  <1>6. QED
    BY <1>3, <1>4, <1>5

LEMMA StepBlames ==
    ASSUME TypeOK, CheckInv, Next, reader'.pc = "failed", reader.pc # "failed"
    PROVE  Blames
  <1>0. /\ reader \in Reader /\ MarkersKnown(reader) /\ Step
        /\ reader.target \in Snapshots /\ reader.body \in Snapshots
    BY DEF TypeOK, CheckInv, CheckKnows, Next, Reader
  <1>1. ~Goes
    <2> SUFFICES ASSUME Goes PROVE FALSE
      OBVIOUS
    <2>1. CASE \E s \in Snapshots : Publish(s) \/ Forget(s)
      BY <2>1 DEF Publish, Forget
    <2>2. CASE \E k \in Keys, bytes \in Stored : Damage(k, bytes)
      BY <1>0, <2>2 DEF Damage, Reader
    <2>3. CASE RestoreManifest /\ ManifestOpens(reader.target)
      BY <1>0, <2>3 DEF RestoreManifest, Reader
    <2>4. CASE RestoreIndex /\ IndexOpens(reader.body)
      BY <1>0, <2>4 DEF RestoreIndex, Reader
    <2>5. ASSUME NEW f \in Files, RestoreChunk(f), ChunkOpens(NextChunk(f))
          PROVE  FALSE
      BY <1>0, <2>5 DEF RestoreChunk, Reader
    <2>6. ASSUME NEW s \in Snapshots, ReadForget(s), objects[ForgetKey(s)] = ForgetKey(s)
          PROVE  FALSE
      BY <1>0, <2>6 DEF ReadForget, At, Reader
    <2>7. CASE Apart
      BY <2>7 DEF Apart
    <2>8. QED
      BY <2>1, <2>2, <2>3, <2>4, <2>5, <2>6, <2>7, ApartSteps
  <1>2. CASE CheckManifest \/ RestoreManifest \/ LoadManifest
    <2>1. ~ManifestOpens(reader.target)
      BY <1>1, <1>2 DEF Goes
    <2>2. Fail(Refused(ManifestKey(reader.target)), ManifestKey(reader.target))
      BY <1>2, <2>1 DEF CheckManifest, RestoreManifest, LoadManifest
    <2>3. Bad(ManifestKey(reader.target))
      BY <2>1 DEF ManifestOpens, Opens, Bad, ManifestKey
    <2>4. ManifestKey(reader.target) \in Keys
      BY <1>0, KeysAreKeys
    <2>5. QED
      BY <2>2, <2>3, <2>4, RefusedBlamed
  <1>3. CASE CheckIndex \/ RestoreIndex
    <2>1. PICK t \in Snapshots :
             ~IndexOpens(t) /\ Fail(Refused(IndexKey(t)), IndexKey(t))
      BY <1>0, <1>1, <1>3 DEF Goes, CheckIndex, RestoreIndex
    <2>2. Bad(IndexKey(t)) /\ IndexKey(t) \in Keys
      BY <2>1, KeysAreKeys DEF IndexOpens, Opens, Bad
    <2>3. QED
      BY <2>1, <2>2, RefusedBlamed
  <1>4. ASSUME NEW c \in Chunks, ~ChunkOpens(c), Fail(Refused(ChunkKey(c)), ChunkKey(c))
        PROVE  Blames
    <2>1. Bad(ChunkKey(c)) /\ ChunkKey(c) \in Keys
      BY <1>4, KeysAreKeys DEF ChunkOpens, Opens, Bad
    <2>2. QED
      BY <1>4, <2>1, RefusedBlamed
  <1>5. ASSUME NEW c \in Chunks, CheckChunk(c)
        PROVE  Blames
    BY <1>1, <1>4, <1>5 DEF Goes, CheckChunk
  <1>6. ASSUME NEW f \in Files, RestoreChunk(f)
        PROVE  Blames
    <2>1. PICK c \in Chunks : c = NextChunk(f)
      BY <1>6, NextChunkType DEF RestoreChunk, First
    <2>2. ~ChunkOpens(c)
      BY <1>1, <1>6, <2>1 DEF Goes
    <2>3. Fail(Refused(ChunkKey(c)), ChunkKey(c))
      BY <1>6, <2>1, <2>2 DEF RestoreChunk
    <2>4. QED
      BY <1>4, <2>2, <2>3
  <1>7. CASE CheckReport
    <2>1. reader.pc = "verified" /\ Fail("system_clock_invalid", reader.blamed)
      BY <1>1, <1>7 DEF Goes, CheckReport, At
    <2>2. "system_clock_invalid" \in ReaderErrors /\ reader.blamed \in Keys
      BY <1>0 DEF ReaderErrors, Reader
    <2>3. reader'.error = "system_clock_invalid"
      BY <2>1, <2>2, FailType
    <2>4. QED
      BY <2>1, <2>3 DEF Blames
  <1>8. ASSUME NEW s \in Snapshots, FailCommit(s), s \in reader.todo,
               reader.pc \in {"check", "commits"},
               ~(objects[CommitKey(s)] = CommitKey(s))
        PROVE  Blames
    <2>1. PICK e \in {"storage_object_not_found", "repository_commit_decode_failed",
                      "repository_commit_marker_invalid"} :
             /\ Fail(e, CommitKey(s))
             /\ e = "storage_object_not_found" <=> objects[CommitKey(s)] = Absent
      BY <1>8, RefusedMarkerType
    <2>2. Bad(CommitKey(s))
      BY <1>8 DEF Bad
    <2>3. e \in {"storage_object_not_found"} \cup ObjectErrors /\ e \notin ForgetMarkerErrors
      BY DEF ObjectErrors, ForgetMarkerErrors
    <2>4. e = "storage_object_not_found" => ~reader.calm
      BY <1>0, <1>8, <2>1 DEF MarkersKnown, Checking
    <2>5. QED
      BY <2>1, <2>2, <2>3, <2>4, MarkerBlamed
  <1>9. ASSUME NEW s \in Snapshots, CommitDecodes(s) => CommitNames(s) # s
        PROVE  ~(objects[CommitKey(s)] = CommitKey(s))
    BY <1>9 DEF CommitDecodes, CommitNames, CommitKey
  <1>10. ASSUME NEW s \in Snapshots, CheckCommit(s)
         PROVE  Blames
    <2>1. ~CommitGood(s)
      BY <1>1, <1>10 DEF Goes
    <2>2. FailCommit(s) /\ s \in reader.todo /\ reader.pc = "check"
      BY <1>10, <2>1 DEF CheckCommit, CommitGood, First, At
    <2>3. QED
      BY <1>8, <1>9, <2>1, <2>2 DEF CommitGood
  <1>11. ASSUME NEW s \in Snapshots, ReadCommit(s)
         PROVE  Blames
    <2>1. /\ FailCommit(s) /\ s \in reader.todo /\ reader.pc = "commits"
          /\ CommitDecodes(s) => CommitNames(s) # s
      BY <1>1, <1>11 DEF Goes, ReadCommit, First, At
    <2>2. QED
      BY <1>8, <1>9, <2>1
  <1>12. ASSUME NEW s \in Snapshots, ReadForget(s)
         PROVE  Blames
    <2>1. ~(objects[ForgetKey(s)] = ForgetKey(s))
      BY <1>1, <1>12 DEF Goes
    <2>2. FailForget(s) /\ s \in reader.todo /\ reader.pc = "forgets"
      BY <1>12, <2>1 DEF ReadForget, First, At
    <2>3. PICK e \in {"storage_object_not_found", "repository_forget_marker_decode_failed",
                      "repository_forget_marker_invalid"} :
             /\ Fail(e, ForgetKey(s))
             /\ e = "storage_object_not_found" <=> objects[ForgetKey(s)] = Absent
      BY <2>2, RefusedMarkerType
    <2>4. Bad(ForgetKey(s))
      BY <2>1 DEF Bad
    <2>5. e \in {"storage_object_not_found"} \cup ForgetMarkerErrors
      BY DEF ForgetMarkerErrors
    <2>6. e = "storage_object_not_found" => ~reader.calm
      BY <1>0, <2>2, <2>3 DEF MarkersKnown
    <2>7. QED
      BY <2>2, <2>3, <2>4, <2>5, <2>6, MarkerBlamed
  <1>13. CASE (\/ \E s \in Snapshots : Publish(s) \/ Forget(s)
               \/ \E k \in Keys, bytes \in Keys \cup {Absent, Junk} : Damage(k, bytes)
               \/ \E sel \in Selections : BeginCheck(sel)
               \/ CheckSelect \/ BeginList \/ ListCommits \/ ListDone
               \/ \E s \in Snapshots : BeginRestore(s))
    BY <1>1, <1>13 DEF Goes, Stored
  <1>14. QED
    BY <1>0, <1>2, <1>3, <1>5, <1>6, <1>7, <1>10, <1>11, <1>12, <1>13 DEF Step

(***************************************************************************)
(* A command that fails names an object that is bad and exits with 6; it   *)
(* exits with 3 only when a marker it had listed has disappeared meanwhile *)
(* (core_exit_code, core_failure_object_key), and a check reports a        *)
(* finding exactly when it exits with 6 (check_finding_for_core_error).    *)
(***************************************************************************)
THEOREM FailuresAreTold == Spec => FailuresBlameTheBad
  <1>1. Init => TypeOK /\ CheckInv
    BY TypeBegins, CheckBegins
  <1>2. TypeOK /\ CheckInv /\ [Next]_vars => TypeOK' /\ CheckInv'
    BY TypeStays, CheckStays
  <1>3. TypeOK /\ CheckInv /\ [Next]_vars =>
           [reader'.pc = "failed" /\ reader.pc # "failed" => Blames]_vars
    BY StepBlames
  <1>4. QED
    BY <1>1, <1>2, <1>3, PTL DEF Spec, FailuresBlameTheBad, Blames
=============================================================================
