------------------------------ MODULE Integrity ------------------------------
(***************************************************************************)
(* The readers of a repository that is damaged under them: `ferry check`,  *)
(* the restore of a snapshot's contents, and snapshot discovery.           *)
(*                                                                         *)
(* The store loses objects, returns garbage for them, or returns under one *)
(* key what was written under another.  Backups go on publishing, each in  *)
(* one step (Backup implements Catalog), and forgets go on hiding.  A      *)
(* reader takes one step per object it reads.  Readers write nothing, so   *)
(* one at a time is enough.                                                *)
(*                                                                         *)
(* Data.  An object's name determines what write_snapshot puts there: the  *)
(* name is a hash of it.  The bytes found under a key are therefore the    *)
(* key they were written under, or Junk, or Absent.  A listing takes one   *)
(* step: an object published while it runs may as well come after it.      *)
(***************************************************************************)
EXTENDS Errors, Sequences, FiniteSets

CONSTANTS
    Snapshots,      \* snapshot ids, numbers
    Chunks,         \* chunk ids, numbers
    Files,          \* paths of regular files, numbers
    Contents,       \* snapshot -> file -> its chunks
    Absent, Junk,   \* no object; bytes no object was written with
    Selections,     \* chunks to read: a mode ("full", "count", "percent") and n
    MaxFaults       \* bound: objects damaged

ChunksOf(s) == {c \in Chunks : \E f \in Files : \E i \in DOMAIN Contents[s][f] :
                                  Contents[s][f][i] = c}

CommitKey(s) == <<"commit", s>>
ForgetKey(s) == <<"forget", s>>
ManifestKey(s) == <<"manifest", s>>
IndexKey(s) == <<"index", s>>
ChunkKey(c) == <<"chunk", c>>

SnapshotKeys == {"commit", "forget", "manifest", "index"} \X Snapshots
Keys == SnapshotKeys \cup ({"chunk"} \X Chunks)

ASSUME IntegrityAssumption ==
    /\ Snapshots \subseteq Nat /\ Chunks \subseteq Nat /\ Files \subseteq Nat
    /\ IsFiniteSet(Chunks)
    /\ Contents \in [Snapshots -> [Files -> Seq(Chunks)]]
    /\ Selections \subseteq [mode : {"full", "count", "percent"}, n : Nat \ {0}]
    /\ \A sel \in Selections : sel.mode = "percent" => sel.n <= 100
    /\ Selections # {}
    /\ Absent \notin Keys /\ Junk \notin Keys /\ Absent # Junk
    /\ MaxFaults \in Nat

VARIABLES
    changed,        \* snapshots with a file that changed while it was read; fixed
    objects,        \* key -> bytes found under it
    forgotten,      \* snapshots a forget run has marked
    faults,         \* objects damaged so far
    reader          \* the command that reads

vars == <<changed, objects, forgotten, faults, reader>>

ReaderPc == {"idle", "failed",
             "check", "check_manifest", "check_index", "check_data", "verified", "checked",
             "restore", "restore_index", "restore_chunks", "restored",
             "forgets", "commits", "load_manifest", "listed"}

(* The errors a reader may end with, and none. *)
ReaderErrors ==
    {"", "storage_object_not_found", "system_clock_invalid"}
    \cup MissingErrors \cup ObjectErrors \cup ForgetMarkerErrors

(* calm: no object was damaged since the reader began. *)
Reader ==
    [pc     : ReaderPc,
     calm   : BOOLEAN,
     select : Selections,           \* --read-data-subset of a check
     target : Snapshots,            \* the snapshot being read
     todo   : (SUBSET Snapshots) \cup (SUBSET Chunks),
     seen   : SUBSET Snapshots,     \* commit keys that were listed
     chunks : SUBSET Chunks,        \* chunk_targets, then those selected
     hidden : SUBSET Snapshots,     \* forgotten_snapshot_ids
     shown  : SUBSET Snapshots,     \* manifests loaded
     body   : Snapshots,            \* the snapshot whose manifest was read
     got    : [Files -> Seq(Chunks)],
     error  : ReaderErrors,         \* of a reader that failed, with the object
     blamed : Keys]                 \* its failure names

(* A new command.  It may begin at any time: the one before it was killed. *)
Begun(pc, s) ==
    [pc |-> pc, calm |-> TRUE, select |-> CHOOSE sel \in Selections : TRUE,
     target |-> s, todo |-> {}, seen |-> {},
     chunks |-> {}, hidden |-> {}, shown |-> {}, body |-> s,
     got |-> [f \in Files |-> <<>>], error |-> "", blamed |-> CommitKey(s)]

Init ==
    /\ changed \in SUBSET Snapshots
    /\ objects = [k \in Keys |-> Absent]
    /\ forgotten = {}
    /\ faults = 0
    /\ \E s \in Snapshots : reader = Begun("idle", s)

At(pc) == reader.pc = pc

First(S, x) == x \in S /\ \A y \in S : x <= y

-----------------------------------------------------------------------------
(* Writers and damage *)

(* A chunk that exists is not written again; anything else already under the
   key of an index, manifest or marker is a conflict that stops the backup. *)
Publish(s) ==
    LET created == {CommitKey(s), ManifestKey(s), IndexKey(s)} IN
    /\ \A k \in created : objects[k] = Absent
    /\ objects' = [k \in Keys |->
                     IF \/ k \in created
                        \/ objects[k] = Absent /\ \E c \in ChunksOf(s) : k = ChunkKey(c)
                     THEN k ELSE objects[k]]
    /\ UNCHANGED <<forgotten, faults, reader>>

Forget(s) ==
    /\ objects[CommitKey(s)] # Absent
    /\ objects[ForgetKey(s)] = Absent
    /\ objects' = [objects EXCEPT ![ForgetKey(s)] = ForgetKey(s)]
    /\ forgotten' = forgotten \cup {s}
    /\ UNCHANGED <<faults, reader>>

(* An object is lost or garbled, or one is copied to the key of another. *)
Damage(k, bytes) ==
    /\ faults < MaxFaults
    /\ bytes # objects[k]
    /\ \/ bytes \in {Absent, Junk} /\ objects[k] # Absent
       \/ bytes # Absent /\ \E j \in Keys : objects[j] = bytes
    /\ objects' = [objects EXCEPT ![k] = bytes]
    /\ faults' = faults + 1
    /\ reader' = [reader EXCEPT !.calm = FALSE]
    /\ UNCHANGED forgotten

-----------------------------------------------------------------------------
(* Reading an object *)

(* Mutant of Opens: the ciphertext is not bound to its key, nor its id checked. *)
OpensAny(k, bytes) == bytes \in Keys /\ bytes[1] = k[1]

(***************************************************************************)
(* decrypt_repository_object authenticates kind and object key, and the id *)
(* is computed again from the plaintext: either refuses other bytes.       *)
(***************************************************************************)
Opens(k, bytes) == bytes = k

(* read_snapshot_manifest, with validate_snapshot_manifest. *)
ManifestOpens(s) ==
    Opens(ManifestKey(s), objects[ManifestKey(s)]) /\ s \notin changed

(* read_chunk_index, and a valid entry for every chunk of the snapshot. *)
IndexOpens(s) == Opens(IndexKey(s), objects[IndexKey(s)])

ChunkOpens(c) == Opens(ChunkKey(c), objects[ChunkKey(c)])

(* A commit marker is JSON; that of a forget marker has all of its fields. *)
CommitDecodes(s) == objects[CommitKey(s)] \in {"commit", "forget"} \X Snapshots
CommitNames(s) == objects[CommitKey(s)][2]

Fail(error, k) ==
    reader' = [Begun("failed", reader.target) EXCEPT !.calm = reader.calm, !.error = error,
                                                     !.blamed = k]

(* Mutant of Missing: the errors of the store are passed on. *)
MissingAsFound == "storage_object_not_found"

(* check_read_error, referenced_object_read_error: an object that a marker, a
   manifest or an index leads to is not there. *)
Missing ==
    IF reader.pc \in {"check_manifest", "check_index", "check_data"}
    THEN "repository_check_missing_object" ELSE "repository_referenced_object_missing"

(* Why the encrypted object under k was refused. *)
Refused(k) ==
    CASE objects[k] = Absent -> Missing
      [] objects[k] = k      -> "snapshot_manifest_invalid"
      [] objects[k] # k /\ objects[k] \in {"manifest", "index", "chunk"} \X Nat ->
            "repository_object_authentication_failed"
      [] OTHER               -> "repository_object_decode_failed"

(* Why the marker under k, which markers of some kinds decode as, was refused:
   one that was listed may be gone. *)
RefusedMarker(k, kinds, undecodable, invalid) ==
    CASE objects[k] = Absent               -> "storage_object_not_found"
      [] objects[k] \in kinds \X Snapshots -> invalid
      [] OTHER                             -> undecodable

FailCommit(s) ==
    Fail(RefusedMarker(CommitKey(s), {"commit", "forget"}, "repository_commit_decode_failed",
                       "repository_commit_marker_invalid"), CommitKey(s))

Listed(group) == {s \in Snapshots : objects[<<group, s>>] # Absent}

-----------------------------------------------------------------------------
(* check_repository_with_options *)

BeginCheck(sel) ==
    /\ reader' = [Begun("check", reader.target) EXCEPT !.select = sel,
                                                       !.todo = Listed("commit"),
                                                       !.seen = Listed("commit")]
    /\ UNCHANGED <<objects, forgotten, faults>>

CheckCommit(s) ==
    /\ At("check") /\ First(reader.todo, s)
    /\ IF CommitDecodes(s) /\ CommitNames(s) = s
       THEN reader' = [reader EXCEPT !.pc = "check_manifest", !.target = s,
                                     !.todo = @ \ {s}]
       ELSE FailCommit(s)
    /\ UNCHANGED <<objects, forgotten, faults>>

CheckManifest ==
    /\ At("check_manifest")
    /\ IF ManifestOpens(reader.target)
       THEN reader' = [reader EXCEPT !.pc = "check_index"]
       ELSE Fail(Refused(ManifestKey(reader.target)), ManifestKey(reader.target))
    /\ UNCHANGED <<objects, forgotten, faults>>

CheckIndex ==
    /\ At("check_index")
    /\ IF IndexOpens(reader.target)
       THEN reader' = [reader EXCEPT !.pc = "check",
                                     !.chunks = @ \cup ChunksOf(reader.target)]
       ELSE Fail(Refused(IndexKey(reader.target)), IndexKey(reader.target))
    /\ UNCHANGED <<objects, forgotten, faults>>

(* Mutant of SelectedCount: the percentage is rounded down. *)
SelectedCountFloor(selection, total) ==
    CASE selection.mode = "full"    -> total
      [] selection.mode = "count"   -> IF selection.n < total THEN selection.n ELSE total
      [] selection.mode = "percent" -> (total * selection.n) \div 100

(* CheckReadDataSubset::selected_count: a percentage is rounded up. *)
SelectedCount(selection, total) ==
    CASE selection.mode = "full"    -> total
      [] selection.mode = "count"   -> IF selection.n < total THEN selection.n ELSE total
      [] selection.mode = "percent" -> (total * selection.n + 99) \div 100

(* select_check_chunk_ids takes the first of the sorted ids. *)
CheckSelect ==
    /\ At("check") /\ reader.todo = {}
    /\ LET chosen == {c \in reader.chunks :
                        Cardinality({d \in reader.chunks : d < c})
                          < SelectedCount(reader.select, Cardinality(reader.chunks))}
       IN reader' = [reader EXCEPT !.pc = IF chosen = {} THEN "verified" ELSE "check_data",
                                   !.todo = chosen, !.chunks = chosen]
    /\ UNCHANGED <<objects, forgotten, faults>>

CheckChunk(c) ==
    /\ At("check_data") /\ First(reader.todo, c)
    /\ IF ChunkOpens(c)
       THEN reader' = [reader EXCEPT !.todo = @ \ {c},
                         !.pc = IF reader.todo = {c} THEN "verified" ELSE "check_data"]
       ELSE Fail(Refused(ChunkKey(c)), ChunkKey(c))
    /\ UNCHANGED <<objects, forgotten, faults>>

(* The result has the time of the check; a clock before 1970 fails it. *)
CheckReport ==
    /\ At("verified")
    /\ \/ reader' = [reader EXCEPT !.pc = "checked"]
       \/ Fail("system_clock_invalid", reader.blamed)
    /\ UNCHANGED <<objects, forgotten, faults>>

-----------------------------------------------------------------------------
(* restore_snapshot_contents *)

(* The command has listed the snapshots and selected one of them. *)
BeginRestore(s) ==
    /\ At("listed") /\ s \in reader.shown
    /\ reader' = [reader EXCEPT !.pc = "restore", !.target = s]
    /\ UNCHANGED <<objects, forgotten, faults>>

(* What was read is the manifest of the snapshot under whose key it was written. *)
RestoreManifest ==
    LET s == reader.target IN
    /\ At("restore")
    /\ IF ManifestOpens(s)
       THEN reader' = [reader EXCEPT !.pc = "restore_index",
                                     !.body = objects[ManifestKey(s)][2]]
       ELSE Fail(Refused(ManifestKey(s)), ManifestKey(s))
    /\ UNCHANGED <<objects, forgotten, faults>>

(* The next chunk to read: files in order, chunks in order. *)
Unfinished == {f \in Files : Len(reader.got[f]) < Len(Contents[reader.body][f])}
NextChunk(f) == Contents[reader.body][f][Len(reader.got[f]) + 1]

RestoreIndex ==
    /\ At("restore_index")
    /\ IF IndexOpens(reader.body)
       THEN reader' = [reader EXCEPT !.pc = IF Unfinished = {} THEN "restored"
                                            ELSE "restore_chunks"]
       ELSE Fail(Refused(IndexKey(reader.body)), IndexKey(reader.body))
    /\ UNCHANGED <<objects, forgotten, faults>>

RestoreChunk(f) ==
    LET bytes == objects[ChunkKey(NextChunk(f))] IN
    /\ At("restore_chunks") /\ First(Unfinished, f)
    /\ IF ChunkOpens(NextChunk(f))
       THEN reader' = [reader EXCEPT
                         !.got[f] = Append(@, bytes[2]),
                         !.pc = IF /\ Unfinished = {f}
                                   /\ Len(reader.got[f]) + 1 = Len(Contents[reader.body][f])
                                THEN "restored" ELSE "restore_chunks"]
       ELSE Fail(Refused(ChunkKey(NextChunk(f))), ChunkKey(NextChunk(f)))
    /\ UNCHANGED <<objects, forgotten, faults>>

-----------------------------------------------------------------------------
(* read_committed_snapshot_manifests *)

BeginList ==
    /\ reader' = [Begun("forgets", reader.target) EXCEPT !.todo = Listed("forget")]
    /\ UNCHANGED <<objects, forgotten, faults>>

FailForget(s) ==
    Fail(RefusedMarker(ForgetKey(s), {"forget"}, "repository_forget_marker_decode_failed",
                       "repository_forget_marker_invalid"), ForgetKey(s))

(* Mutant of ReadForget: the marker is taken for its key, whatever it contains. *)
ReadForgetByKey(s) ==
    /\ At("forgets") /\ First(reader.todo, s)
    /\ IF objects[ForgetKey(s)] \in SnapshotKeys
       THEN reader' = [reader EXCEPT !.todo = @ \ {s}, !.hidden = @ \cup {s}]
       ELSE FailForget(s)
    /\ UNCHANGED <<objects, forgotten, faults>>

(* read_snapshot_forget_marker: contents have to name the key. *)
ReadForget(s) ==
    /\ At("forgets") /\ First(reader.todo, s)
    /\ IF objects[ForgetKey(s)] = ForgetKey(s)
       THEN reader' = [reader EXCEPT !.todo = @ \ {s}, !.hidden = @ \cup {s}]
       ELSE FailForget(s)
    /\ UNCHANGED <<objects, forgotten, faults>>

ListCommits ==
    /\ At("forgets") /\ reader.todo = {}
    /\ reader' = [reader EXCEPT !.pc = "commits", !.todo = Listed("commit"),
                                !.seen = Listed("commit")]
    /\ UNCHANGED <<objects, forgotten, faults>>

(* What the marker names is skipped if forgotten, before it has to fit the key. *)
ReadCommit(s) ==
    /\ At("commits") /\ First(reader.todo, s)
    /\ \/ /\ CommitDecodes(s) /\ CommitNames(s) \in reader.hidden
          /\ reader' = [reader EXCEPT !.todo = @ \ {s}]
       \/ /\ CommitDecodes(s) /\ CommitNames(s) \notin reader.hidden
          /\ CommitNames(s) = s
          /\ reader' = [reader EXCEPT !.todo = @ \ {s}, !.pc = "load_manifest", !.target = s]
       \/ /\ CommitDecodes(s) => CommitNames(s) \notin reader.hidden \cup {s}
          /\ FailCommit(s)
    /\ UNCHANGED <<objects, forgotten, faults>>

LoadManifest ==
    LET s == reader.target IN
    /\ At("load_manifest")
    /\ IF ManifestOpens(s)
       THEN reader' = [reader EXCEPT !.pc = "commits", !.shown = @ \cup {s}]
       ELSE Fail(Refused(ManifestKey(s)), ManifestKey(s))
    /\ UNCHANGED <<objects, forgotten, faults>>

ListDone ==
    /\ At("commits") /\ reader.todo = {}
    /\ reader' = [reader EXCEPT !.pc = "listed"]
    /\ UNCHANGED <<objects, forgotten, faults>>

Step ==
    \/ \E s \in Snapshots : Publish(s) \/ Forget(s)
    \/ \E k \in Keys, bytes \in Keys \cup {Absent, Junk} : Damage(k, bytes)
    \/ \E sel \in Selections : BeginCheck(sel)
    \/ CheckManifest \/ CheckIndex \/ CheckSelect \/ CheckReport
    \/ \E s \in Snapshots : CheckCommit(s)
    \/ \E c \in Chunks : CheckChunk(c)
    \/ \E s \in Snapshots : BeginRestore(s)
    \/ RestoreManifest \/ RestoreIndex
    \/ \E f \in Files : RestoreChunk(f)
    \/ BeginList \/ ListCommits \/ LoadManifest \/ ListDone
    \/ \E s \in Snapshots : ReadForget(s) \/ ReadCommit(s)

Next == Step /\ UNCHANGED changed

Spec == Init /\ [][Next]_vars

-----------------------------------------------------------------------------
(* Properties *)

(***************************************************************************)
(* A restore that ends well returns, for every file, what was backed up:   *)
(* whatever objects are lost, garbled or interchanged before it or while   *)
(* it runs, it fails rather than return other contents.                    *)
(***************************************************************************)
RestoreExact == At("restored") => reader.got = Contents[reader.target]

(* What a restore of s will read is all there, but for the chunks in C. *)
Restorable(s, C) ==
    /\ ManifestOpens(s)
    /\ IndexOpens(s)
    /\ \A c \in ChunksOf(s) \ C : ChunkOpens(c)

(***************************************************************************)
(* After a check that ends well, every snapshot committed before it began  *)
(* can be restored, if nothing was damaged since it began: the check reads *)
(* all a restore reads, although it visits a shared chunk once, for the    *)
(* first snapshot that refers to it.  With a subset, only the chunks it    *)
(* did not select are in doubt, and it selects no fewer than was asked.    *)
(***************************************************************************)
CheckedIsRestorable ==
    At("checked") /\ reader.calm =>
        LET referenced == UNION {ChunksOf(s) : s \in reader.seen}
            unread == referenced \ reader.chunks
        IN /\ \A s \in reader.seen : Restorable(s, unread)
           /\ reader.select.mode = "full" => unread = {}
           /\ reader.select.mode = "percent" =>
                 Cardinality(reader.chunks) * 100
                   >= Cardinality(referenced) * reader.select.n

(***************************************************************************)
(* A snapshot is hidden only when a forget has marked it: damaged or       *)
(* interchanged forget markers fail the listing, they hide nothing.        *)
(***************************************************************************)
HidesOnlyForgotten == reader.hidden \subseteq forgotten

(* What is under k is not what was written there, or no reader accepts it. *)
Bad(k) ==
    \/ objects[k] # k
    \/ k[1] = "manifest" /\ k[2] \in changed

(***************************************************************************)
(* A command that fails blames an object that is bad, and exits with 6, as *)
(* for any missing or malformed object of a committed snapshot.  It exits  *)
(* with 3, as for a repository that is not there, only when a marker it    *)
(* had listed disappeared while it ran.  A check reports a finding with    *)
(* it, and fails without blame only on the clock, after all was verified.  *)
(***************************************************************************)
FailuresBlameTheBad ==
    [][ reader'.pc = "failed" /\ reader.pc # "failed" =>
          LET e == reader'.error IN
          \/ e = "system_clock_invalid" /\ reader.pc = "verified"
          \/ /\ NamesObject(e) /\ Bad(reader'.blamed) /\ ~Retryable(e)
             /\ ExitCode(e) = IF e = "storage_object_not_found" THEN 3 ELSE 6
             /\ ExitCode(e) = 3 => ~reader.calm
             /\ reader.pc \in {"check", "check_manifest", "check_index", "check_data"} =>
                   (HasFinding(e) <=> ExitCode(e) = 6) ]_vars
=============================================================================
