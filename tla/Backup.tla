------------------------------- MODULE Backup -------------------------------
(***************************************************************************)
(* `ferry backup`: BackupPipeline::write_snapshot run by several processes *)
(* on one repository, over source files that other programs change.        *)
(*                                                                         *)
(* A run walks the source tree and captures metadata, then reads, chunks,  *)
(* encrypts and uploads each file, then writes the chunk index, the        *)
(* snapshot manifest and the commit marker.  Every store operation is a    *)
(* step; between two of them other runs take steps, files change, and the  *)
(* run may end with an error, a signal or a crash.  A retry of a failed    *)
(* backup is another run.                                                  *)
(*                                                                         *)
(* The store is the immutable store of module ObjectStore: every put is    *)
(* one step.  Nothing in the program deletes an object.                    *)
(*                                                                         *)
(* Data.  An id is a keyed hash, so it is represented by what it hashes: a *)
(* chunk id by its chunk, an index id by the index entries, a snapshot id  *)
(* by the manifest body.  A ciphertext is its plaintext and a nonce that   *)
(* no other encryption uses; a run encrypts each object it creates once,   *)
(* so the run stands for the nonce.  Every chunk has length 1.             *)
(***************************************************************************)
EXTENDS Naturals, Sequences

CONSTANTS
    Runs,           \* invocations of ferry backup
    Files,          \* source paths, numbers in walk order
    Chunks,         \* chunk plaintexts
    Contents,       \* possible contents of a file, sequences of chunks
    NoFile,         \* "no file at this path"
    StoredLengths,  \* encoded sizes of a ciphertext: they vary with its bytes
    MaxTime         \* bound: seconds the clock may reach

ASSUME BackupAssumption ==
    /\ Files \subseteq Nat
    /\ Contents \subseteq Seq(Chunks)
    /\ NoFile \notin Contents \cup Nat
    /\ NoFile \notin [size : Nat, chunks : Seq(Chunks)]
    /\ MaxTime \in Nat

VARIABLES
    source,         \* path -> current contents, or NoFile
    now,            \* the clock, in seconds
    chunkObjects,   \* objects/chunk/..., ids with the nonce they were sealed with
    indexObjects,   \* objects/index/...
    manifestObjects,\* objects/manifest/...
    commits,        \* snapshot ids with a marker under commits/
    run,            \* run -> local state of write_snapshot
    overlapped      \* history: runs that were active together with another

store == <<chunkObjects, indexObjects, manifestObjects, commits>>
vars == <<source, now, overlapped, store, run>>

-----------------------------------------------------------------------------
(* Repository objects *)

(* ManifestEntry of a regular file: size from the walk, chunks from the read. *)
Entries == [Files -> [size : Nat, chunks : Seq(Chunks)] \cup {NoFile}]

(* ChunkIndexEntry *)
IndexEntry == [chunk : Chunks, stored_length : StoredLengths]
Index == SUBSET IndexEntry

(* SnapshotManifestBody; with one index its id is index_ids. *)
Body == [created_at : 0..MaxTime, entries : Entries, index_id : Index]

Sealed(Ids) == [id : Ids, nonce : Runs]

Present(objects, id) == \E o \in objects : o.id = id

Seal(id, r) == [id |-> id, nonce |-> r]

(* put_if_absent: created, already present with the same bytes, or a conflict. *)
Put(objects, o) == IF Present(objects, o.id) THEN objects ELSE objects \cup {o}
Conflict(objects, o) == Present(objects, o.id) /\ o \notin objects

-----------------------------------------------------------------------------
(* Local state of write_snapshot *)

RunPc == {"idle", "walk", "read", "exists", "put", "index", "manifest",
          "commit", "done", "failed",
          "chunk_conflict", "index_conflict", "manifest_conflict"}

RunState ==
    [pc      : RunPc,
     todo    : SUBSET Files,        \* paths still to walk, then to read
     walked  : [Files -> Nat \cup {NoFile}],  \* size captured by the walk
     queue   : Seq(Chunks),         \* chunks of the current file to upload
     entries : Entries,             \* manifest_entries
     index   : Index,               \* index_entries, at most one per chunk
     body    : Body \cup {NoFile}]  \* manifest_body once it is built

Idle == [pc      |-> "idle",
         todo    |-> {},
         walked  |-> [f \in Files |-> NoFile],
         queue   |-> <<>>,
         entries |-> [f \in Files |-> NoFile],
         index   |-> {},
         body    |-> NoFile]

TypeOK ==
    /\ source \in [Files -> Contents \cup {NoFile}]
    /\ now \in 0..MaxTime
    /\ chunkObjects \subseteq Sealed(Chunks)
    /\ indexObjects \subseteq Sealed(Index)
    /\ manifestObjects \subseteq Sealed(Body)
    /\ commits \subseteq Body
    /\ run \in [Runs -> RunState]
    /\ overlapped \subseteq Runs

Init ==
    /\ source \in [Files -> Contents \cup {NoFile}]
    /\ now = 0
    /\ chunkObjects = {}
    /\ indexObjects = {}
    /\ manifestObjects = {}
    /\ commits = {}
    /\ run = [r \in Runs |-> Idle]
    /\ overlapped = {}

At(r, pc) == run[r].pc = pc

Become(r, state) == run' = [run EXCEPT ![r] = state]

Terminal == {"done", "failed", "chunk_conflict", "index_conflict", "manifest_conflict"}

Active(r) == run[r].pc \notin Terminal \cup {"idle"}

(* write_snapshot returns an error, or dies: its local state is gone. *)
Ended(pc) == [Idle EXCEPT !.pc = pc]

First(S, f) == f \in S /\ \A g \in S : f <= g

-----------------------------------------------------------------------------
(* The world around the runs *)

ChangeFile(f, c) ==
    /\ source[f] # c
    /\ source' = [source EXCEPT ![f] = c]
    /\ UNCHANGED <<now, overlapped, store, run>>

Tick ==
    /\ now < MaxTime
    /\ now' = now + 1
    /\ UNCHANGED <<source, overlapped, store, run>>

(* A store or I/O error, a signal or a crash: what was stored stays. *)
Stop(r) ==
    /\ Active(r)
    /\ Become(r, Ended("failed"))
    /\ UNCHANGED <<source, now, overlapped, store>>

-----------------------------------------------------------------------------
(* write_snapshot *)

Start(r) ==
    LET others == {s \in Runs : Active(s)} IN
    /\ At(r, "idle")
    /\ Become(r, [run[r] EXCEPT !.pc = "walk", !.todo = Files])
    /\ overlapped' = IF others = {} THEN overlapped ELSE overlapped \cup others \cup {r}
    /\ UNCHANGED <<source, now, store>>

(* SourceWalker::walk: the size is captured here. *)
WalkEntry(r, f) ==
    /\ At(r, "walk")
    /\ First(run[r].todo, f)
    /\ Become(r, [run[r] EXCEPT
                     !.todo = @ \ {f},
                     !.walked[f] = IF source[f] = NoFile THEN NoFile ELSE Len(source[f])])
    /\ UNCHANGED <<source, now, overlapped, store>>

WalkDone(r) ==
    /\ At(r, "walk")
    /\ run[r].todo = {}
    /\ Become(r, [run[r] EXCEPT !.pc = "read",
                                !.todo = {f \in Files : run[r].walked[f] # NoFile}])
    /\ UNCHANGED <<source, now, overlapped, store>>

(* Mutant of ReadFile: uploads are started and not waited for. *)
ReadFileNoWait(r, f) ==
    /\ At(r, "read")
    /\ First(run[r].todo, f)
    /\ source[f] # NoFile
    /\ Become(r, [run[r] EXCEPT
                     !.todo = @ \ {f},
                     !.entries[f] = [size |-> run[r].walked[f], chunks |-> source[f]]])
    /\ UNCHANGED <<source, now, overlapped, store>>

(* fs::read and chunk_bytes; FileRead when the file has gone. *)
ReadFile(r, f) ==
    /\ At(r, "read")
    /\ First(run[r].todo, f)
    /\ IF source[f] = NoFile
       THEN Become(r, Ended("failed"))
       ELSE Become(r, [run[r] EXCEPT
                         !.pc = IF source[f] = <<>> THEN "read" ELSE "exists",
                         !.todo = @ \ {f},
                         !.queue = source[f],
                         !.entries[f] = [size |-> run[r].walked[f], chunks |-> source[f]]])
    /\ UNCHANGED <<source, now, overlapped, store>>

(* The index entry of a chunk; dedup_by keeps the first one pushed. *)
Indexed(index, c, len) ==
    IF \E e \in index : e.chunk = c THEN index
    ELSE index \cup {[chunk |-> c, stored_length |-> len]}

(* The end of the chunk loop's body: reference and index entry are pushed. *)
ChunkDone(r) ==
    \E len \in StoredLengths :
        Become(r, [run[r] EXCEPT
                     !.pc = IF Tail(run[r].queue) = <<>> THEN "read" ELSE "exists",
                     !.queue = Tail(@),
                     !.index = Indexed(@, Head(run[r].queue), len)])

(* Mutant of ChunkExists: the exists check is dropped. *)
ChunkExistsSkipped(r) ==
    /\ At(r, "exists")
    /\ Become(r, [run[r] EXCEPT !.pc = "put"])
    /\ UNCHANGED <<source, now, overlapped, store>>

ChunkExists(r) ==
    /\ At(r, "exists")
    /\ IF Present(chunkObjects, Head(run[r].queue))
       THEN ChunkDone(r)
       ELSE Become(r, [run[r] EXCEPT !.pc = "put"])
    /\ UNCHANGED <<source, now, overlapped, store>>

(* The chunk was sealed afresh, so another run's object is a conflict. *)
PutChunk(r) ==
    LET o == Seal(Head(run[r].queue), r) IN
    /\ At(r, "put")
    /\ chunkObjects' = Put(chunkObjects, o)
    /\ IF Conflict(chunkObjects, o)
       THEN Become(r, Ended("chunk_conflict"))
       ELSE ChunkDone(r)
    /\ UNCHANGED <<source, now, overlapped, indexObjects, manifestObjects, commits>>

(* sort_by and dedup_by end the loop; the index is complete. *)
AllRead(r) ==
    /\ At(r, "read")
    /\ run[r].todo = {}
    /\ Become(r, [run[r] EXCEPT !.pc = "index"])
    /\ UNCHANGED <<source, now, overlapped, store>>

(* Mutant of WriteIndex: ObjectAlreadyExists is taken for success. *)
WriteIndexReusing(r) ==
    /\ At(r, "index")
    /\ indexObjects' = Put(indexObjects, Seal(run[r].index, r))
    /\ Become(r, [run[r] EXCEPT !.pc = "manifest",
                                !.body = [created_at |-> now,
                                          entries    |-> run[r].entries,
                                          index_id   |-> run[r].index]])
    /\ UNCHANGED <<source, now, overlapped, chunkObjects, manifestObjects, commits>>

(* Mutant of WriteIndex: the manifest body is not built before it is used. *)
WriteIndexUnstamped(r) ==
    /\ At(r, "index")
    /\ indexObjects' = Put(indexObjects, Seal(run[r].index, r))
    /\ Become(r, [run[r] EXCEPT !.pc = "manifest"])
    /\ UNCHANGED <<source, now, overlapped, chunkObjects, manifestObjects, commits>>

(* The index is written without asking exists first; then the body is stamped. *)
WriteIndex(r) ==
    LET o == Seal(run[r].index, r) IN
    /\ At(r, "index")
    /\ indexObjects' = Put(indexObjects, o)
    /\ Become(r, IF Conflict(indexObjects, o) THEN Ended("index_conflict")
                 ELSE [run[r] EXCEPT !.pc = "manifest",
                                     !.body = [created_at |-> now,
                                               entries    |-> run[r].entries,
                                               index_id   |-> run[r].index]])
    /\ UNCHANGED <<source, now, overlapped, chunkObjects, manifestObjects, commits>>

(* Mutant of WriteManifest: the marker is written before the manifest. *)
WriteManifestLate(r) ==
    /\ At(r, "manifest")
    /\ commits' = commits \cup {run[r].body}
    /\ Become(r, [run[r] EXCEPT !.pc = "commit"])
    /\ UNCHANGED <<source, now, overlapped, chunkObjects, indexObjects, manifestObjects>>

WriteManifest(r) ==
    LET o == Seal(run[r].body, r) IN
    /\ At(r, "manifest")
    /\ manifestObjects' = Put(manifestObjects, o)
    /\ Become(r, IF Conflict(manifestObjects, o) THEN Ended("manifest_conflict")
                 ELSE [run[r] EXCEPT !.pc = "commit"])
    /\ UNCHANGED <<source, now, overlapped, chunkObjects, indexObjects, commits>>

(* The marker's bytes are determined by the snapshot id: no conflict. *)
WriteCommit(r) ==
    /\ At(r, "commit")
    /\ commits' = commits \cup {run[r].body}
    /\ Become(r, [run[r] EXCEPT !.pc = "done"])
    /\ UNCHANGED <<source, now, overlapped, chunkObjects, indexObjects, manifestObjects>>

Step(r) ==
    \/ \E f \in Files : WalkEntry(r, f) \/ ReadFile(r, f)
    \/ WalkDone(r)
    \/ ChunkExists(r)
    \/ PutChunk(r)
    \/ AllRead(r)
    \/ WriteIndex(r)
    \/ WriteManifest(r)
    \/ WriteCommit(r)

Next ==
    \/ \E f \in Files, c \in Contents \cup {NoFile} : ChangeFile(f, c)
    \/ Tick
    \/ \E r \in Runs : Start(r) \/ Step(r) \/ Stop(r)

Spec == Init /\ [][Next]_vars

-----------------------------------------------------------------------------
(* What a later command finds *)

(* validate_snapshot_manifest, which every reader of a manifest calls. *)
ValidManifest(s) ==
    \A f \in Files : s.entries[f] # NoFile =>
        s.entries[f].size = Len(s.entries[f].chunks)

(* The chunks restore_snapshot_contents reads for a snapshot. *)
Referenced(s, c) ==
    \E f \in Files : /\ s.entries[f] # NoFile
                     /\ \E i \in DOMAIN s.entries[f].chunks : s.entries[f].chunks[i] = c

(* Manifest, index, index entries and chunks are all found. *)
Complete(s) ==
    /\ Present(manifestObjects, s)
    /\ Present(indexObjects, s.index_id)
    /\ \A c \in Chunks : Referenced(s, c) =>
          /\ \E e \in s.index_id : e.chunk = c
          /\ Present(chunkObjects, c)

-----------------------------------------------------------------------------
(* Properties *)

(***************************************************************************)
(* Once the marker of a snapshot is under commits/, its manifest, its      *)
(* index, an index entry for every chunk it references and every such      *)
(* chunk are in the repository: whichever runs overlap, and wherever they  *)
(* fail, a reader that finds the marker finds the snapshot complete.       *)
(***************************************************************************)
CommittedComplete == \A s \in commits : Complete(s)

(***************************************************************************)
(* Two runs that get as far as a manifest never have the same snapshot id, *)
(* not even when they back up equal trees in the same second: each         *)
(* successful backup is a snapshot of its own, whose manifest and marker   *)
(* no other run has written.                                               *)
(***************************************************************************)
SnapshotIdsDistinct ==
    \A r, s \in Runs :
        /\ r # s
        /\ run[r].pc \in {"manifest", "commit", "done"}
        /\ run[s].pc \in {"manifest", "commit", "done"}
        => run[r].body # run[s].body

(***************************************************************************)
(* A run during which no other is active never conflicts on a chunk:       *)
(* whatever interrupted and overlapping runs left behind before it, the    *)
(* exists check sees it.                                                   *)
(***************************************************************************)
SequentialChunksNeverConflict ==
    \A r \in Runs \ overlapped : ~At(r, "chunk_conflict")

(***************************************************************************)
(* Deduplication races cannot take down every backup involved: when a run  *)
(* has failed on a chunk another run uploaded first, some run that started *)
(* has not failed that way, even if all upload the same chunks in          *)
(* different orders.                                                       *)
(***************************************************************************)
DedupRaceHasSurvivor ==
    (\E r \in Runs : At(r, "chunk_conflict"))
    => \E s \in Runs : run[s].pc \notin {"idle", "chunk_conflict"}

(* A snapshot with what its references lead to; NoFile when one leads nowhere. *)
View(s) ==
    [id     |-> s,
     stored |-> IF Complete(s)
                THEN [f \in Files |-> IF s.entries[f] = NoFile THEN NoFile
                                      ELSE s.entries[f].chunks]
                ELSE NoFile]

CatalogView == INSTANCE Catalog WITH
    Snapshots <- [id : Body, stored : [Files -> Contents \cup {NoFile}]],
    published <- {View(s) : s \in commits},
    forgotten <- {}

(***************************************************************************)
(* Seen by its user, the repository is a catalog: a snapshot appears in    *)
(* one step, with everything a restore of it reads, and its contents stay  *)
(* the same whatever runs are started or interrupted afterwards.           *)
(***************************************************************************)
ImplementsCatalog == CatalogView!Spec

(***************************************************************************)
(* "Deduplication races are handled by idempotent object writes": a run    *)
(* does not fail because another run uploaded the same chunk.              *)
(***************************************************************************)
DedupRacesHandled == \A r \in Runs : ~At(r, "chunk_conflict")

(***************************************************************************)
(* A backup that succeeded is committed "so `ferry snapshots` and `ferry   *)
(* ls` can discover it": the manifest it committed passes the validation   *)
(* every reader applies.                                                   *)
(***************************************************************************)
CommittedDiscoverable == \A s \in commits : ValidManifest(s)
=============================================================================
