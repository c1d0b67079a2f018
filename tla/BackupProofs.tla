---------------------------- MODULE BackupProofs ----------------------------
(***************************************************************************)
(* Proofs about Backup, for any number of overlapping runs, files, chunks  *)
(* and contents, and about Walk and Exclusion, for any tree, roots,        *)
(* patterns and changes.                                                   *)
(*                                                                         *)
(* Backup: the inductive invariant says of each run's local state what of  *)
(* it is already stored; the store only grows, so what is said of one run  *)
(* survives the steps of the others.  The parts of the invariant take the  *)
(* object sets as parameters: they are used for the sets before a step and *)
(* after it.                                                               *)
(*                                                                         *)
(* Walk: Tidy says that no path is captured or queued twice and that what  *)
(* is above it is captured as a directory, PruneInv that nothing captured  *)
(* or queued is excluded, LossInv that what is to be captured is captured  *)
(* or still on the way.                                                    *)
(*                                                                         *)
(* Exclusion: wildcard_match and path_segments_match, as recursive         *)
(* functions, against what the patterns mean; Upwards, FromBelow and       *)
(* Recursion are induction over sets of numbers.                           *)
(***************************************************************************)
EXTENDS Backup, Walk, WellFoundedInduction, TLAPS

-----------------------------------------------------------------------------
(* The inductive invariant; u is the local state of a run *)

Has(index, c) == \E e \in index : e.chunk = c

In(q, c) == \E i \in DOMAIN q : q[i] = c

(* The walk found every path the run has still to read. *)
WalkedOK(u) == u.pc \in {"read", "exists", "put"} =>
                  \A f \in u.todo : u.walked[f] \in Nat

(* The queue is empty unless a file is being uploaded. *)
QueueOK(u) == IF u.pc \in {"exists", "put"} THEN u.queue # <<>> ELSE u.queue = <<>>

(* Every chunk the run has indexed is stored. *)
IndexOK(u, cs) == \A c \in Chunks : Has(u.index, c) => Present(cs, c)

(* Every chunk of an entry is indexed, or still to be uploaded. *)
EntriesOK(u) ==
    \A f \in Files, c \in Chunks :
        u.entries[f] # NoFile /\ In(u.entries[f].chunks, c)
        => Has(u.index, c) \/ In(u.queue, c)

(* The body a run publishes is its entries and its own stored index. *)
BodyOK(r, u, is, ms) ==
    /\ u.pc \in {"manifest", "commit", "done"} =>
          /\ u.body \in Body
          /\ u.body.entries = u.entries
          /\ u.body.index_id = u.index
          /\ Seal(u.index, r) \in is
    /\ u.pc \in {"commit", "done"} => Present(ms, u.body)

RunOK(r, u, cs, is, ms) ==
    /\ WalkedOK(u)
    /\ QueueOK(u)
    /\ IndexOK(u, cs)
    /\ EntriesOK(u)
    /\ BodyOK(r, u, is, ms)

CompleteIn(s, cs, is, ms) ==
    /\ Present(ms, s)
    /\ Present(is, s.index_id)
    /\ \A c \in Chunks : Referenced(s, c) => Has(s.index_id, c) /\ Present(cs, c)

(* An index id is sealed once. *)
SealedOnce(is) == \A o, p \in is : o.id = p.id => o = p

Inv ==
    /\ TypeOK
    /\ \A r \in Runs : RunOK(r, run[r], chunkObjects, indexObjects, manifestObjects)
    /\ \A s \in commits : CompleteIn(s, chunkObjects, indexObjects, manifestObjects)
    /\ SealedOnce(indexObjects)

-----------------------------------------------------------------------------
(* Lemmas: growing object sets, and one step of one run *)

(* An object that is present stays present: the store only grows. *)
LEMMA PresentGrows ==
    ASSUME NEW A, NEW B, A \subseteq B, NEW id, Present(A, id)
    PROVE  Present(B, id)
  BY DEF Present

(* What holds of a run holds of it in every larger store. *)
LEMMA RunOKGrows ==
    ASSUME NEW r, NEW u, NEW cs, NEW is, NEW ms, NEW cs2, NEW is2, NEW ms2,
           cs \subseteq cs2, is \subseteq is2, ms \subseteq ms2,
           RunOK(r, u, cs, is, ms)
    PROVE  RunOK(r, u, cs2, is2, ms2)
  <1>1. IndexOK(u, cs2)
    BY PresentGrows DEF RunOK, IndexOK
  <1>2. BodyOK(r, u, is2, ms2)
    BY PresentGrows DEF RunOK, BodyOK
  <1> QED BY <1>1, <1>2 DEF RunOK

(* A complete snapshot is complete in every larger store. *)
LEMMA CompleteGrows ==
    ASSUME NEW s, NEW cs, NEW is, NEW ms, NEW cs2, NEW is2, NEW ms2,
           cs \subseteq cs2, is \subseteq is2, ms \subseteq ms2,
           CompleteIn(s, cs, is, ms)
    PROVE  CompleteIn(s, cs2, is2, ms2)
  BY PresentGrows DEF CompleteIn

(* put_if_absent keeps what is there and leaves an object under the id. *)
LEMMA PutProperties ==
    ASSUME NEW A, NEW o
    PROVE  /\ A \subseteq Put(A, o)
           /\ Put(A, o) \subseteq A \cup {o}
           /\ Present(Put(A, o), o.id)
           /\ ~Conflict(A, o) => o \in Put(A, o)
           /\ SealedOnce(A) => SealedOnce(Put(A, o))
  BY DEF Put, Present, Conflict, SealedOnce

(* The invariant survives a step in which only run r changes its state. *)
LEMMA OneRunSteps ==
    ASSUME Inv, NEW r \in Runs, NEW v \in RunState, Become(r, v),
           source' \in [Files -> Contents \cup {NoFile}],
           now' \in 0..MaxTime,
           overlapped' \subseteq Runs,
           chunkObjects \subseteq chunkObjects', chunkObjects' \subseteq Sealed(Chunks),
           indexObjects \subseteq indexObjects', indexObjects' \subseteq Sealed(Index),
           manifestObjects \subseteq manifestObjects', manifestObjects' \subseteq Sealed(Body),
           commits' \subseteq Body,
           RunOK(r, v, chunkObjects', indexObjects', manifestObjects'),
           \A s \in commits' \ commits :
               CompleteIn(s, chunkObjects', indexObjects', manifestObjects'),
           SealedOnce(indexObjects')
    PROVE  Inv'
  <1>1. run' \in [Runs -> RunState] /\ run'[r] = v /\ \A q \in Runs : q # r => run'[q] = run[q]
    BY DEF Inv, TypeOK, Become
  <1>2. TypeOK'
    BY <1>1 DEF TypeOK
  <1>3. \A q \in Runs : RunOK(q, run'[q], chunkObjects', indexObjects', manifestObjects')
    <2> TAKE q \in Runs
    <2>1. CASE q = r
      BY <2>1, <1>1
    <2>2. CASE q # r
      BY <2>2, <1>1, RunOKGrows DEF Inv
    <2> QED BY <2>1, <2>2
  <1>4. \A s \in commits' : CompleteIn(s, chunkObjects', indexObjects', manifestObjects')
    BY CompleteGrows DEF Inv
  <1> QED BY <1>2, <1>3, <1>4 DEF Inv

(* The state of a run before it starts is well typed. *)
LEMMA IdleType == Idle \in RunState
  <1>1. [f \in Files |-> NoFile] \in Entries
    BY DEF Entries
  <1>2. [f \in Files |-> NoFile] \in [Files -> Nat \cup {NoFile}]
    OBVIOUS
  <1>3. <<>> \in Seq(Chunks)
    OBVIOUS
  <1>4. {} \in Index
    BY DEF Index
  <1> QED BY <1>1, <1>2, <1>3, <1>4 DEF Idle, RunState, RunPc

(* A run that has ended without a snapshot owes nothing to the store. *)
LEMMA EndedOK ==
    ASSUME NEW r, NEW pc \in Terminal \ {"done"}, NEW cs, NEW is, NEW ms
    PROVE  Ended(pc) \in RunState /\ RunOK(r, Ended(pc), cs, is, ms)
  <1>1. Ended(pc) = [Idle EXCEPT !.pc = pc]
    BY DEF Ended
  <1>2. Ended(pc) \in RunState
    BY <1>1, IdleType DEF RunState, RunPc, Terminal
  <1>3. /\ Ended(pc).pc = pc
        /\ Ended(pc).queue = <<>>
        /\ Ended(pc).index = {}
        /\ Ended(pc).entries = [f \in Files |-> NoFile]
    BY <1>1 DEF Idle
  <1>4. WalkedOK(Ended(pc)) /\ QueueOK(Ended(pc)) /\ IndexOK(Ended(pc), cs)
    BY <1>3 DEF WalkedOK, QueueOK, IndexOK, Has, Terminal
  <1>5. EntriesOK(Ended(pc)) /\ BodyOK(r, Ended(pc), is, ms)
    BY <1>3 DEF EntriesOK, BodyOK, Terminal
  <1> QED BY <1>2, <1>4, <1>5 DEF RunOK

-----------------------------------------------------------------------------
(* The invariant holds initially *)

(* The invariant holds of the empty repository. *)
LEMMA InitInv == Init => Inv
  <1> SUFFICES ASSUME Init PROVE Inv
    OBVIOUS
  <1>1. TypeOK
    BY IdleType, BackupAssumption DEF Init, TypeOK
  <1>2. ASSUME NEW r \in Runs
        PROVE  RunOK(r, run[r], chunkObjects, indexObjects, manifestObjects)
    <2>1. run[r] = Idle
      BY DEF Init
    <2>2. /\ Idle.pc = "idle"
          /\ Idle.queue = <<>>
          /\ Idle.index = {}
          /\ Idle.entries = [f \in Files |-> NoFile]
      BY DEF Idle
    <2>3. WalkedOK(Idle) /\ QueueOK(Idle) /\ IndexOK(Idle, chunkObjects)
      BY <2>2 DEF WalkedOK, QueueOK, IndexOK, Has
    <2>4. EntriesOK(Idle) /\ BodyOK(r, Idle, indexObjects, manifestObjects)
      BY <2>2 DEF EntriesOK, BodyOK
    <2> QED BY <2>1, <2>3, <2>4 DEF RunOK
  <1>3. \A s \in commits : CompleteIn(s, chunkObjects, indexObjects, manifestObjects)
    BY DEF Init
  <1>4. SealedOnce(indexObjects)
    BY DEF Init, SealedOnce
  <1> QED BY <1>1, <1>2, <1>3, <1>4 DEF Inv

-----------------------------------------------------------------------------
(* The steps of a run that leave the store alone *)

(* ferry backup starts: nothing is captured or written yet. *)
LEMMA StartInv ==
    ASSUME Inv, NEW r \in Runs, Start(r)
    PROVE  Inv'
  <1> DEFINE v == [run[r] EXCEPT !.pc = "walk", !.todo = Files]
  <1>1. Become(r, v) /\ UNCHANGED <<source, now, store>> /\ run[r].pc = "idle"
        /\ overlapped' \subseteq Runs
    BY DEF Start, At, Inv, TypeOK
  <1>2. run[r] \in RunState
    BY DEF Inv, TypeOK
  <1>3. v \in RunState
    BY <1>2 DEF RunState, RunPc
  <1>4. RunOK(r, v, chunkObjects, indexObjects, manifestObjects)
    BY <1>1, <1>2 DEF Inv, RunOK, WalkedOK, QueueOK, IndexOK, EntriesOK, BodyOK, RunState
  <1> QED BY <1>1, <1>3, <1>4, OneRunSteps DEF Inv, TypeOK, store

(* walk_root captures the metadata of one more entry. *)
LEMMA WalkEntryInv ==
    ASSUME Inv, NEW r \in Runs, NEW f \in Files, WalkEntry(r, f)
    PROVE  Inv'
  <1> DEFINE size == IF source[f] = NoFile THEN NoFile ELSE Len(source[f])
             v == [run[r] EXCEPT !.todo = @ \ {f}, !.walked[f] = size]
  <1>1. Become(r, v) /\ UNCHANGED <<source, now, overlapped, store>> /\ run[r].pc = "walk"
    BY DEF WalkEntry, At
  <1>2. run[r] \in RunState
    BY DEF Inv, TypeOK
  <1>3. size \in Nat \cup {NoFile}
    BY BackupAssumption DEF Inv, TypeOK
  <1>4. v \in RunState
    BY <1>2, <1>3 DEF RunState
  <1>5. RunOK(r, v, chunkObjects, indexObjects, manifestObjects)
    BY <1>1, <1>2 DEF Inv, RunOK, WalkedOK, QueueOK, IndexOK, EntriesOK, BodyOK, RunState
  <1> QED BY <1>1, <1>4, <1>5, OneRunSteps DEF Inv, TypeOK, store

(* write_snapshot goes on from the walk to the files it found. *)
LEMMA WalkDoneInv ==
    ASSUME Inv, NEW r \in Runs, WalkDone(r)
    PROVE  Inv'
  <1> DEFINE found == {f \in Files : run[r].walked[f] # NoFile}
             v == [run[r] EXCEPT !.pc = "read", !.todo = found]
  <1>1. Become(r, v) /\ UNCHANGED <<source, now, overlapped, store>> /\ run[r].pc = "walk"
    BY DEF WalkDone, At
  <1>2. run[r] \in RunState
    BY DEF Inv, TypeOK
  <1>3. v \in RunState
    BY <1>2 DEF RunState, RunPc
  <1>4. \A f \in found : run[r].walked[f] \in Nat
    BY <1>2 DEF RunState
  <1>5. RunOK(r, v, chunkObjects, indexObjects, manifestObjects)
    BY <1>1, <1>2, <1>4 DEF Inv, RunOK, WalkedOK, QueueOK, IndexOK, EntriesOK, BodyOK, RunState
  <1> QED BY <1>1, <1>3, <1>5, OneRunSteps DEF Inv, TypeOK, store

(* A run that ends with an error or a crash. *)
LEMMA EndInv ==
    ASSUME Inv, NEW r \in Runs, NEW pc \in Terminal \ {"done"},
           Become(r, Ended(pc)), UNCHANGED <<source, now, overlapped, store>>
    PROVE  Inv'
  <1>1. Ended(pc) \in RunState
        /\ RunOK(r, Ended(pc), chunkObjects, indexObjects, manifestObjects)
    BY EndedOK
  <1> QED BY <1>1, OneRunSteps DEF Inv, TypeOK, store

(* A run fails or is interrupted; what it has written stays. *)
LEMMA StopInv ==
    ASSUME Inv, NEW r \in Runs, Stop(r)
    PROVE  Inv'
  BY EndInv DEF Stop, Terminal

(* A file is read and chunked; its entry refers to the chunks queued. *)
LEMMA ReadFileInv ==
    ASSUME Inv, NEW r \in Runs, NEW f \in Files, ReadFile(r, f)
    PROVE  Inv'
  <1>1. CASE source[f] = NoFile
    BY <1>1, EndInv DEF ReadFile, Terminal
  <1>2. CASE source[f] # NoFile
    <2> DEFINE entry == [size |-> run[r].walked[f], chunks |-> source[f]]
               v == [run[r] EXCEPT
                       !.pc = IF source[f] = <<>> THEN "read" ELSE "exists",
                       !.todo = @ \ {f},
                       !.queue = source[f],
                       !.entries[f] = entry]
    <2>1. Become(r, v) /\ UNCHANGED <<source, now, overlapped, store>> /\ run[r].pc = "read"
          /\ f \in run[r].todo
      BY <1>2 DEF ReadFile, At, First
    <2>2. run[r] \in RunState
          /\ RunOK(r, run[r], chunkObjects, indexObjects, manifestObjects)
      BY DEF Inv, TypeOK
    <2>3. source[f] \in Seq(Chunks) /\ run[r].walked[f] \in Nat
      BY <1>2, <2>1, <2>2, BackupAssumption DEF Inv, TypeOK, RunOK, WalkedOK
    <2>4. v \in RunState
      BY <2>2, <2>3 DEF RunState, RunPc, Entries
    <2>5. WalkedOK(v) /\ QueueOK(v) /\ IndexOK(v, chunkObjects)
      BY <2>1, <2>2 DEF RunOK, WalkedOK, QueueOK, IndexOK, RunState
    <2>6. EntriesOK(v)
      BY <2>1, <2>2, <2>3 DEF RunOK, EntriesOK, QueueOK, RunState, Entries, In
    <2>7. BodyOK(r, v, indexObjects, manifestObjects)
      BY <2>1, <2>2 DEF BodyOK, RunState
    <2>8. RunOK(r, v, chunkObjects, indexObjects, manifestObjects)
      BY <2>5, <2>6, <2>7 DEF RunOK
    <2> QED BY <2>1, <2>4, <2>8, OneRunSteps DEF Inv, TypeOK, store
  <1> QED BY <1>1, <1>2

(* No file is left: every chunk referred to is indexed and stored. *)
LEMMA AllReadInv ==
    ASSUME Inv, NEW r \in Runs, AllRead(r)
    PROVE  Inv'
  <1> DEFINE v == [run[r] EXCEPT !.pc = "index"]
  <1>1. Become(r, v) /\ UNCHANGED <<source, now, overlapped, store>> /\ run[r].pc = "read"
    BY DEF AllRead, At
  <1>2. run[r] \in RunState
    BY DEF Inv, TypeOK
  <1>3. v \in RunState
    BY <1>2 DEF RunState, RunPc
  <1>4. RunOK(r, v, chunkObjects, indexObjects, manifestObjects)
    BY <1>1, <1>2 DEF Inv, RunOK, WalkedOK, QueueOK, IndexOK, EntriesOK, BodyOK, RunState
  <1> QED BY <1>1, <1>3, <1>4, OneRunSteps DEF Inv, TypeOK, store

-----------------------------------------------------------------------------
(* Chunks *)

(* What is left of a queue when its head has been dealt with. *)
LEMMA QueuePops ==
    ASSUME NEW q \in Seq(Chunks), q # <<>>
    PROVE  /\ Head(q) \in Chunks
           /\ Tail(q) \in Seq(Chunks)
           /\ \A c : In(q, c) => c = Head(q) \/ In(Tail(q), c)
  <1>1. Head(q) \in Chunks /\ Tail(q) \in Seq(Chunks)
    OBVIOUS
  <1>2. ASSUME NEW c, In(q, c)
        PROVE  c = Head(q) \/ In(Tail(q), c)
    <2>1. PICK i \in DOMAIN q : q[i] = c
      BY <1>2 DEF In
    <2>2. CASE i = 1
      BY <2>1, <2>2
    <2>3. CASE i # 1
      <3>1. i \in 2..Len(q)
        BY <2>1, <2>3
      <3>2. i - 1 \in DOMAIN Tail(q) /\ Tail(q)[i - 1] = q[i]
        BY <3>1
      <3> QED BY <2>1, <3>2 DEF In
    <2> QED BY <2>2, <2>3
  <1> QED BY <1>1, <1>2

(* Indexing a chunk adds that chunk and no other. *)
LEMMA IndexedHas ==
    ASSUME NEW index, NEW h, NEW len, NEW c
    PROVE  Has(Indexed(index, h, len), c) <=> Has(index, c) \/ c = h
  <1>1. CASE Has(index, h)
    BY <1>1 DEF Has, Indexed
  <1>2. CASE ~Has(index, h)
    <2>1. Indexed(index, h, len) = index \cup {[chunk |-> h, stored_length |-> len]}
      BY <1>2 DEF Has, Indexed
    <2> DEFINE new == [chunk |-> h, stored_length |-> len]
    <2>2. new.chunk = h
      OBVIOUS
    <2>3. Has(index \cup {new}, c) <=> Has(index, c) \/ new.chunk = c
      <3> HIDE DEF new
      <3> QED BY DEF Has
    <2> QED BY <2>1, <2>2, <2>3
  <1> QED BY <1>1, <1>2

(* The head of the queue is stored when its chunk's turn is over. *)
LEMMA ChunkDoneInv ==
    ASSUME Inv, NEW r \in Runs, run[r].pc \in {"exists", "put"}, ChunkDone(r),
           chunkObjects \subseteq chunkObjects', chunkObjects' \subseteq Sealed(Chunks),
           Present(chunkObjects', Head(run[r].queue)),
           UNCHANGED <<source, now, overlapped, indexObjects, manifestObjects, commits>>
    PROVE  Inv'
  <1> PICK len \in StoredLengths :
        Become(r, [run[r] EXCEPT
                     !.pc = IF Tail(run[r].queue) = <<>> THEN "read" ELSE "exists",
                     !.queue = Tail(@),
                     !.index = Indexed(@, Head(run[r].queue), len)])
    BY DEF ChunkDone
  <1> DEFINE h == Head(run[r].queue)
             index == Indexed(run[r].index, h, len)
             v == [run[r] EXCEPT
                     !.pc = IF Tail(run[r].queue) = <<>> THEN "read" ELSE "exists",
                     !.queue = Tail(@),
                     !.index = index]
  <1>1. run[r] \in RunState /\ RunOK(r, run[r], chunkObjects, indexObjects, manifestObjects)
    BY DEF Inv, TypeOK
  <1>2. run[r].queue \in Seq(Chunks) /\ run[r].queue # <<>>
    BY <1>1 DEF RunState, RunOK, QueueOK
  <1>3. h \in Chunks /\ Tail(run[r].queue) \in Seq(Chunks)
    BY <1>2, QueuePops
  <1>4. index \in Index
    BY <1>1, <1>3 DEF RunState, Index, IndexEntry, Indexed
  <1>5. \A c : Has(index, c) <=> Has(run[r].index, c) \/ c = h
    BY IndexedHas
  <1>6. v \in RunState
    BY <1>1, <1>3, <1>4 DEF RunState, RunPc
  <1>7. /\ v.pc \in {"read", "exists"}
        /\ v.pc = "read" <=> v.queue = <<>>
        /\ v.queue = Tail(run[r].queue)
        /\ v.index = index
        /\ v.entries = run[r].entries
        /\ v.todo = run[r].todo
        /\ v.walked = run[r].walked
    BY <1>1 DEF RunState
  <1>8. WalkedOK(v) /\ QueueOK(v)
    BY <1>1, <1>7 DEF RunOK, WalkedOK, QueueOK
  <1>9. IndexOK(v, chunkObjects')
    BY <1>1, <1>5, <1>7, PresentGrows DEF RunOK, IndexOK
  <1>10. EntriesOK(v)
    BY <1>1, <1>2, <1>5, <1>7, QueuePops DEF RunOK, EntriesOK
  <1>11. BodyOK(r, v, indexObjects', manifestObjects')
    BY <1>7 DEF BodyOK
  <1>12. RunOK(r, v, chunkObjects', indexObjects', manifestObjects')
    BY <1>8, <1>9, <1>10, <1>11 DEF RunOK
  <1> QED BY <1>6, <1>12, OneRunSteps DEF Inv, TypeOK

(* A chunk that is found is counted as stored, one that is not is put next. *)
LEMMA ChunkExistsInv ==
    ASSUME Inv, NEW r \in Runs, ChunkExists(r)
    PROVE  Inv'
  <1>1. run[r].pc = "exists" /\ UNCHANGED <<source, now, overlapped, store>>
    BY DEF ChunkExists, At
  <1>2. CASE Present(chunkObjects, Head(run[r].queue))
    BY <1>1, <1>2, ChunkDoneInv DEF ChunkExists, store, Inv, TypeOK
  <1>3. CASE ~Present(chunkObjects, Head(run[r].queue))
    <2> DEFINE v == [run[r] EXCEPT !.pc = "put"]
    <2>1. Become(r, v)
      BY <1>3 DEF ChunkExists
    <2>2. run[r] \in RunState
      BY DEF Inv, TypeOK
    <2>3. v \in RunState
      BY <2>2 DEF RunState, RunPc
    <2>4. RunOK(r, v, chunkObjects, indexObjects, manifestObjects)
      BY <1>1, <2>2 DEF Inv, RunOK, WalkedOK, QueueOK, IndexOK, EntriesOK, BodyOK, RunState
    <2> QED BY <1>1, <2>1, <2>3, <2>4, OneRunSteps DEF Inv, TypeOK, store
  <1> QED BY <1>2, <1>3

(* A chunk is created, or the run ends with a conflict. *)
LEMMA PutChunkInv ==
    ASSUME Inv, NEW r \in Runs, PutChunk(r)
    PROVE  Inv'
  <1> DEFINE o == Seal(Head(run[r].queue), r)
  <1>1. run[r].pc = "put" /\ chunkObjects' = Put(chunkObjects, o)
        /\ UNCHANGED <<source, now, overlapped, indexObjects, manifestObjects, commits>>
    BY DEF PutChunk, At
  <1>2. Head(run[r].queue) \in Chunks
    BY <1>1, QueuePops DEF Inv, TypeOK, RunState, RunOK, QueueOK
  <1>3. o \in Sealed(Chunks) /\ o.id = Head(run[r].queue)
    BY <1>2 DEF Seal, Sealed
  <1>4. chunkObjects \subseteq chunkObjects' /\ chunkObjects' \subseteq Sealed(Chunks)
        /\ Present(chunkObjects', Head(run[r].queue))
    BY <1>1, <1>3, PutProperties DEF Inv, TypeOK
  <1>5. CASE Conflict(chunkObjects, o)
    <2>1. Become(r, Ended("chunk_conflict"))
      BY <1>5 DEF PutChunk
    <2>2. chunkObjects' = chunkObjects
      BY <1>1, <1>5 DEF Put, Conflict
    <2> QED BY <1>1, <2>1, <2>2, EndInv DEF Terminal, store
  <1>6. CASE ~Conflict(chunkObjects, o)
    <2>1. ChunkDone(r)
      BY <1>6 DEF PutChunk
    <2> QED BY <1>1, <1>4, <2>1, ChunkDoneInv
  <1> QED BY <1>5, <1>6

-----------------------------------------------------------------------------
(* Index, manifest and commit marker *)

(* The index is sealed by its own run, or the run ends with a conflict. *)
LEMMA WriteIndexInv ==
    ASSUME Inv, NEW r \in Runs, WriteIndex(r)
    PROVE  Inv'
  <1> DEFINE o == Seal(run[r].index, r)
             body == [created_at |-> now, entries |-> run[r].entries,
                      index_id |-> run[r].index]
             v == [run[r] EXCEPT !.pc = "manifest", !.body = body]
  <1>1. run[r].pc = "index" /\ indexObjects' = Put(indexObjects, o)
        /\ UNCHANGED <<source, now, overlapped, chunkObjects, manifestObjects, commits>>
    BY DEF WriteIndex, At
  <1>2. run[r] \in RunState /\ RunOK(r, run[r], chunkObjects, indexObjects, manifestObjects)
    BY DEF Inv, TypeOK
  <1>3. o \in Sealed(Index) /\ o.id = run[r].index
    BY <1>2 DEF Seal, Sealed, RunState
  <1>4. indexObjects \subseteq indexObjects' /\ indexObjects' \subseteq Sealed(Index)
        /\ SealedOnce(indexObjects')
    BY <1>1, <1>3, PutProperties DEF Inv, TypeOK
  <1>5. CASE Conflict(indexObjects, o)
    <2>1. Become(r, Ended("index_conflict"))
      BY <1>5 DEF WriteIndex
    <2>2. indexObjects' = indexObjects
      BY <1>1, <1>5 DEF Put, Conflict
    <2> QED BY <1>1, <2>1, <2>2, EndInv DEF Terminal, store
  <1>6. CASE ~Conflict(indexObjects, o)
    <2>1. Become(r, v)
      BY <1>6 DEF WriteIndex
    <2>2. o \in indexObjects'
      BY <1>1, <1>6, PutProperties
    <2>3. body \in Body
      BY <1>2 DEF Inv, TypeOK, Body, RunState
    <2>4. v \in RunState
      BY <1>2, <2>3 DEF RunState, RunPc
    <2>5. /\ v.pc = "manifest"
          /\ v.body = body
          /\ v.queue = run[r].queue
          /\ v.index = run[r].index
          /\ v.entries = run[r].entries
      BY <1>2 DEF RunState
    <2>6. WalkedOK(v) /\ QueueOK(v) /\ IndexOK(v, chunkObjects) /\ EntriesOK(v)
      BY <1>1, <1>2, <2>5 DEF RunOK, WalkedOK, QueueOK, IndexOK, EntriesOK
    <2>7. BodyOK(r, v, indexObjects', manifestObjects)
      BY <2>2, <2>3, <2>5 DEF BodyOK
    <2>8. RunOK(r, v, chunkObjects', indexObjects', manifestObjects')
      BY <1>1, <2>6, <2>7 DEF RunOK
    <2> QED BY <1>1, <1>4, <2>1, <2>4, <2>8, OneRunSteps DEF Inv, TypeOK
  <1> QED BY <1>5, <1>6

(* The manifest is written once its index and chunks are there. *)
LEMMA WriteManifestInv ==
    ASSUME Inv, NEW r \in Runs, WriteManifest(r)
    PROVE  Inv'
  <1> DEFINE o == Seal(run[r].body, r)
             v == [run[r] EXCEPT !.pc = "commit"]
  <1>1. run[r].pc = "manifest" /\ manifestObjects' = Put(manifestObjects, o)
        /\ UNCHANGED <<source, now, overlapped, chunkObjects, indexObjects, commits>>
    BY DEF WriteManifest, At
  <1>2. run[r] \in RunState /\ RunOK(r, run[r], chunkObjects, indexObjects, manifestObjects)
    BY DEF Inv, TypeOK
  <1>3. o \in Sealed(Body) /\ o.id = run[r].body
    BY <1>1, <1>2 DEF Seal, Sealed, RunOK, BodyOK
  <1>4. manifestObjects \subseteq manifestObjects' /\ manifestObjects' \subseteq Sealed(Body)
        /\ Present(manifestObjects', run[r].body)
    BY <1>1, <1>3, PutProperties DEF Inv, TypeOK
  <1>5. CASE Conflict(manifestObjects, o)
    <2>1. Become(r, Ended("manifest_conflict"))
      BY <1>5 DEF WriteManifest
    <2>2. manifestObjects' = manifestObjects
      BY <1>1, <1>5 DEF Put, Conflict
    <2> QED BY <1>1, <2>1, <2>2, EndInv DEF Terminal, store
  <1>6. CASE ~Conflict(manifestObjects, o)
    <2>1. Become(r, v)
      BY <1>6 DEF WriteManifest
    <2>2. v \in RunState
      BY <1>2 DEF RunState, RunPc
    <2>3. /\ v.pc = "commit"
          /\ v.body = run[r].body
          /\ v.queue = run[r].queue
          /\ v.index = run[r].index
          /\ v.entries = run[r].entries
      BY <1>2 DEF RunState
    <2>4. WalkedOK(v) /\ QueueOK(v) /\ IndexOK(v, chunkObjects) /\ EntriesOK(v)
      BY <1>1, <1>2, <2>3 DEF RunOK, WalkedOK, QueueOK, IndexOK, EntriesOK
    <2>5. BodyOK(r, v, indexObjects, manifestObjects')
      BY <1>1, <1>2, <1>4, <2>3 DEF RunOK, BodyOK
    <2>6. RunOK(r, v, chunkObjects', indexObjects', manifestObjects')
      BY <1>1, <2>4, <2>5 DEF RunOK
    <2> QED BY <1>1, <1>4, <2>1, <2>2, <2>6, OneRunSteps DEF Inv, TypeOK
  <1> QED BY <1>5, <1>6

(* What a run that is about to commit has written is a complete snapshot. *)
LEMMA CommitComplete ==
    ASSUME NEW r \in Runs, NEW u \in RunState, NEW cs, NEW is, NEW ms,
           RunOK(r, u, cs, is, ms), u.pc = "commit"
    PROVE  CompleteIn(u.body, cs, is, ms)
  <1>1. /\ u.body.entries = u.entries
        /\ u.body.index_id = u.index
        /\ Seal(u.index, r) \in is
        /\ Present(ms, u.body)
        /\ u.queue = <<>>
    BY DEF RunOK, BodyOK, QueueOK
  <1>2. Present(is, u.index)
    BY <1>1 DEF Present, Seal
  <1>3. \A c : ~In(u.queue, c)
    BY <1>1 DEF In
  <1>4. ASSUME NEW c \in Chunks, Referenced(u.body, c)
        PROVE  Has(u.index, c) /\ Present(cs, c)
    <2>1. Has(u.index, c)
      BY <1>1, <1>3, <1>4 DEF Referenced, RunOK, EntriesOK, In
    <2> QED BY <2>1 DEF RunOK, IndexOK
  <1> QED BY <1>1, <1>2, <1>4 DEF CompleteIn

(* The marker is written for a complete snapshot. *)
LEMMA WriteCommitInv ==
    ASSUME Inv, NEW r \in Runs, WriteCommit(r)
    PROVE  Inv'
  <1> DEFINE v == [run[r] EXCEPT !.pc = "done"]
  <1>1. Become(r, v) /\ run[r].pc = "commit" /\ commits' = commits \cup {run[r].body}
        /\ UNCHANGED <<source, now, overlapped, chunkObjects, indexObjects, manifestObjects>>
    BY DEF WriteCommit, At
  <1>2. run[r] \in RunState /\ RunOK(r, run[r], chunkObjects, indexObjects, manifestObjects)
    BY DEF Inv, TypeOK
  <1>3. v \in RunState
    BY <1>2 DEF RunState, RunPc
  <1>4. RunOK(r, v, chunkObjects, indexObjects, manifestObjects)
    BY <1>1, <1>2 DEF RunOK, WalkedOK, QueueOK, IndexOK, EntriesOK, BodyOK, RunState
  <1>5. CompleteIn(run[r].body, chunkObjects, indexObjects, manifestObjects)
    BY <1>1, <1>2, CommitComplete
  <1>6. run[r].body \in Body
    BY <1>1, <1>2 DEF RunOK, BodyOK
  <1> QED BY <1>1, <1>3, <1>4, <1>5, <1>6, OneRunSteps DEF Inv, TypeOK

-----------------------------------------------------------------------------
(* Every step *)

(* Every step keeps the invariant: one case per action. *)
LEMMA NextInv == Inv /\ [Next]_vars => Inv'
  <1> SUFFICES ASSUME Inv, [Next]_vars PROVE Inv'
    OBVIOUS
  <1>1. ASSUME NEW f \in Files, NEW c \in Contents \cup {NoFile}, ChangeFile(f, c)
        PROVE  Inv'
    BY <1>1 DEF Inv, TypeOK, ChangeFile, store
  <1>2. CASE Tick
    <2>1. now' \in 0..MaxTime
      BY <1>2, BackupAssumption DEF Tick, Inv, TypeOK
    <2> QED BY <1>2, <2>1 DEF Inv, TypeOK, Tick, store
  <1>3. ASSUME NEW r \in Runs, Start(r) \/ Step(r) \/ Stop(r)
        PROVE  Inv'
    BY <1>3, StartInv, StopInv, WalkEntryInv, WalkDoneInv, ReadFileInv, ChunkExistsInv,
       PutChunkInv, AllReadInv, WriteIndexInv, WriteManifestInv, WriteCommitInv
       DEF Step
  <1>4. CASE UNCHANGED vars
    BY <1>4 DEF Inv, TypeOK, vars, store
  <1> QED BY <1>1, <1>2, <1>3, <1>4 DEF Next

(* The inductive invariant of write_snapshot holds in every reachable state. *)
THEOREM InvAlways == Spec => []Inv
  <1> QED BY InitInv, NextInv, PTL DEF Spec

(***************************************************************************)
(* The local state of every run and every object in the store is of its    *)
(* declared type; in particular nothing but a manifest body is committed.  *)
(***************************************************************************)
THEOREM TypeCorrect == Spec => []TypeOK
  <1>1. Inv => TypeOK
    BY DEF Inv
  <1> QED BY <1>1, InvAlways, PTL

(***************************************************************************)
(* A committed snapshot is complete, for every set of overlapping backup   *)
(* runs over any source tree, wherever runs are interrupted.               *)
(***************************************************************************)
THEOREM CommittedSnapshotsComplete == Spec => []CommittedComplete
  <1>1. Inv => CommittedComplete
    BY DEF Inv, CommittedComplete, Complete, CompleteIn, Has
  <1> QED BY <1>1, InvAlways, PTL

(***************************************************************************)
(* No two backups get to write the same snapshot: each has sealed an index *)
(* of its own, which the snapshot id covers.                               *)
(***************************************************************************)
THEOREM SnapshotsOfTheirOwn == Spec => []SnapshotIdsDistinct
  <1>1. Inv => SnapshotIdsDistinct
    <2> SUFFICES ASSUME Inv, NEW r \in Runs, NEW s \in Runs, r # s,
                        run[r].pc \in {"manifest", "commit", "done"},
                        run[s].pc \in {"manifest", "commit", "done"},
                        run[r].body = run[s].body
                 PROVE  FALSE
      BY DEF SnapshotIdsDistinct
    <2>1. /\ Seal(run[r].body.index_id, r) \in indexObjects
          /\ Seal(run[s].body.index_id, s) \in indexObjects
      BY DEF Inv, RunOK, BodyOK
    <2>2. Seal(run[r].body.index_id, r) = Seal(run[r].body.index_id, s)
      BY <2>1 DEF Inv, SealedOnce, Seal
    <2> QED BY <2>2 DEF Seal
  <1> QED BY <1>1, InvAlways, PTL

-----------------------------------------------------------------------------
(* Runs that are alone *)

(* Only a run that overlapped another can find a chunk it had not seen. *)
Alone ==
    /\ \A r, s \in Runs : r # s /\ Active(r) /\ Active(s) => r \in overlapped
    /\ \A r \in Runs \ overlapped :
          /\ At(r, "put") => ~Present(chunkObjects, Head(run[r].queue))
          /\ ~At(r, "chunk_conflict")

(* A step of an active run: any other active run has overlapped it. *)
LEMMA AloneStep ==
    ASSUME Inv, Alone, NEW r \in Runs, Active(r), NEW v, Become(r, v),
           overlapped' = overlapped,
           r \notin overlapped =>
               /\ v.pc = "put" => ~Present(chunkObjects', Head(v.queue))
               /\ v.pc # "chunk_conflict"
    PROVE  Alone'
  <1>1. run'[r] = v /\ \A q \in Runs : q # r => run'[q] = run[q]
    BY DEF Inv, TypeOK, Become
  <1>2. \A q \in Runs : q # r /\ Active(q)' => Active(q) /\ q \in overlapped /\ r \in overlapped
    BY <1>1 DEF Active, Alone
  <1>3. ASSUME NEW p \in Runs, NEW q \in Runs, p # q, Active(p)', Active(q)'
        PROVE  p \in overlapped'
    BY <1>2, <1>3
  <1>4. ASSUME NEW q \in Runs \ overlapped'
        PROVE  /\ At(q, "put")' => ~Present(chunkObjects', Head(run'[q].queue))
               /\ ~At(q, "chunk_conflict")'
    <2>1. CASE q = r
      BY <1>1, <1>4, <2>1 DEF At
    <2>2. CASE q # r
      BY <1>1, <1>2, <1>4, <2>2 DEF At, Active, Alone, Terminal
    <2> QED BY <2>1, <2>2
  <1> QED BY <1>3, <1>4 DEF Alone

(* A run that starts beside others overlaps them, and they it. *)
LEMMA AloneStart ==
    ASSUME Inv, Alone, NEW r \in Runs, Start(r)
    PROVE  Alone'
  <1> DEFINE v == [run[r] EXCEPT !.pc = "walk", !.todo = Files]
             others == {s \in Runs : Active(s)}
  <1>1. run'[r] = v /\ \A q \in Runs : q # r => run'[q] = run[q]
    BY DEF Inv, TypeOK, Start, Become
  <1>2. v.pc = "walk"
    BY DEF Inv, TypeOK, RunState
  <1>3. overlapped' = (IF others = {} THEN overlapped ELSE overlapped \cup others \cup {r})
        /\ chunkObjects' = chunkObjects
    BY DEF Start, store
  <1>4. ASSUME NEW p \in Runs, NEW q \in Runs, p # q, Active(p)', Active(q)'
        PROVE  p \in overlapped'
    <2>1. \A o \in Runs : o # r /\ Active(o)' => o \in others
      BY <1>1 DEF Active
    <2> QED BY <1>3, <1>4, <2>1
  <1>5. ASSUME NEW q \in Runs \ overlapped'
        PROVE  /\ At(q, "put")' => ~Present(chunkObjects', Head(run'[q].queue))
               /\ ~At(q, "chunk_conflict")'
    <2>1. CASE q = r
      BY <1>1, <1>2, <2>1 DEF At
    <2>2. CASE q # r
      BY <1>1, <1>3, <1>5, <2>2 DEF At, Alone
    <2> QED BY <2>1, <2>2
  <1> QED BY <1>4, <1>5 DEF Alone

(* ChunkDone leaves a run at its next chunk or its next file. *)
LEMMA ChunkDoneAlone ==
    ASSUME Inv, Alone, NEW r \in Runs, Active(r), ChunkDone(r), overlapped' = overlapped
    PROVE  Alone'
  <1>1. PICK len \in StoredLengths :
          Become(r, [run[r] EXCEPT
                       !.pc = IF Tail(run[r].queue) = <<>> THEN "read" ELSE "exists",
                       !.queue = Tail(@),
                       !.index = Indexed(@, Head(run[r].queue), len)])
    BY DEF ChunkDone
  <1> DEFINE v == [run[r] EXCEPT
                     !.pc = IF Tail(run[r].queue) = <<>> THEN "read" ELSE "exists",
                     !.queue = Tail(@),
                     !.index = Indexed(@, Head(run[r].queue), len)]
  <1>2. v.pc \in {"read", "exists"}
    BY DEF Inv, TypeOK, RunState
  <1> QED BY <1>1, <1>2, AloneStep

(* A step that takes a run to a place where it has no chunk in hand. *)
LEMMA ElsewhereAlone ==
    ASSUME Inv, Alone, NEW r \in Runs, Active(r), NEW v, Become(r, v),
           overlapped' = overlapped, v.pc \notin {"put", "chunk_conflict"}
    PROVE  Alone'
  BY AloneStep

(* exists was false a moment ago, and no other run is there to change that. *)
LEMMA ChunkStepsAlone ==
    ASSUME Inv, Alone, NEW r \in Runs, ChunkExists(r) \/ PutChunk(r)
    PROVE  Alone'
  <1>1. run[r].pc \in {"exists", "put"} /\ overlapped' = overlapped /\ Active(r)
    BY DEF ChunkExists, PutChunk, At, Active, Terminal
  <1>2. CASE ChunkDone(r)
    BY <1>1, <1>2, ChunkDoneAlone
  <1>3. CASE ChunkExists(r) /\ ~ChunkDone(r)
    <2> DEFINE v == [run[r] EXCEPT !.pc = "put"]
    <2>1. Become(r, v) /\ ~Present(chunkObjects, Head(run[r].queue))
          /\ chunkObjects' = chunkObjects
      BY <1>3 DEF ChunkExists, store
    <2>2. v.pc = "put" /\ v.queue = run[r].queue
      BY DEF Inv, TypeOK, RunState
    <2> QED BY <1>1, <2>1, <2>2, AloneStep
  <1>4. CASE PutChunk(r) /\ ~ChunkDone(r)
    <2> DEFINE o == Seal(Head(run[r].queue), r)
    <2>1. Become(r, Ended("chunk_conflict")) /\ Conflict(chunkObjects, o) /\ At(r, "put")
      BY <1>4 DEF PutChunk
    <2>2. o.id = Head(run[r].queue)
      BY DEF Seal
    <2>3. r \in overlapped
      BY <2>1, <2>2 DEF Alone, Conflict
    <2> QED BY <1>1, <2>1, <2>3, AloneStep
  <1> QED BY <1>2, <1>3, <1>4

(* The other steps of a run have no chunk in hand afterwards. *)
LEMMA OtherSteps ==
    ASSUME Inv, NEW r \in Runs,
           \/ \E f \in Files : WalkEntry(r, f) \/ ReadFile(r, f)
           \/ WalkDone(r) \/ AllRead(r) \/ WriteIndex(r) \/ WriteManifest(r)
           \/ WriteCommit(r) \/ Stop(r)
    PROVE  \E v : Become(r, v) /\ v.pc \notin {"idle", "put", "chunk_conflict"}
  <1>1. run[r] \in RunState
    BY DEF Inv, TypeOK
  <1>2. \A pc \in RunPc : Ended(pc).pc = pc
    BY DEF Ended, Idle
  <1>3. CASE Stop(r)
    BY <1>2, <1>3 DEF Stop, RunPc
  <1>4. ASSUME NEW f \in Files, WalkEntry(r, f)
        PROVE  \E v : Become(r, v) /\ v.pc \notin {"idle", "put", "chunk_conflict"}
    <2> DEFINE v == [run[r] EXCEPT
                       !.todo = @ \ {f},
                       !.walked[f] = IF source[f] = NoFile THEN NoFile ELSE Len(source[f])]
    <2>1. Become(r, v) /\ v.pc = "walk"
      BY <1>1, <1>4 DEF WalkEntry, At, RunState
    <2> QED BY <2>1
  <1>5. ASSUME NEW f \in Files, ReadFile(r, f)
        PROVE  \E v : Become(r, v) /\ v.pc \notin {"idle", "put", "chunk_conflict"}
    <2>1. CASE source[f] = NoFile
      BY <1>2, <1>5, <2>1 DEF ReadFile, RunPc
    <2>2. CASE source[f] # NoFile
      <3> DEFINE v == [run[r] EXCEPT
                         !.pc = IF source[f] = <<>> THEN "read" ELSE "exists",
                         !.todo = @ \ {f},
                         !.queue = source[f],
                         !.entries[f] = [size |-> run[r].walked[f], chunks |-> source[f]]]
      <3>1. Become(r, v) /\ v.pc \in {"read", "exists"}
        BY <1>1, <1>5, <2>2 DEF ReadFile, RunState
      <3> QED BY <3>1
    <2> QED BY <2>1, <2>2
  <1>6. CASE WalkDone(r)
    <2> DEFINE v == [run[r] EXCEPT !.pc = "read",
                                   !.todo = {f \in Files : run[r].walked[f] # NoFile}]
    <2>1. Become(r, v) /\ v.pc = "read"
      BY <1>1, <1>6 DEF WalkDone, RunState
    <2> QED BY <2>1
  <1>7. CASE AllRead(r)
    <2> DEFINE v == [run[r] EXCEPT !.pc = "index"]
    <2>1. Become(r, v) /\ v.pc = "index"
      BY <1>1, <1>7 DEF AllRead, RunState
    <2> QED BY <2>1
  <1>8. CASE WriteIndex(r)
    <2>1. CASE Conflict(indexObjects, Seal(run[r].index, r))
      BY <1>2, <1>8, <2>1 DEF WriteIndex, RunPc
    <2>2. CASE ~Conflict(indexObjects, Seal(run[r].index, r))
      <3> DEFINE v == [run[r] EXCEPT !.pc = "manifest",
                                     !.body = [created_at |-> now,
                                               entries    |-> run[r].entries,
                                               index_id   |-> run[r].index]]
      <3>1. Become(r, v) /\ v.pc = "manifest"
        BY <1>1, <1>8, <2>2 DEF WriteIndex, RunState
      <3> QED BY <3>1
    <2> QED BY <2>1, <2>2
  <1>9. CASE WriteManifest(r)
    <2>1. CASE Conflict(manifestObjects, Seal(run[r].body, r))
      BY <1>2, <1>9, <2>1 DEF WriteManifest, RunPc
    <2>2. CASE ~Conflict(manifestObjects, Seal(run[r].body, r))
      <3> DEFINE v == [run[r] EXCEPT !.pc = "commit"]
      <3>1. Become(r, v) /\ v.pc = "commit"
        BY <1>1, <1>9, <2>2 DEF WriteManifest, RunState
      <3> QED BY <3>1
    <2> QED BY <2>1, <2>2
  <1>10. CASE WriteCommit(r)
    <2> DEFINE v == [run[r] EXCEPT !.pc = "done"]
    <2>1. Become(r, v) /\ v.pc = "done"
      BY <1>1, <1>10 DEF WriteCommit, RunState
    <2> QED BY <2>1
  <1> QED BY <1>3, <1>4, <1>5, <1>6, <1>7, <1>8, <1>9, <1>10

LEMMA OtherStepsAlone ==
    ASSUME Inv, Alone, NEW r \in Runs,
           \/ \E f \in Files : WalkEntry(r, f) \/ ReadFile(r, f)
           \/ WalkDone(r) \/ AllRead(r) \/ WriteIndex(r) \/ WriteManifest(r)
           \/ WriteCommit(r) \/ Stop(r)
    PROVE  Alone'
  <1>1. overlapped' = overlapped /\ Active(r)
    BY DEF WalkEntry, ReadFile, WalkDone, AllRead, WriteIndex, WriteManifest, WriteCommit,
           Stop, At, Active, Terminal
  <1>2. PICK v : Become(r, v) /\ v.pc \notin {"idle", "put", "chunk_conflict"}
    BY OtherSteps
  <1> QED BY <1>1, <1>2, ElsewhereAlone

(***************************************************************************)
(* A backup that no other backup overlaps never fails on a chunk, whatever *)
(* earlier runs have left in the repository.                               *)
(***************************************************************************)
THEOREM AloneNeverConflicts == Spec => []SequentialChunksNeverConflict
  <1>1. Init => Alone
    BY DEF Init, Alone, Active, At, Idle
  <1>2. Inv /\ Alone /\ [Next]_vars => Alone'
    <2> SUFFICES ASSUME Inv, Alone, [Next]_vars PROVE Alone'
      OBVIOUS
    <2>1. CASE UNCHANGED <<overlapped, chunkObjects, run>>
      BY <2>1 DEF Alone, Active, At
    <2>2. ASSUME NEW r \in Runs, Start(r) PROVE Alone'
      BY <2>2, AloneStart
    <2>3. ASSUME NEW r \in Runs, Step(r) \/ Stop(r) PROVE Alone'
      BY <2>3, ChunkStepsAlone, OtherStepsAlone DEF Step
    <2> QED BY <2>1, <2>2, <2>3 DEF Next, vars, store, ChangeFile, Tick
  <1>3. Alone => SequentialChunksNeverConflict
    BY DEF Alone, SequentialChunksNeverConflict
  <1> QED BY <1>1, <1>2, <1>3, InvAlways, PTL DEF Spec

-----------------------------------------------------------------------------
(* Runs that race for the same chunks *)

(* A run that has not failed on a chunk and is not about to. *)
Surviving(u, cs) ==
    /\ u.pc \notin {"idle", "chunk_conflict"}
    /\ u.pc = "put" => ~Present(cs, Head(u.queue))

(* The run that stored a chunk last, or one that has done as well since. *)
Survivor ==
    /\ \A r \in Runs : At(r, "chunk_conflict") => chunkObjects # {}
    /\ chunkObjects # {} => \E s \in Runs : Surviving(run[s], chunkObjects)

(* A step of a run that stores nothing leaves a survivor, itself or another. *)
LEMMA SurvivorStep ==
    ASSUME Inv, Survivor, NEW r \in Runs, NEW v, Become(r, v), chunkObjects' = chunkObjects,
           Surviving(run[r], chunkObjects) => Surviving(v, chunkObjects),
           v.pc = "chunk_conflict" => chunkObjects # {}
    PROVE  Survivor'
  <1>1. run'[r] = v /\ \A q \in Runs : q # r => run'[q] = run[q]
    BY DEF Inv, TypeOK, Become
  <1>2. \A q \in Runs : Surviving(run[q], chunkObjects) => Surviving(run'[q], chunkObjects)
    BY <1>1
  <1>3. \A q \in Runs : At(q, "chunk_conflict")' => chunkObjects' # {}
    BY <1>1 DEF Survivor, At
  <1> QED BY <1>2, <1>3 DEF Survivor

(* exists and put of a chunk: who stores one has survived. *)
LEMMA SurvivorChunkSteps ==
    ASSUME Inv, Survivor, NEW r \in Runs, ChunkExists(r) \/ PutChunk(r)
    PROVE  Survivor'
  <1>1. run[r] \in RunState
    BY DEF Inv, TypeOK
  <1>2. ASSUME ChunkDone(r)
        PROVE  \E v : Become(r, v) /\ v.pc \in {"read", "exists"}
    <2>1. PICK len \in StoredLengths :
            Become(r, [run[r] EXCEPT
                         !.pc = IF Tail(run[r].queue) = <<>> THEN "read" ELSE "exists",
                         !.queue = Tail(@),
                         !.index = Indexed(@, Head(run[r].queue), len)])
      BY <1>2 DEF ChunkDone
    <2> DEFINE v == [run[r] EXCEPT
                       !.pc = IF Tail(run[r].queue) = <<>> THEN "read" ELSE "exists",
                       !.queue = Tail(@),
                       !.index = Indexed(@, Head(run[r].queue), len)]
    <2>2. v.pc \in {"read", "exists"}
      BY <1>1 DEF RunState
    <2> QED BY <2>1, <2>2
  <1>3. CASE ChunkExists(r)
    <2>1. chunkObjects' = chunkObjects
      BY <1>3 DEF ChunkExists, store
    <2>2. CASE Present(chunkObjects, Head(run[r].queue))
      <3>1. PICK v : Become(r, v) /\ v.pc \in {"read", "exists"}
        BY <1>2, <1>3, <2>2 DEF ChunkExists
      <3> QED BY <2>1, <3>1, SurvivorStep DEF Surviving
    <2>3. CASE ~Present(chunkObjects, Head(run[r].queue))
      <3> DEFINE v == [run[r] EXCEPT !.pc = "put"]
      <3>1. Become(r, v)
        BY <1>3, <2>3 DEF ChunkExists
      <3>2. v.pc = "put" /\ v.queue = run[r].queue
        BY <1>1 DEF RunState
      <3>3. Surviving(v, chunkObjects)
        BY <2>3, <3>2 DEF Surviving
      <3> QED BY <2>1, <3>1, <3>2, <3>3, SurvivorStep
    <2> QED BY <2>2, <2>3
  <1>4. CASE PutChunk(r)
    <2> DEFINE o == Seal(Head(run[r].queue), r)
    <2>1. At(r, "put") /\ chunkObjects' = Put(chunkObjects, o) /\ o.id = Head(run[r].queue)
      BY <1>4 DEF PutChunk, Seal
    <2>2. CASE Conflict(chunkObjects, o)
      <3>1. Become(r, Ended("chunk_conflict")) /\ Present(chunkObjects, Head(run[r].queue))
        BY <1>4, <2>1, <2>2 DEF PutChunk, Conflict
      <3>2. chunkObjects' = chunkObjects /\ chunkObjects # {}
        BY <2>1, <3>1 DEF Put, Present
      <3>3. ~Surviving(run[r], chunkObjects)
        BY <2>1, <3>1 DEF Surviving, At
      <3> QED BY <3>1, <3>2, <3>3, SurvivorStep
    <2>3. CASE ~Conflict(chunkObjects, o)
      <3>1. PICK v : Become(r, v) /\ v.pc \in {"read", "exists"}
        BY <1>2, <1>4, <2>3 DEF PutChunk
      <3>2. run'[r] = v /\ \A q \in Runs : q # r => run'[q] = run[q]
        BY <3>1 DEF Inv, TypeOK, Become
      <3>3. Surviving(run'[r], chunkObjects')
        BY <3>1, <3>2 DEF Surviving
      <3>4. \A q \in Runs : At(q, "chunk_conflict")' => chunkObjects' # {}
        BY <2>1, PutProperties DEF Present
      <3> QED BY <3>3, <3>4 DEF Survivor
    <2> QED BY <2>2, <2>3
  <1> QED BY <1>3, <1>4

(***************************************************************************)
(* However many backups race for the same chunks in whatever orders, not   *)
(* all of them fail on a chunk: the one that stored a chunk last has not.  *)
(***************************************************************************)
THEOREM RacesHaveSurvivors == Spec => []DedupRaceHasSurvivor
  <1>1. Init => Survivor
    BY DEF Init, Survivor, At, Idle
  <1>2. Inv /\ Survivor /\ [Next]_vars => Survivor'
    <2> SUFFICES ASSUME Inv, Survivor, [Next]_vars PROVE Survivor'
      OBVIOUS
    <2>1. CASE UNCHANGED <<chunkObjects, run>>
      BY <2>1 DEF Survivor, At
    <2>2. ASSUME NEW r \in Runs, Start(r) PROVE Survivor'
      <3> DEFINE v == [run[r] EXCEPT !.pc = "walk", !.todo = Files]
      <3>1. Become(r, v) /\ chunkObjects' = chunkObjects
        BY <2>2 DEF Start, store
      <3>2. v.pc = "walk"
        BY DEF Inv, TypeOK, RunState
      <3> QED BY <3>1, <3>2, SurvivorStep DEF Surviving
    <2>3. ASSUME NEW r \in Runs,
                 \/ \E f \in Files : WalkEntry(r, f) \/ ReadFile(r, f)
                 \/ WalkDone(r) \/ AllRead(r) \/ WriteIndex(r) \/ WriteManifest(r)
                 \/ WriteCommit(r) \/ Stop(r)
          PROVE  Survivor'
      <3>1. PICK v : Become(r, v) /\ v.pc \notin {"idle", "put", "chunk_conflict"}
        BY <2>3, OtherSteps
      <3>2. chunkObjects' = chunkObjects
        BY <2>3 DEF WalkEntry, ReadFile, WalkDone, AllRead, WriteIndex, WriteManifest,
                    WriteCommit, Stop, store
      <3> QED BY <3>1, <3>2, SurvivorStep DEF Surviving
    <2>4. ASSUME NEW r \in Runs, ChunkExists(r) \/ PutChunk(r) PROVE Survivor'
      BY <2>4, SurvivorChunkSteps
    <2> QED BY <2>1, <2>2, <2>3, <2>4 DEF Next, Step, vars, store, ChangeFile, Tick
  <1>3. Survivor => DedupRaceHasSurvivor
    BY DEF Survivor, DedupRaceHasSurvivor, Surviving
  <1> QED BY <1>1, <1>2, <1>3, InvAlways, PTL DEF Spec

-----------------------------------------------------------------------------
(* Backup implements Catalog *)

(* What a run has read of a file is what the file held at some time. *)
ReadOK(u) == \A f \in Files : u.entries[f] # NoFile => u.entries[f].chunks \in Contents

EntriesRead == \A r \in Runs : ReadOK(run[r])

(* Only reading a file changes the entries of a run, or its end. *)
LEMMA ReadStep ==
    ASSUME Inv, EntriesRead, NEW r \in Runs, NEW v, Become(r, v), ReadOK(v)
    PROVE  EntriesRead'
  <1>1. run'[r] = v /\ \A q \in Runs : q # r => run'[q] = run[q]
    BY DEF Inv, TypeOK, Become
  <1> QED BY <1>1 DEF EntriesRead

LEMMA ReadStays == Inv /\ EntriesRead /\ [Next]_vars => EntriesRead'
  <1> SUFFICES ASSUME Inv, EntriesRead, [Next]_vars PROVE EntriesRead'
    OBVIOUS
  <1>1. CASE run' = run
    BY <1>1 DEF EntriesRead
  <1>2. ASSUME NEW r \in Runs, NEW v, Become(r, v), v.entries = run[r].entries
        PROVE  EntriesRead'
    BY <1>2, ReadStep DEF EntriesRead, ReadOK
  <1>3. ASSUME NEW r \in Runs, NEW pc, Become(r, Ended(pc))
        PROVE  EntriesRead'
    <2>1. Ended(pc).entries = [f \in Files |-> NoFile]
      BY DEF Ended, Idle
    <2>2. ReadOK(Ended(pc))
      BY <2>1 DEF ReadOK
    <2> QED BY <1>3, <2>2, ReadStep
  <1>4. ASSUME NEW r \in Runs PROVE run[r] \in RunState
    BY DEF Inv, TypeOK
  <1>5. ASSUME NEW r \in Runs, Start(r) PROVE EntriesRead'
    <2> DEFINE v == [run[r] EXCEPT !.pc = "walk", !.todo = Files]
    <2>1. Become(r, v) /\ v.entries = run[r].entries
      BY <1>4, <1>5 DEF Start, RunState
    <2> QED BY <1>2, <2>1
  <1>6. ASSUME NEW r \in Runs, Stop(r) PROVE EntriesRead'
    BY <1>3, <1>6 DEF Stop
  <1>7. ASSUME NEW r \in Runs, NEW f \in Files, WalkEntry(r, f) PROVE EntriesRead'
    <2> DEFINE v == [run[r] EXCEPT
                       !.todo = @ \ {f},
                       !.walked[f] = IF source[f] = NoFile THEN NoFile ELSE Len(source[f])]
    <2>1. Become(r, v) /\ v.entries = run[r].entries
      BY <1>4, <1>7 DEF WalkEntry, RunState
    <2> QED BY <1>2, <2>1
  <1>8. ASSUME NEW r \in Runs, WalkDone(r) PROVE EntriesRead'
    <2> DEFINE v == [run[r] EXCEPT !.pc = "read",
                                   !.todo = {f \in Files : run[r].walked[f] # NoFile}]
    <2>1. Become(r, v) /\ v.entries = run[r].entries
      BY <1>4, <1>8 DEF WalkDone, RunState
    <2> QED BY <1>2, <2>1
  <1>9. ASSUME NEW r \in Runs, NEW f \in Files, ReadFile(r, f) PROVE EntriesRead'
    <2>1. CASE source[f] = NoFile
      BY <1>3, <1>9, <2>1 DEF ReadFile
    <2>2. CASE source[f] # NoFile
      <3> DEFINE entry == [size |-> run[r].walked[f], chunks |-> source[f]]
                 v == [run[r] EXCEPT
                         !.pc = IF source[f] = <<>> THEN "read" ELSE "exists",
                         !.todo = @ \ {f},
                         !.queue = source[f],
                         !.entries[f] = entry]
      <3>1. Become(r, v) /\ source[f] \in Contents
        BY <1>9, <2>2 DEF ReadFile, Inv, TypeOK
      <3>2. /\ v.entries[f].chunks = source[f]
            /\ \A g \in Files : g # f => v.entries[g] = run[r].entries[g]
        BY <1>4 DEF RunState, Entries
      <3>3. ReadOK(v)
        BY <3>1, <3>2 DEF ReadOK, EntriesRead
      <3> QED BY <3>1, <3>3, ReadStep
    <2> QED BY <2>1, <2>2
  <1>10. ASSUME NEW r \in Runs, ChunkDone(r) PROVE EntriesRead'
    <2>1. PICK len \in StoredLengths :
            Become(r, [run[r] EXCEPT
                         !.pc = IF Tail(run[r].queue) = <<>> THEN "read" ELSE "exists",
                         !.queue = Tail(@),
                         !.index = Indexed(@, Head(run[r].queue), len)])
      BY <1>10 DEF ChunkDone
    <2> DEFINE v == [run[r] EXCEPT
                       !.pc = IF Tail(run[r].queue) = <<>> THEN "read" ELSE "exists",
                       !.queue = Tail(@),
                       !.index = Indexed(@, Head(run[r].queue), len)]
    <2>2. v.entries = run[r].entries
      BY <1>4 DEF RunState
    <2> QED BY <1>2, <2>1, <2>2
  <1>11. ASSUME NEW r \in Runs, NEW pc, Become(r, [run[r] EXCEPT !.pc = pc]) PROVE EntriesRead'
    <2>1. [run[r] EXCEPT !.pc = pc].entries = run[r].entries
      BY <1>4 DEF RunState
    <2> QED BY <1>2, <1>11, <2>1
  <1>12. ASSUME NEW r \in Runs, WriteIndex(r) PROVE EntriesRead'
    <2>1. CASE Conflict(indexObjects, Seal(run[r].index, r))
      BY <1>3, <1>12, <2>1 DEF WriteIndex
    <2>2. CASE ~Conflict(indexObjects, Seal(run[r].index, r))
      <3> DEFINE v == [run[r] EXCEPT !.pc = "manifest",
                                     !.body = [created_at |-> now,
                                               entries    |-> run[r].entries,
                                               index_id   |-> run[r].index]]
      <3>1. Become(r, v) /\ v.entries = run[r].entries
        BY <1>4, <1>12, <2>2 DEF WriteIndex, RunState
      <3> QED BY <1>2, <3>1
    <2> QED BY <2>1, <2>2
  <1>13. ASSUME NEW r \in Runs, ChunkExists(r) \/ PutChunk(r) PROVE EntriesRead'
    BY <1>3, <1>10, <1>11, <1>13 DEF ChunkExists, PutChunk
  <1>14. ASSUME NEW r \in Runs, AllRead(r) \/ WriteManifest(r) \/ WriteCommit(r)
         PROVE  EntriesRead'
    <2>1. CASE AllRead(r)
      BY <1>11, <2>1 DEF AllRead
    <2>2. CASE WriteManifest(r)
      BY <1>3, <1>11, <2>2 DEF WriteManifest
    <2>3. CASE WriteCommit(r)
      BY <1>11, <2>3 DEF WriteCommit
    <2> QED BY <1>14, <2>1, <2>2, <2>3
  <1> QED BY <1>1, <1>5, <1>6, <1>7, <1>8, <1>9, <1>12, <1>13, <1>14
          DEF Next, Step, vars, ChangeFile, Tick

(* What a committed snapshot is to a reader. *)
Seen(s) ==
    [id |-> s,
     stored |-> [f \in Files |-> IF s.entries[f] = NoFile THEN NoFile ELSE s.entries[f].chunks]]

(* A committed snapshot has its contents, before a step and after it. *)
LEMMA ViewsAreSeen ==
    ASSUME Inv, Inv', [Next]_vars
    PROVE  /\ {View(s) : s \in commits} = {Seen(s) : s \in commits}
           /\ {View(s) : s \in commits}' = {Seen(s) : s \in commits'}
  <1>1. \A s \in commits : Complete(s)
    BY DEF Inv, Complete, CompleteIn, Has
  <1>2. \A s \in commits' : Complete(s)'
    BY DEF Inv, Complete, CompleteIn, Has, Referenced
  <1>3. \A s \in commits : View(s) = Seen(s)
    BY <1>1 DEF View, Seen
  <1>4. \A s \in commits' : View(s)' = Seen(s)
    BY <1>2 DEF View, Seen
  <1> QED BY <1>3, <1>4

(***************************************************************************)
(* Backup implements Catalog: the commit marker publishes a snapshot with  *)
(* all of its contents, each as its file held it at some time, and no      *)
(* other step of any run changes what a reader finds.                      *)
(***************************************************************************)
THEOREM BackupImplementsCatalog == Spec => ImplementsCatalog
  <1>1. Init => CatalogView!Init
    BY DEF Init, CatalogView!Init
  <1>2. Inv /\ Inv' /\ EntriesRead /\ [Next]_vars => [CatalogView!Next]_(CatalogView!vars)
    <2> SUFFICES ASSUME Inv, Inv', EntriesRead, [Next]_vars
                 PROVE  CatalogView!Next \/ UNCHANGED CatalogView!vars
      OBVIOUS
    <2>1. CASE commits' = commits
      BY <2>1, ViewsAreSeen DEF CatalogView!vars
    <2>2. ASSUME NEW r \in Runs, WriteCommit(r)
          PROVE  CatalogView!Next
      <3> DEFINE b == run[r].body
      <3>1. commits' = commits \cup {b} /\ run[r].pc = "commit"
        BY <2>2 DEF WriteCommit, At
      <3>2. b \in Body /\ b.entries = run[r].entries /\ run[r].entries \in Entries
        BY <3>1 DEF Inv, RunOK, BodyOK, TypeOK, RunState
      <3>3. [f \in Files |-> IF b.entries[f] = NoFile THEN NoFile ELSE b.entries[f].chunks]
               \in [Files -> Contents \cup {NoFile}]
        BY <3>2 DEF EntriesRead, ReadOK
      <3>4. Seen(b) \in [id : Body, stored : [Files -> Contents \cup {NoFile}]]
        BY <3>2, <3>3 DEF Seen
      <3>5. {Seen(s) : s \in commits'} = {Seen(s) : s \in commits} \cup {Seen(b)}
        BY <3>1
      <3>6. {View(s) : s \in commits}' = {View(s) : s \in commits} \cup {Seen(b)}
        BY <3>5, ViewsAreSeen
      <3>7. CatalogView!Publish
        BY <3>4, <3>6 DEF CatalogView!Publish
      <3> QED BY <3>7 DEF CatalogView!Next
    <2> QED BY <2>1, <2>2 DEF Next, Step, vars, store, ChangeFile, Tick, Start, Stop, WalkEntry,
               WalkDone, ReadFile, ChunkExists, PutChunk, AllRead, WriteIndex, WriteManifest
  <1>3. Init => EntriesRead
    BY DEF Init, EntriesRead, ReadOK, Idle
  <1> QED BY <1>1, <1>2, <1>3, ReadStays, InvAlways, PTL
          DEF Spec, ImplementsCatalog, CatalogView!Spec

-----------------------------------------------------------------------------
(* Numbers *)

LEMMA LeastNat ==
    ASSUME NEW I \in SUBSET Nat, I # {}
    PROVE  \E m \in I : \A n \in I : m <= n
  <1>1. PICK m \in I : \A n \in I : <<n, m>> \notin OpToRel(<, Nat)
    BY WFMin, NatLessThanWellFounded
  <1>2. \A n \in I : ~(n < m)
    BY <1>1 DEF OpToRel
  <1> QED BY <1>2

-----------------------------------------------------------------------------
(* Paths *)

LEMMA Element ==
    ASSUME NEW S, NEW q \in Seq(S), NEW i \in DOMAIN q
    PROVE  q[i] \in S
  OBVIOUS

LEMMA SameSequence ==
    ASSUME NEW S, NEW p \in Seq(S), NEW q \in Seq(S), Len(p) = Len(q),
           \A i \in 1..Len(p) : p[i] = q[i]
    PROVE  p = q
  OBVIOUS

LEMMA FirstStays ==
    ASSUME NEW S, NEW q \in Seq(S), q # <<>>, NEW e
    PROVE  Append(q, e) # <<>> /\ Append(q, e)[1] = q[1]
  <1>1. 1 \in DOMAIN q /\ 1 \in DOMAIN Append(q, e)
    OBVIOUS
  <1> QED BY <1>1

LEMMA PrefixIs ==
    ASSUME NEW N, NEW p \in Seq(N), NEW q \in Seq(N)
    PROVE  IsPrefix(p, q) <=> Len(p) <= Len(q) /\ \A i \in 1..Len(p) : p[i] = q[i]
  <1>1. ASSUME Len(p) <= Len(q)
        PROVE  SubSeq(p, 1, Len(p)) = SubSeq(q, 1, Len(p)) <=> \A i \in 1..Len(p) : p[i] = q[i]
    <2> DEFINE u == SubSeq(p, 1, Len(p))
               v == SubSeq(q, 1, Len(p))
    <2>1. u \in Seq(N) /\ Len(u) = Len(p) /\ \A i \in 1..Len(p) : u[i] = p[i]
      OBVIOUS
    <2>2. v \in Seq(N) /\ Len(v) = Len(p) /\ \A i \in 1..Len(p) : v[i] = q[i]
      BY <1>1
    <2> HIDE DEF u, v
    <2>3. u = v <=> \A i \in 1..Len(p) : u[i] = v[i]
      BY <2>1, <2>2
    <2> QED BY <2>1, <2>2, <2>3 DEF u, v
  <1> QED BY <1>1 DEF IsPrefix

LEMMA RelativeIs ==
    ASSUME NEW N, NEW R \in Seq(N), NEW p \in Seq(N), IsPrefix(R, p)
    PROVE  /\ Relative(R, p) \in Seq(N) /\ Len(Relative(R, p)) = Len(p) - Len(R)
           /\ \A i \in 1..(Len(p) - Len(R)) : Relative(R, p)[i] = p[Len(R) + i]
  <1>1. Len(R) \in Nat /\ Len(p) \in Nat /\ Len(R) <= Len(p)
    BY PrefixIs
  <1> QED BY <1>1 DEF Relative

LEMMA RelativeOne ==
    ASSUME NEW N, NEW R \in Seq(N), NEW p \in Seq(N), NEW q \in Seq(N),
           IsPrefix(R, p), IsPrefix(R, q), Relative(R, p) = Relative(R, q)
    PROVE  p = q
  <1>1. Len(p) - Len(R) = Len(q) - Len(R)
    BY RelativeIs
  <1>2. Len(p) = Len(q) /\ Len(R) <= Len(p) /\ Len(p) \in Nat /\ Len(R) \in Nat
    BY <1>1, PrefixIs
  <1>3. ASSUME NEW i \in 1..Len(p)
        PROVE  p[i] = q[i]
    <2>1. CASE i <= Len(R)
      BY <2>1, PrefixIs
    <2>2. CASE i > Len(R)
      <3>1. i - Len(R) \in 1..(Len(p) - Len(R)) /\ Len(R) + (i - Len(R)) = i
        BY <1>2, <2>2
      <3>2. Relative(R, p)[i - Len(R)] = p[Len(R) + (i - Len(R))]
        BY <3>1, RelativeIs
      <3>3. i - Len(R) \in 1..(Len(q) - Len(R))
        BY <1>1, <3>1
      <3>4. Relative(R, q)[i - Len(R)] = q[Len(R) + (i - Len(R))]
        BY <3>3, RelativeIs
      <3> QED BY <3>1, <3>2, <3>4
    <2> QED BY <1>2, <2>1, <2>2
  <1> QED BY <1>2, <1>3

LEMMA RelativeRoot ==
    ASSUME NEW N, NEW R \in Seq(N)
    PROVE  IsPrefix(R, R) /\ Relative(R, R) = <<>>
  <1>1. IsPrefix(R, R)
    BY PrefixIs
  <1>2. Relative(R, R) \in Seq(N) /\ Len(Relative(R, R)) = 0
    BY <1>1, RelativeIs
  <1> QED BY <1>1, <1>2

(* A path and the beginnings of it. *)
LEMMA Beginnings ==
    ASSUME NEW N, NEW x \in Seq(N), NEW n \in 0..Len(x)
    PROVE  /\ SubSeq(x, 1, n) \in Seq(N) /\ Len(SubSeq(x, 1, n)) = n
           /\ \A i \in 1..n : SubSeq(x, 1, n)[i] = x[i]
           /\ n = Len(x) => SubSeq(x, 1, n) = x
  OBVIOUS

LEMMA SameBeginning ==
    ASSUME NEW N, NEW x \in Seq(N), NEW y \in Seq(N), NEW n \in 0..Len(x), n <= Len(y),
           \A i \in 1..n : x[i] = y[i]
    PROVE  SubSeq(x, 1, n) = SubSeq(y, 1, n)
  <1> DEFINE u == SubSeq(x, 1, n)
             v == SubSeq(y, 1, n)
  <1>1. n \in 0..Len(y)
    OBVIOUS
  <1>2. u \in Seq(N) /\ v \in Seq(N) /\ Len(u) = n /\ Len(v) = n
        /\ \A i \in 1..n : u[i] = x[i] /\ v[i] = y[i]
    BY <1>1, Beginnings
  <1> HIDE DEF u, v
  <1>3. u = v
    BY <1>2
  <1> QED BY <1>3 DEF u, v

LEMMA PathsAreSequences == Paths \subseteq Seq(Seq(STRING))
  BY WalkAssumption DEF Paths

(* The relative path of a child is that of its directory and a name. *)
LEMMA ChildPath ==
    ASSUME NEW R \in Paths, NEW d \in Paths, IsPrefix(R, d), NEW q \in Children(d)
    PROVE  /\ q \in Paths /\ IsPrefix(R, q)
           /\ Relative(R, q) \in Seq(Seq(STRING)) /\ Relative(R, d) \in Seq(Seq(STRING))
           /\ Len(Relative(R, q)) = Len(Relative(R, d)) + 1
           /\ \A n \in 0..Len(Relative(R, d)) :
                 SubSeq(Relative(R, q), 1, n) = SubSeq(Relative(R, d), 1, n)
           /\ SubSeq(Relative(R, q), 1, Len(Relative(R, d))) = Relative(R, d)
  <1> DEFINE N == Seq(STRING)
  <1>0. R \in Seq(N) /\ d \in Seq(N) /\ q \in Seq(N) /\ q \in Paths
    BY PathsAreSequences DEF Children
  <1> HIDE DEF N
  <1>1. IsPrefix(d, q) /\ Len(q) = Len(d) + 1
    BY DEF Children, Below, IsStrictPrefix
  <1>2. IsPrefix(R, q)
    BY <1>0, <1>1, PrefixIs
  <1> DEFINE x == Relative(R, q)
             y == Relative(R, d)
  <1>3. /\ x \in Seq(N) /\ y \in Seq(N) /\ Len(x) = Len(q) - Len(R) /\ Len(y) = Len(d) - Len(R)
        /\ \A i \in 1..(Len(q) - Len(R)) : x[i] = q[Len(R) + i]
        /\ \A i \in 1..(Len(d) - Len(R)) : y[i] = d[Len(R) + i]
    BY <1>0, <1>2, RelativeIs
  <1>4. Len(R) \in Nat /\ Len(d) \in Nat /\ Len(R) <= Len(d) /\ \A i \in 1..Len(d) : d[i] = q[i]
    BY <1>0, <1>1, PrefixIs
  <1> HIDE DEF x, y
  <1>5. Len(x) = Len(y) + 1 /\ Len(y) \in Nat
    BY <1>1, <1>3, <1>4
  <1>6. \A i \in 1..Len(y) : x[i] = y[i]
    <2>1. ASSUME NEW i \in 1..Len(y)
          PROVE  x[i] = y[i]
      <3>1. Len(R) + i \in 1..Len(d) /\ i \in 1..(Len(d) - Len(R)) /\ i \in 1..(Len(q) - Len(R))
        BY <1>1, <1>3, <1>4
      <3> QED BY <1>3, <1>4, <3>1
    <2> QED BY <2>1
  <1>7. ASSUME NEW n \in 0..Len(y)
        PROVE  SubSeq(x, 1, n) = SubSeq(y, 1, n)
    <2>1. n \in 0..Len(x) /\ n <= Len(y) /\ \A i \in 1..n : x[i] = y[i]
      BY <1>5, <1>6
    <2> QED BY <1>3, <2>1, SameBeginning
  <1>8. SubSeq(x, 1, Len(y)) = y
    <2>1. Len(y) \in 0..Len(y)
      BY <1>5
    <2>2. SubSeq(y, 1, Len(y)) = y
      BY <1>3, <2>1, Beginnings
    <2> QED BY <1>7, <2>1, <2>2
  <1> QED BY <1>0, <1>2, <1>3, <1>5, <1>7, <1>8 DEF x, y, N

-----------------------------------------------------------------------------
(* One root *)

WalkEntries == Seq([path : Seq(Seq(STRING)), kind : Kinds])

IsDir(E, x) == \E i \in DOMAIN E : E[i].path = x /\ E[i].kind = "dir"

(* All above x is captured as a directory; the one x is in is not pending. *)
Placed(R, E, Q, x) ==
    x # <<>> => /\ \A n \in 0..(Len(x) - 1) : IsDir(E, SubSeq(x, 1, n))
                /\ \A k \in DOMAIN Q : Relative(R, Q[k]) # SubSeq(x, 1, Len(x) - 1)

(* No path is captured, left to visit or left to list twice. *)
Tidy(R, E, Q, C) ==
    /\ \A i, j \in DOMAIN E : E[i].path = E[j].path => i = j
    /\ \A i, j \in DOMAIN Q : Q[i] = Q[j] => i = j
    /\ \A k \in DOMAIN Q : IsDir(E, Relative(R, Q[k]))
    /\ \A c \in C : Relative(R, c) # <<>> /\ \A i \in DOMAIN E : E[i].path # Relative(R, c)
    /\ \A i \in DOMAIN E : Placed(R, E, Q, E[i].path)
    /\ \A c \in C : Placed(R, E, Q, Relative(R, c))

Under(R, Q, C) ==
    /\ Q \in Seq(Paths) /\ C \subseteq Paths
    /\ \A k \in DOMAIN Q : IsPrefix(R, Q[k])
    /\ \A c \in C : IsPrefix(R, c)

LEMMA EntryPath ==
    ASSUME NEW E \in WalkEntries, NEW i \in DOMAIN E
    PROVE  E[i].path \in Seq(Seq(STRING))
  <1>1. E[i] \in [path : Seq(Seq(STRING)), kind : Kinds]
    <2> DEFINE S == [path : Seq(Seq(STRING)), kind : Kinds]
    <2>1. E \in Seq(S)
      BY DEF WalkEntries
    <2> HIDE DEF S
    <2>2. E[i] \in S
      BY <2>1, Element
    <2> QED BY <2>2 DEF S
  <1> QED BY <1>1

LEMMA TidyBegin ==
    ASSUME NEW R \in Paths, NEW kind
    PROVE  LET E == Append(<<>>, [path |-> Relative(R, R), kind |-> kind])
               Q == Queued(<<>>, R, kind) IN
           Under(R, Q, {}) /\ Tidy(R, E, Q, {})
  <1> DEFINE E == Append(<<>>, [path |-> Relative(R, R), kind |-> kind])
             Q == Queued(<<>>, R, kind)
  <1>1. IsPrefix(R, R) /\ Relative(R, R) = <<>>
    BY PathsAreSequences, RelativeRoot
  <1>2. E = <<[path |-> <<>>, kind |-> kind]>> /\ DOMAIN E = {1}
        /\ E[1].path = <<>> /\ E[1].kind = kind
    BY <1>1
  <1>3. CASE kind = "dir"
    <2>1. Q = <<R>> /\ DOMAIN Q = {1} /\ Q[1] = R /\ Q \in Seq(Paths)
      BY <1>3 DEF Queued
    <2> HIDE DEF E, Q
    <2>2. IsDir(E, <<>>)
      BY <1>2, <1>3 DEF IsDir
    <2> QED BY <1>1, <1>2, <2>1, <2>2 DEF Under, Tidy, Placed, E, Q
  <1>4. CASE kind # "dir"
    <2>1. Q = <<>> /\ DOMAIN Q = {} /\ Q \in Seq(Paths)
      BY <1>4 DEF Queued
    <2> HIDE DEF E, Q
    <2> QED BY <1>1, <1>2, <2>1 DEF Under, Tidy, Placed, E, Q
  <1> QED BY <1>3, <1>4

LEMMA TidyRead ==
    ASSUME NEW R \in Paths, NEW E \in WalkEntries, NEW Q, Q # <<>>, NEW S \in SUBSET Children(Head(Q)),
           Under(R, Q, {}), Tidy(R, E, Q, {})
    PROVE  Under(R, Tail(Q), S) /\ Tidy(R, E, Tail(Q), S)
  <1> DEFINE d == Head(Q)
             T == Tail(Q)
  <1>1. Q \in Seq(Paths) /\ d = Q[1] /\ d \in Paths /\ 1 \in DOMAIN Q
    BY DEF Under
  <1>2. T \in Seq(Paths) /\ \A k \in DOMAIN T : k + 1 \in DOMAIN Q /\ T[k] = Q[k + 1] /\ k \in Nat /\ k > 0
    BY <1>1
  <1>3. IsPrefix(R, d)
    BY <1>1 DEF Under
  <1> HIDE DEF d, T
  <1>4. ASSUME NEW c \in S
        PROVE  /\ c \in Paths /\ IsPrefix(R, c)
               /\ Relative(R, c) # <<>> /\ \A i \in DOMAIN E : E[i].path # Relative(R, c)
               /\ Placed(R, E, T, Relative(R, c))
    <2>0. c \in Children(d)
      BY DEF d
    <2> DEFINE x == Relative(R, c)
               y == Relative(R, d)
    <2>1. /\ c \in Paths /\ IsPrefix(R, c) /\ x \in Seq(Seq(STRING)) /\ y \in Seq(Seq(STRING))
          /\ Len(x) = Len(y) + 1 /\ \A n \in 0..Len(y) : SubSeq(x, 1, n) = SubSeq(y, 1, n)
          /\ SubSeq(x, 1, Len(y)) = y
      BY <1>1, <1>3, <2>0, ChildPath
    <2>2. IsDir(E, y) /\ \A k \in DOMAIN T : Relative(R, T[k]) # y
      <3>1. IsDir(E, y)
        BY <1>1 DEF Tidy
      <3>2. ASSUME NEW k \in DOMAIN T, Relative(R, T[k]) = y
            PROVE  FALSE
        <4>1. T[k] \in Paths /\ IsPrefix(R, T[k])
          BY <1>1, <1>2 DEF Under
        <4>2. T[k] = d
          BY <1>1, <1>3, <3>2, <4>1, PathsAreSequences, RelativeOne
        <4> QED BY <1>1, <1>2, <4>2 DEF Tidy
      <3> QED BY <3>1, <3>2
    <2>3. PICK e \in DOMAIN E : E[e].path = y
      BY <2>2 DEF IsDir
    <2>4. Placed(R, E, Q, y)
      BY <2>3 DEF Tidy
    <2> HIDE DEF x, y
    <2>5. x # <<>> /\ Len(x) - 1 = Len(y) /\ Len(y) \in Nat
      BY <2>1
    <2>6. ASSUME NEW n \in 0..(Len(x) - 1)
          PROVE  IsDir(E, SubSeq(x, 1, n))
      <3>1. SubSeq(x, 1, n) = SubSeq(y, 1, n) /\ n \in 0..Len(y)
        BY <2>1, <2>5
      <3>2. CASE n = Len(y)
        BY <2>1, <2>2, <3>2
      <3>3. CASE n # Len(y)
        <4>1. y # <<>> /\ n \in 0..(Len(y) - 1)
          BY <2>5, <3>1, <3>3
        <4> QED BY <2>4, <3>1, <4>1 DEF Placed
      <3> QED BY <3>2, <3>3
    <2>7. ASSUME NEW i \in DOMAIN E, E[i].path = x
          PROVE  FALSE
      <3>1. Placed(R, E, Q, x)
        BY <2>7 DEF Tidy
      <3>2. Relative(R, Q[1]) # SubSeq(x, 1, Len(x) - 1)
        BY <1>1, <2>5, <3>1 DEF Placed
      <3> QED BY <1>1, <2>1, <2>5, <3>2 DEF y
    <2>8. Placed(R, E, T, x)
      BY <2>1, <2>2, <2>5, <2>6 DEF Placed
    <2> QED BY <2>1, <2>5, <2>7, <2>8 DEF x
  <1>5. ASSUME NEW i \in DOMAIN E
        PROVE  Placed(R, E, T, E[i].path)
    <2>1. Placed(R, E, Q, E[i].path)
      BY DEF Tidy
    <2> QED BY <1>2, <2>1 DEF Placed
  <1>6. Under(R, T, S)
    BY <1>2, <1>4 DEF Under
  <1>7. /\ \A i, j \in DOMAIN E : E[i].path = E[j].path => i = j
        /\ \A k \in DOMAIN T : IsDir(E, Relative(R, T[k]))
    BY <1>2 DEF Tidy
  <1>8. \A i, j \in DOMAIN T : T[i] = T[j] => i = j
    <2>1. \A i, j \in DOMAIN Q : Q[i] = Q[j] => i = j
      BY DEF Tidy
    <2> QED BY <1>2, <2>1
  <1>9. Tidy(R, E, T, S)
    BY <1>4, <1>5, <1>7, <1>8 DEF Tidy
  <1> QED BY <1>6, <1>9 DEF T

LEMMA TidySkip ==
    ASSUME NEW R, NEW E, NEW Q, NEW C, NEW D \in SUBSET C, Under(R, Q, C), Tidy(R, E, Q, C)
    PROVE  Under(R, Q, D) /\ Tidy(R, E, Q, D)
  BY DEF Under, Tidy

LEMMA TidyCapture ==
    ASSUME NEW R \in Paths, NEW E \in WalkEntries, NEW Q, NEW C, Under(R, Q, C), Tidy(R, E, Q, C),
           NEW c \in C, NEW kind \in Kinds
    PROVE  LET F == Append(E, [path |-> Relative(R, c), kind |-> kind])
               P == Queued(Q, c, kind) IN
           Under(R, P, C \ {c}) /\ Tidy(R, F, P, C \ {c})
  <1> DEFINE x == Relative(R, c)
             F == Append(E, [path |-> x, kind |-> kind])
             P == Queued(Q, c, kind)
             m == Len(E) + 1
  <1>1. /\ c \in Paths /\ IsPrefix(R, c) /\ Q \in Seq(Paths)
        /\ x # <<>> /\ (\A i \in DOMAIN E : E[i].path # x) /\ Placed(R, E, Q, x)
    BY DEF Under, Tidy
  <1>2. x \in Seq(Seq(STRING))
    BY <1>1, PathsAreSequences, RelativeIs
  <1>3. /\ DOMAIN F = DOMAIN E \cup {m} /\ m \notin DOMAIN E
        /\ \A i \in DOMAIN E : F[i] = E[i]
        /\ F[m].path = x /\ F[m].kind = kind
    BY <1>2 DEF WalkEntries
  <1>4. /\ P \in Seq(Paths)
        /\ DOMAIN Q \subseteq DOMAIN P /\ \A k \in DOMAIN Q : P[k] = Q[k]
        /\ \A k \in DOMAIN P \ DOMAIN Q : k = Len(Q) + 1 /\ P[k] = c /\ kind = "dir"
    BY <1>1 DEF Queued
  <1> HIDE DEF x, F, P, m
  <1>5. ASSUME NEW y, IsDir(E, y)
        PROVE  IsDir(F, y) /\ y # x
    BY <1>1, <1>3, <1>5 DEF IsDir
  <1>6. ASSUME NEW y \in Seq(Seq(STRING)), Placed(R, E, Q, y)
        PROVE  Placed(R, F, P, y)
    <2> SUFFICES ASSUME y # <<>>
                 PROVE  /\ \A n \in 0..(Len(y) - 1) : IsDir(F, SubSeq(y, 1, n))
                        /\ \A k \in DOMAIN P : Relative(R, P[k]) # SubSeq(y, 1, Len(y) - 1)
      BY DEF Placed
    <2>1. /\ \A n \in 0..(Len(y) - 1) : IsDir(E, SubSeq(y, 1, n))
          /\ \A k \in DOMAIN Q : Relative(R, Q[k]) # SubSeq(y, 1, Len(y) - 1)
      BY <1>6 DEF Placed
    <2>2. Len(y) - 1 \in 0..(Len(y) - 1)
      OBVIOUS
    <2>3. SubSeq(y, 1, Len(y) - 1) # x
      BY <1>5, <2>1, <2>2
    <2> QED BY <1>4, <1>5, <2>1, <2>3 DEF x
  <1>7. Under(R, P, C \ {c})
    BY <1>1, <1>4 DEF Under
  <1>8. \A i, j \in DOMAIN F : F[i].path = F[j].path => i = j
    BY <1>1, <1>3 DEF Tidy
  <1>9. \A k \in DOMAIN P : IsDir(F, Relative(R, P[k]))
    <2>1. \A k \in DOMAIN Q : IsDir(F, Relative(R, P[k]))
      BY <1>4, <1>5 DEF Tidy
    <2>2. ASSUME NEW k \in DOMAIN P \ DOMAIN Q
          PROVE  IsDir(F, Relative(R, P[k]))
      BY <1>3, <1>4 DEF IsDir, x
    <2> QED BY <2>1, <2>2
  <1>10. \A k \in DOMAIN Q : Q[k] # c
    <2>1. \A k \in DOMAIN Q : IsDir(E, Relative(R, Q[k]))
      BY DEF Tidy
    <2> QED BY <1>5, <2>1 DEF x
  <1>11. \A i, j \in DOMAIN P : P[i] = P[j] => i = j
    <2>1. \A i, j \in DOMAIN Q : Q[i] = Q[j] => i = j
      BY DEF Tidy
    <2> QED BY <1>4, <1>10, <2>1
  <1>12. ASSUME NEW b \in C \ {c}
         PROVE  /\ Relative(R, b) # <<>> /\ \A i \in DOMAIN F : F[i].path # Relative(R, b)
                /\ Placed(R, F, P, Relative(R, b))
    <2>1. b \in Paths /\ IsPrefix(R, b) /\ Relative(R, b) # <<>> /\ Placed(R, E, Q, Relative(R, b))
          /\ \A i \in DOMAIN E : E[i].path # Relative(R, b)
      BY DEF Under, Tidy
    <2>2. Relative(R, b) \in Seq(Seq(STRING))
      BY <2>1, PathsAreSequences, RelativeIs
    <2>3. Relative(R, b) # x
      BY <1>1, <2>1, PathsAreSequences, RelativeOne DEF x
    <2> QED BY <1>3, <1>6, <2>1, <2>2, <2>3
  <1>13. ASSUME NEW i \in DOMAIN F
         PROVE  Placed(R, F, P, F[i].path)
    <2>1. CASE i \in DOMAIN E
      <3>1. E[i].path \in Seq(Seq(STRING))
        BY <2>1, EntryPath
      <3>2. Placed(R, E, Q, E[i].path)
        BY <2>1 DEF Tidy
      <3> QED BY <1>3, <1>6, <2>1, <3>1, <3>2
    <2>2. CASE i = m
      BY <1>1, <1>2, <1>3, <1>6, <2>2
    <2> QED BY <1>3, <2>1, <2>2
  <1>14. Tidy(R, F, P, C \ {c})
    BY <1>8, <1>9, <1>11, <1>12, <1>13 DEF Tidy
  <1> QED BY <1>7, <1>14 DEF F, P, x

(* The next child is one of those left. *)
LEMMA NextChildLeft ==
    ASSUME walk.children # {}, walk.children \subseteq Paths
    PROVE  NextChild \in walk.children
  <1> DEFINE I == {i \in DOMAIN Order : Order[i] \in walk.children}
  <1>1. I \in SUBSET Nat /\ I # {}
    BY WalkAssumption DEF Paths
  <1>2. Min(I) \in I
    <2> HIDE DEF I
    <2> QED BY <1>1, LeastNat DEF Min
  <1> QED BY <1>2 DEF NextChild

-----------------------------------------------------------------------------
(* The walk *)

WalkType ==
    /\ setup \in Setups /\ tree \in [Paths -> Kinds]
    /\ walk.pc \in {"root", "directory", "child", "done", "failed"}
    /\ walk.roots \in Seq(Paths) /\ walk.entries \in WalkEntries
    /\ walk.pc \in {"root", "directory", "child"} => walk.roots # <<>>
    /\ walk.pc = "directory" => walk.pending # <<>> /\ walk.children = {}
    /\ walk.pc = "child" => walk.children # {}
    /\ walk.pc \in {"root", "done", "failed"} => walk.pending = <<>> /\ walk.children = {}
    /\ Under(Root, walk.pending, walk.children)

LEMMA RootIsPath ==
    ASSUME WalkType, walk.pc \in {"root", "directory", "child"}
    PROVE  Root \in Paths
  BY DEF WalkType, Root

LEMMA UnderNothing == \A R : Under(R, <<>>, {})
  BY DEF Under

LEMMA NextInType ==
    ASSUME WalkType, walk.roots # <<>>, NEW Q, NEW C, NEW E \in WalkEntries, Under(Root, Q, C),
           walk' = NextIn(Q, C, E), setup' = setup, tree' \in [Paths -> Kinds]
    PROVE  WalkType'
  <1>1. /\ walk'.pc = IF C # {} THEN "child" ELSE IF Q # <<>> THEN "directory"
                      ELSE IF Tail(walk.roots) # <<>> THEN "root" ELSE "done"
        /\ walk'.roots = IF C = {} /\ Q = <<>> THEN Tail(walk.roots) ELSE walk.roots
        /\ walk'.pending = Q /\ walk'.children = C /\ walk'.entries = E
    BY DEF NextIn
  <1>2. walk'.roots \in Seq(Paths)
    BY <1>1 DEF WalkType
  <1>3. Under(Root', walk'.pending, walk'.children)
    BY <1>1, UnderNothing DEF Root
  <1> QED BY <1>1, <1>2, <1>3 DEF WalkType

LEMMA FailedType ==
    ASSUME WalkType, walk' = Failed, setup' = setup, tree' \in [Paths -> Kinds]
    PROVE  WalkType'
  BY UnderNothing DEF WalkType, Failed

LEMMA CapturesKinds ==
    ASSUME WalkType, NEW p \in Paths, NEW kind \in Captures(p)
    PROVE  kind \in Kinds
  BY DEF WalkType, Captures

LEMMA EntriesAppend ==
    ASSUME NEW E \in WalkEntries, NEW R \in Paths, NEW p \in Paths, IsPrefix(R, p), NEW kind \in Kinds
    PROVE  Append(E, [path |-> Relative(R, p), kind |-> kind]) \in WalkEntries
  <1>1. Relative(R, p) \in Seq(Seq(STRING))
    BY PathsAreSequences, RelativeIs
  <1> QED BY <1>1 DEF WalkEntries

(* What a step of the walk leaves: it fails, or goes on. *)
WentOn(Q, C, E) == walk' = NextIn(Q, C, E) /\ Under(Root, Q, C) /\ E \in WalkEntries

LEMMA RootSteps ==
    ASSUME WalkType, CaptureRoot
    PROVE  \/ walk' = Failed
           \/ \E kind \in Captures(Root) \ {"none"} :
                 WentOn(Queued(<<>>, Root, kind), {}, Append(walk.entries, Captured(Root, kind)))
  <1>1. Root \in Paths /\ walk.entries \in WalkEntries
    BY RootIsPath DEF CaptureRoot, WalkType
  <1>2. PICK kind \in Captures(Root) :
           walk' = IF kind = "none" THEN Failed
                   ELSE NextIn(Queued(<<>>, Root, kind), {}, Append(walk.entries, Captured(Root, kind)))
    BY DEF CaptureRoot
  <1>3. Under(Root, Queued(<<>>, Root, kind), {})
    BY <1>1, TidyBegin
  <1>4. Append(walk.entries, Captured(Root, kind)) \in WalkEntries
    BY <1>1, EntriesAppend, CapturesKinds, PathsAreSequences, RelativeRoot DEF Captured
  <1> QED BY <1>2, <1>3, <1>4 DEF WentOn

LEMMA ListingsAreChildren ==
    ASSUME NEW p, NEW S \in Listings(p)
    PROVE  S \in SUBSET Children(p)
  BY DEF Listings

LEMMA UnderRead ==
    ASSUME NEW R \in Paths, NEW Q, Q # <<>>, Under(R, Q, {}), NEW S \in SUBSET Children(Head(Q))
    PROVE  Under(R, Tail(Q), S)
  <1>1. Head(Q) \in Paths /\ IsPrefix(R, Head(Q)) /\ Tail(Q) \in Seq(Paths)
        /\ \A k \in DOMAIN Tail(Q) : k + 1 \in DOMAIN Q /\ Tail(Q)[k] = Q[k + 1]
    BY DEF Under
  <1>2. \A c \in S : c \in Paths /\ IsPrefix(R, c)
    BY <1>1, ChildPath
  <1> QED BY <1>1, <1>2 DEF Under

LEMMA ReadSteps ==
    ASSUME WalkType, ReadDirectory
    PROVE  \/ walk' = Failed
           \/ \E S \in Listings(Head(walk.pending)) : WentOn(Tail(walk.pending), S, walk.entries)
  <1>1. /\ Root \in Paths /\ walk.entries \in WalkEntries /\ walk.pending # <<>>
        /\ Under(Root, walk.pending, {})
    BY RootIsPath DEF ReadDirectory, WalkType
  <1>2. ASSUME NEW S \in Listings(Head(walk.pending))
        PROVE  Under(Root, Tail(walk.pending), S)
    BY <1>1, UnderRead, ListingsAreChildren
  <1> QED BY <1>1, <1>2 DEF ReadDirectory, WentOn

LEMMA UnderCapture ==
    ASSUME NEW R \in Paths, NEW Q, NEW C, Under(R, Q, C), NEW c \in C, NEW kind
    PROVE  Under(R, Queued(Q, c, kind), C \ {c})
  <1>1. c \in Paths /\ IsPrefix(R, c) /\ Q \in Seq(Paths)
    BY DEF Under
  <1> QED BY <1>1 DEF Under, Queued

LEMMA ChildSteps ==
    ASSUME WalkType, CaptureChild
    PROVE  /\ NextChild \in walk.children
           /\ \/ walk' = Failed
              \/ /\ Excluded(Relative(Root, NextChild))
                 /\ WentOn(walk.pending, walk.children \ {NextChild}, walk.entries)
              \/ /\ ~Excluded(Relative(Root, NextChild))
                 /\ \E kind \in Captures(NextChild) \ {"none"} :
                       WentOn(Queued(walk.pending, NextChild, kind), walk.children \ {NextChild},
                              Append(walk.entries, Captured(NextChild, kind)))
  <1>1. /\ Root \in Paths /\ walk.entries \in WalkEntries /\ walk.children # {}
        /\ walk.children \subseteq Paths /\ Under(Root, walk.pending, walk.children)
    BY RootIsPath DEF CaptureChild, WalkType, Under
  <1>2. NextChild \in walk.children /\ NextChild \in Paths /\ IsPrefix(Root, NextChild)
    BY <1>1, NextChildLeft DEF Under
  <1>3. Under(Root, walk.pending, walk.children \ {NextChild})
    BY <1>1 DEF Under
  <1>4. ASSUME NEW kind \in Captures(NextChild)
        PROVE  /\ Under(Root, Queued(walk.pending, NextChild, kind), walk.children \ {NextChild})
               /\ Append(walk.entries, Captured(NextChild, kind)) \in WalkEntries
    BY <1>1, <1>2, UnderCapture, EntriesAppend, CapturesKinds DEF Captured
  <1> QED BY <1>1, <1>2, <1>3, <1>4 DEF CaptureChild, WentOn

LEMMA ChangeType ==
    ASSUME WalkType, NEW p \in Paths, NEW kind \in Kinds, Change(p, kind)
    PROVE  WalkType' /\ walk' = walk
  <1>1. tree' \in [Paths -> Kinds]
    BY DEF Change, WalkType, Kinds
  <1> QED BY <1>1 DEF Change, WalkType, Root

LEMMA WalkTypeInvariant == WalkSpec => []WalkType
  <1>1. WalkInit => WalkType
    BY WalkAssumption, UnderNothing DEF WalkInit, WalkType, WalkEntries
  <1>2. WalkType /\ [WalkNext]_walkVars => WalkType'
    <2> SUFFICES ASSUME WalkType, [WalkNext]_walkVars PROVE WalkType'
      OBVIOUS
    <2>1. ASSUME NEW p \in Paths, NEW kind \in Kinds, Change(p, kind)
          PROVE  WalkType'
      BY <2>1, ChangeType
    <2>a. ASSUME setup' = setup, tree' = tree, walk.pc \in {"root", "directory", "child"},
                 walk' = Failed \/ \E Q, C, E : WentOn(Q, C, E)
          PROVE  WalkType'
      <3>1. walk.roots # <<>> /\ tree' \in [Paths -> Kinds]
        BY <2>a DEF WalkType
      <3> QED BY <2>a, <3>1, FailedType, NextInType DEF WentOn
    <2>2. CASE CaptureRoot
      BY <2>2, <2>a, RootSteps DEF CaptureRoot
    <2>3. CASE ReadDirectory
      BY <2>3, <2>a, ReadSteps DEF ReadDirectory
    <2>4. CASE CaptureChild
      BY <2>4, <2>a, ChildSteps DEF CaptureChild
    <2>5. CASE UNCHANGED walkVars
      BY <2>5 DEF walkVars, WalkType, Root
    <2> QED BY <2>1, <2>2, <2>3, <2>4, <2>5 DEF WalkNext
  <1> QED BY <1>1, <1>2, PTL DEF WalkSpec

-----------------------------------------------------------------------------
(* One directory *)

OnlyFirst(E) == \A i \in DOMAIN E : E[i].path = <<>> => i = 1

OneRootInv ==
    /\ WalkType
    /\ walk.pc \in {"directory", "child"} => walk.entries # <<>>
    /\ walk.entries # <<>> => walk.entries[1].path = <<>>
    /\ OnlyFirst(walk.entries) => Tidy(Root, walk.entries, walk.pending, walk.children)

LEMMA TidyAnyRoot ==
    ASSUME NEW R, NEW S, NEW E, Tidy(R, E, <<>>, {})
    PROVE  Tidy(S, E, <<>>, {})
  BY DEF Tidy, Placed

LEMMA TidyFailed ==
    ASSUME NEW R, NEW S, NEW E, NEW Q, NEW C, Tidy(R, E, Q, C)
    PROVE  Tidy(S, E, <<>>, {})
  BY DEF Tidy, Placed

LEMMA NextInTidy ==
    ASSUME NEW Q, NEW C, NEW E, WentOn(Q, C, E), WalkType', E # <<>>, E[1].path = <<>>,
           OnlyFirst(E) => Tidy(Root, E, Q, C)
    PROVE  OneRootInv'
  <1>1. /\ walk'.roots = IF C = {} /\ Q = <<>> THEN Tail(walk.roots) ELSE walk.roots
        /\ walk'.pending = Q /\ walk'.children = C /\ walk'.entries = E
    BY DEF NextIn, WentOn
  <1>2. OnlyFirst(E) => Tidy(Root', E, Q, C)
    <2>1. CASE C = {} /\ Q = <<>>
      BY <2>1, TidyAnyRoot
    <2>2. CASE ~(C = {} /\ Q = <<>>)
      <3>1. Root' = Root
        BY <1>1, <2>2 DEF Root
      <3> QED BY <3>1
    <2> QED BY <2>1, <2>2
  <1> QED BY <1>1, <1>2 DEF OneRootInv

LEMMA AppendOnlyFirst ==
    ASSUME NEW E \in WalkEntries, NEW e, OnlyFirst(Append(E, e))
    PROVE  OnlyFirst(E)
  <1>1. \A i \in DOMAIN E : i \in DOMAIN Append(E, e) /\ Append(E, e)[i] = E[i]
    BY DEF WalkEntries
  <1> QED BY <1>1 DEF OnlyFirst

LEMMA OneRootIsInvariant == WalkSpec => []OneRootInv
  <1>1. WalkType /\ WalkInit => OneRootInv
    BY DEF WalkInit, OneRootInv, Tidy
  <1>2. OneRootInv /\ WalkType' /\ [WalkNext]_walkVars => OneRootInv'
    <2> SUFFICES ASSUME OneRootInv, WalkType', [WalkNext]_walkVars PROVE OneRootInv'
      OBVIOUS
    <2>0. WalkType
      BY DEF OneRootInv
    <2>a. CASE walk' = Failed
      <3>1. walk'.pc = "failed" /\ walk'.pending = <<>> /\ walk'.children = {} /\ walk'.entries = walk.entries
        BY <2>a DEF Failed
      <3>2. OnlyFirst(walk.entries) => Tidy(Root', walk.entries, <<>>, {})
        BY TidyFailed DEF OneRootInv
      <3> QED BY <3>1, <3>2 DEF OneRootInv
    <2>b. CASE walk' = walk
      BY <2>b DEF OneRootInv, Root
    <2>2. CASE CaptureRoot /\ walk' # Failed
      <3>1. PICK kind \in Captures(Root) \ {"none"} :
               WentOn(Queued(<<>>, Root, kind), {}, Append(walk.entries, Captured(Root, kind)))
        BY <2>0, <2>2, RootSteps
      <3> DEFINE E == Append(walk.entries, Captured(Root, kind))
                 Q == Queued(<<>>, Root, kind)
                 m == Len(walk.entries) + 1
      <3>2. Root \in Paths /\ walk.entries \in WalkEntries
        BY <2>0, <2>2, RootIsPath DEF CaptureRoot, WalkType
      <3>3. Relative(Root, Root) = <<>>
        BY <3>2, PathsAreSequences, RelativeRoot
      <3>4. /\ m \in DOMAIN E /\ E[m].path = <<>> /\ m \in Nat
            /\ \A i \in DOMAIN walk.entries : E[i] = walk.entries[i]
            /\ walk.entries # <<>> => 1 \in DOMAIN walk.entries /\ m # 1
            /\ walk.entries = <<>> => m = 1
        BY <3>2, <3>3 DEF Captured, WalkEntries
      <3>5. E # <<>> /\ E[1].path = <<>>
        <4>1. CASE walk.entries = <<>>
          BY <3>4, <4>1
        <4>2. CASE walk.entries # <<>>
          BY <3>4, <4>2 DEF OneRootInv
        <4> QED BY <3>4, <4>1, <4>2
      <3>6. OnlyFirst(E) => Tidy(Root, E, Q, {})
        <4>1. CASE walk.entries = <<>>
          BY <3>2, <4>1, TidyBegin DEF Captured
        <4>2. CASE walk.entries # <<>>
          BY <3>4, <4>2 DEF OnlyFirst
        <4> QED BY <4>1, <4>2
      <3> HIDE DEF E, Q
      <3> QED BY <3>1, <3>5, <3>6, NextInTidy DEF E, Q
    <2>3. CASE ReadDirectory /\ walk' # Failed
      <3>1. PICK S \in Listings(Head(walk.pending)) : WentOn(Tail(walk.pending), S, walk.entries)
        BY <2>0, <2>3, ReadSteps
      <3>2. /\ Root \in Paths /\ walk.entries \in WalkEntries /\ walk.pending # <<>> /\ walk.children = {}
            /\ Under(Root, walk.pending, {}) /\ walk.entries # <<>>
        BY <2>0, <2>3, RootIsPath DEF ReadDirectory, WalkType, OneRootInv
      <3>3. OnlyFirst(walk.entries) => Tidy(Root, walk.entries, Tail(walk.pending), S)
        BY <3>2, TidyRead, ListingsAreChildren DEF OneRootInv
      <3> QED BY <3>1, <3>2, <3>3, NextInTidy DEF OneRootInv
    <2>4. CASE CaptureChild /\ walk' # Failed
      <3> DEFINE C == walk.children \ {NextChild}
      <3>1. /\ Root \in Paths /\ walk.entries \in WalkEntries /\ walk.entries # <<>>
            /\ Under(Root, walk.pending, walk.children)
        BY <2>0, <2>4, RootIsPath DEF CaptureChild, WalkType, OneRootInv
      <3>2. NextChild \in walk.children
        BY <2>0, <2>4, ChildSteps
      <3>3. CASE WentOn(walk.pending, C, walk.entries)
        <4>1. OnlyFirst(walk.entries) => Tidy(Root, walk.entries, walk.pending, C)
          BY <3>1, TidySkip DEF OneRootInv
        <4> QED BY <3>1, <3>3, <4>1, NextInTidy DEF OneRootInv
      <3>4. ASSUME NEW kind \in Captures(NextChild),
                   WentOn(Queued(walk.pending, NextChild, kind), C,
                          Append(walk.entries, Captured(NextChild, kind)))
            PROVE  OneRootInv'
        <4> DEFINE E == Append(walk.entries, Captured(NextChild, kind))
                   Q == Queued(walk.pending, NextChild, kind)
        <4>1. E # <<>> /\ E[1] = walk.entries[1]
          BY <3>1, FirstStays DEF WalkEntries
        <4>2. kind \in Kinds
          BY <2>0, <3>1, <3>2, CapturesKinds DEF Under
        <4>3. OnlyFirst(E) => Tidy(Root, E, Q, C)
          <5> SUFFICES ASSUME OnlyFirst(E) PROVE Tidy(Root, E, Q, C)
            OBVIOUS
          <5>1. Tidy(Root, walk.entries, walk.pending, walk.children)
            BY <3>1, AppendOnlyFirst DEF OneRootInv
          <5> QED BY <3>1, <3>2, <4>2, <5>1, TidyCapture DEF Captured
        <4>4. E[1].path = <<>>
          BY <3>1, <4>1 DEF OneRootInv
        <4> HIDE DEF E, Q, C
        <4> QED BY <3>4, <4>1, <4>3, <4>4, NextInTidy DEF E, Q
      <3> QED BY <2>0, <2>4, <3>3, <3>4, ChildSteps
    <2> QED BY <2>0, <2>a, <2>b, <2>2, <2>3, <2>4, ChangeType DEF WalkNext, walkVars
  <1> QED BY <1>1, <1>2, WalkTypeInvariant, PTL DEF WalkSpec

(***************************************************************************)
(* SourceWalker::walk and validate_snapshot_manifest: readers accept the   *)
(* entries of a walk exactly when one root was captured and it was a       *)
(* directory, for any tree, any roots and any changes by other programs.   *)
(***************************************************************************)
THEOREM OneDirectoryIsAccepted == WalkSpec => []OneDirectoryIsValid
  <1>1. OneRootInv => OneDirectoryIsValid
    <2> DEFINE E == walk.entries
    <2> SUFFICES ASSUME OneRootInv, E # <<>>
                 PROVE  ValidEntries(E) <=> E[1].kind = "dir" /\ OnlyFirst(E)
      BY DEF OneDirectoryIsValid, OnlyFirst
    <2>0. E \in WalkEntries /\ 1 \in DOMAIN E /\ E[1].path = <<>>
      BY DEF OneRootInv, WalkType, WalkEntries
    <2>1. ValidEntries(E) => E[1].kind = "dir" /\ OnlyFirst(E)
      BY <2>0 DEF ValidEntries, OnlyFirst
    <2>2. ASSUME E[1].kind = "dir", OnlyFirst(E)
          PROVE  ValidEntries(E)
      <3>1. Tidy(Root, E, walk.pending, walk.children)
        BY <2>2 DEF OneRootInv
      <3> HIDE DEF E
      <3>2. \A i \in DOMAIN E : E[i].path = <<>> => E[i].kind = "dir"
        BY <2>2 DEF OnlyFirst
      <3>3. \A i, j \in DOMAIN E : E[i].path = E[j].path => i = j
        BY <3>1 DEF Tidy
      <3>4. ASSUME NEW i \in DOMAIN E, NEW j \in DOMAIN E, Below(E[i].path, E[j].path)
            PROVE  E[i].kind = "dir"
        <4> DEFINE x == E[i].path
                   y == E[j].path
        <4>1. x \in Seq(Seq(STRING)) /\ y \in Seq(Seq(STRING))
          BY <2>0, EntryPath
        <4>2. Placed(Root, E, walk.pending, y)
          BY <3>1 DEF Tidy
        <4>3. IsPrefix(x, y) /\ x # y
          BY <3>4 DEF Below, IsStrictPrefix
        <4> HIDE DEF x, y
        <4>4. Len(x) <= Len(y) /\ \A n \in 1..Len(x) : x[n] = y[n]
          BY <4>1, <4>3, PrefixIs
        <4>5. Len(x) # Len(y)
          BY <4>1, <4>3, <4>4, SameSequence
        <4>6. y # <<>> /\ Len(x) \in 0..(Len(y) - 1)
          BY <4>1, <4>4, <4>5
        <4>7. SubSeq(y, 1, Len(x)) = SubSeq(x, 1, Len(x)) /\ SubSeq(x, 1, Len(x)) = x
          <5>1. Len(x) \in 0..Len(x) /\ Len(x) <= Len(y)
            BY <4>1, <4>4
          <5> QED BY <4>1, <4>4, <5>1, SameBeginning, Beginnings
        <4>8. IsDir(E, x)
          BY <4>2, <4>6, <4>7 DEF Placed
        <4> QED BY <3>3, <4>8 DEF IsDir, x
      <3> QED BY <3>2, <3>3, <3>4 DEF ValidEntries
    <2> HIDE DEF E
    <2> QED BY <2>1, <2>2
  <1> QED BY <1>1, OneRootIsInvariant, PTL

-----------------------------------------------------------------------------
(* Induction, and functions defined by recursion, over bounded numbers *)

LEMMA Upwards ==
    ASSUME NEW I, NEW N \in Nat, 0 \in I, \A n \in 0..(N - 1) : n \in I => n + 1 \in I
    PROVE  0..N \subseteq I
  <1> DEFINE J == {n \in 0..N : n \notin I}
  <1>1. SUFFICES ASSUME J # {} PROVE FALSE
    OBVIOUS
  <1>0. J \in SUBSET Nat
    OBVIOUS
  <1>2. PICK m \in J : \A n \in J : m <= n
    <2> HIDE DEF J
    <2> QED BY <1>0, <1>1, LeastNat
  <1>3. m # 0 /\ m \in 0..N /\ m \notin I
    OBVIOUS
  <1>4. m - 1 \in 0..(N - 1) /\ m - 1 \in 0..N /\ (m - 1) + 1 = m
    BY <1>3
  <1>5. m - 1 \in I
    BY <1>2, <1>4
  <1> QED BY <1>3, <1>4, <1>5

(* The same from what is known of all that is smaller. *)
LEMMA FromBelow ==
    ASSUME NEW I, NEW N \in Nat, \A n \in 0..N : (\A m \in 0..(n - 1) : m \in I) => n \in I
    PROVE  0..N \subseteq I
  <1> DEFINE J == {n \in 0..N : n \notin I}
  <1>1. SUFFICES ASSUME J # {} PROVE FALSE
    OBVIOUS
  <1>0. J \in SUBSET Nat
    OBVIOUS
  <1>2. PICK m \in J : \A n \in J : m <= n
    <2> HIDE DEF J
    <2> QED BY <1>0, <1>1, LeastNat
  <1>3. \A n \in 0..(m - 1) : n \in 0..N /\ ~(m <= n)
    OBVIOUS
  <1>4. \A n \in 0..(m - 1) : n \in I
    BY <1>2, <1>3
  <1> QED BY <1>4

(***************************************************************************)
(* Phi takes a function to the one that its recursive definition makes of  *)
(* it; the value at x depends on those at smaller ones only.               *)
(***************************************************************************)
Founded(D, T, mu, N, Phi) ==
    /\ T # {} /\ N \in Nat /\ mu \in [D -> 0..N] /\ Phi \in [[D -> T] -> [D -> T]]
    /\ \A f, g \in [D -> T], x \in D :
          (\A y \in D : mu[y] < mu[x] => f[y] = g[y]) => Phi[f][x] = Phi[g][x]

LEMMA Recursion ==
    ASSUME NEW D, NEW T, NEW mu, NEW N, NEW Phi, Founded(D, T, mu, N, Phi)
    PROVE  \E f \in [D -> T] : Phi[f] = f
  <1> DEFINE F == [D -> T]
             I == {n \in Nat : \E f \in F : \A x \in D : mu[x] < n => Phi[f][x] = f[x]}
  <1>0. /\ T # {} /\ N \in Nat /\ mu \in [D -> 0..N] /\ Phi \in [[D -> T] -> [D -> T]]
        /\ \A f, g \in [D -> T], x \in D :
              (\A y \in D : mu[y] < mu[x] => f[y] = g[y]) => Phi[f][x] = Phi[g][x]
    BY DEF Founded
  <1>1. 0 \in I
    <2>1. PICK t \in T : TRUE
      BY <1>0
    <2>2. [x \in D |-> t] \in F
      OBVIOUS
    <2>3. \A x \in D : ~(mu[x] < 0)
      BY <1>0
    <2> QED BY <2>2, <2>3
  <1>2. ASSUME NEW n \in 0..N, n \in I
        PROVE  n + 1 \in I
    <2>1. n \in Nat /\ n + 1 \in Nat
      BY <1>0
    <2>2. PICK f \in F : \A x \in D : mu[x] < n => Phi[f][x] = f[x]
      BY <1>2
    <2> DEFINE g == Phi[f]
    <2>3. g \in F
      BY <1>0
    <2>4. ASSUME NEW x \in D, mu[x] < n + 1 PROVE Phi[g][x] = g[x]
      <3>1. ASSUME NEW y \in D, mu[y] < mu[x] PROVE g[y] = f[y]
        <4>1. mu[y] \in Nat /\ mu[x] \in Nat
          BY <1>0
        <4>2. mu[y] < n
          BY <2>1, <2>4, <3>1, <4>1
        <4> QED BY <2>2, <4>2
      <3> HIDE DEF g
      <3>2. Phi[g][x] = Phi[f][x]
        BY <1>0, <2>3, <3>1
      <3> QED BY <3>2 DEF g
    <2> HIDE DEF g
    <2> QED BY <2>1, <2>3, <2>4
  <1> HIDE DEF I
  <1>3. 0..(N + 1) \subseteq I
    <2>1. N + 1 \in Nat /\ (N + 1) - 1 = N
      BY <1>0
    <2> QED BY <1>1, <1>2, <2>1, Upwards
  <1>4. N + 1 \in I
    BY <1>0, <1>3
  <1>5. PICK f \in F : \A x \in D : mu[x] < N + 1 => Phi[f][x] = f[x]
    BY <1>4 DEF I
  <1>6. Phi[f] \in F /\ \A x \in D : Phi[f][x] = f[x]
    <2>1. \A x \in D : mu[x] < N + 1
      BY <1>0
    <2> QED BY <1>0, <1>5, <2>1
  <1>7. Phi[f] = f
    BY <1>6
  <1> QED BY <1>7

(* The same for a function over numbers. *)
Numbered(N, T, Phi) ==
    /\ T # {} /\ N \in Nat /\ Phi \in [[0..N -> T] -> [0..N -> T]]
    /\ \A f, g \in [0..N -> T], n \in 0..N :
          (\A m \in 0..(n - 1) : f[m] = g[m]) => Phi[f][n] = Phi[g][n]

LEMMA RecursionUpTo ==
    ASSUME NEW N, NEW T, NEW Phi, Numbered(N, T, Phi)
    PROVE  \E f \in [0..N -> T] : Phi[f] = f
  <1> DEFINE D == 0..N
             mu == [i \in D |-> i]
  <1>0. /\ T # {} /\ N \in Nat /\ Phi \in [[D -> T] -> [D -> T]]
        /\ \A f, g \in [D -> T], n \in D :
              (\A m \in 0..(n - 1) : f[m] = g[m]) => Phi[f][n] = Phi[g][n]
    BY DEF Numbered
  <1>1. mu \in [D -> 0..N]
    OBVIOUS
  <1>2. ASSUME NEW f \in [D -> T], NEW g \in [D -> T], NEW x \in D,
               \A y \in D : mu[y] < mu[x] => f[y] = g[y]
        PROVE  Phi[f][x] = Phi[g][x]
    <2>1. \A m \in 0..(x - 1) : m \in D /\ mu[m] < mu[x]
      BY <1>0
    <2>2. \A m \in 0..(x - 1) : f[m] = g[m]
      BY <1>2, <2>1
    <2> QED BY <1>0, <2>2
  <1>3. Founded(D, T, mu, N, Phi)
    <2> HIDE DEF D, mu
    <2> QED BY <1>0, <1>1, <1>2 DEF Founded
  <1> HIDE DEF D, mu
  <1>4. \E f \in [D -> T] : Phi[f] = f
    BY <1>3, Recursion
  <1> QED BY <1>4 DEF D

-----------------------------------------------------------------------------
(* Pieces of a pattern *)

LEMMA MinIs ==
    ASSUME NEW I \in SUBSET Nat, I # {}
    PROVE  Min(I) \in I /\ \A n \in I : Min(I) <= n
  <1>1. \E m \in I : \A n \in I : m <= n
    BY LeastNat
  <1> QED BY <1>1 DEF Min

LEMMA MaxIs ==
    ASSUME NEW N \in Nat, NEW I \in SUBSET (0..N), I # {}
    PROVE  Max(I) \in I /\ \A n \in I : n <= Max(I)
  <1> DEFINE J == {n \in 0..N : N - n \in I}
  <1>1. J \in SUBSET Nat
    OBVIOUS
  <1>2. J # {}
    <2>1. PICK n \in I : TRUE
      OBVIOUS
    <2>2. N - n \in 0..N /\ N - (N - n) = n
      OBVIOUS
    <2>3. N - n \in J
      BY <2>2
    <2> QED BY <2>3
  <1>3. PICK m \in J : \A n \in J : m <= n
    <2> HIDE DEF J
    <2> QED BY <1>1, <1>2, LeastNat
  <1>4. N - m \in I /\ m \in 0..N
    OBVIOUS
  <1>5. ASSUME NEW n \in I PROVE N - m >= n
    <2>1. N - n \in 0..N /\ N - (N - n) = n
      OBVIOUS
    <2>2. N - n \in J
      BY <2>1
    <2>3. m <= N - n
      BY <1>3, <2>2
    <2> QED BY <1>4, <2>3
  <1>6. Max(I) \in I /\ \A n \in I : Max(I) >= n
    BY <1>4, <1>5 DEF Max
  <1> QED BY <1>6

LEMMA LastCutIs ==
    ASSUME NEW S, NEW s \in Seq(S), NEW cuts, NEW i \in 1..(Len(s) + 1)
    PROVE  /\ LastCut(s, cuts, i) \in 0..(i - 1)
           /\ LastCut(s, cuts, i) # 0 => s[LastCut(s, cuts, i)] \in cuts
           /\ \A k \in (LastCut(s, cuts, i) + 1)..(i - 1) : s[k] \notin cuts
           /\ i # 1 /\ s[i - 1] \in cuts => LastCut(s, cuts, i) = i - 1
  <1> DEFINE I == {0} \cup {k \in 1..(i - 1) : s[k] \in cuts}
             m == Max(I)
  <1>1. I \in SUBSET (0..(i - 1)) /\ I # {} /\ i - 1 \in Nat
    OBVIOUS
  <1>2. m \in I /\ \A n \in I : n <= m
    <2> HIDE DEF I
    <2> QED BY <1>1, MaxIs
  <1>3. m = LastCut(s, cuts, i)
    BY DEF LastCut
  <1> HIDE DEF m
  <1>4. m \in 0..(i - 1) /\ (m # 0 => s[m] \in cuts)
    BY <1>2
  <1>5. \A k \in (m + 1)..(i - 1) : s[k] \notin cuts
    <2>1. ASSUME NEW k \in (m + 1)..(i - 1), s[k] \in cuts PROVE FALSE
      <3>1. k \in 1..(i - 1) /\ ~(k <= m)
        BY <1>4
      <3> QED BY <1>2, <2>1, <3>1
    <2> QED BY <2>1
  <1>6. i # 1 /\ s[i - 1] \in cuts => m = i - 1
    <2>1. ASSUME i # 1, s[i - 1] \in cuts PROVE m = i - 1
      <3>1. i - 1 \in 1..(i - 1)
        BY <2>1
      <3>2. i - 1 <= m
        BY <1>2, <2>1, <3>1
      <3> QED BY <1>4, <3>2
    <2> QED BY <2>1
  <1> QED BY <1>3, <1>4, <1>5, <1>6

LEMMA PieceIs ==
    ASSUME NEW S, NEW s \in Seq(S), NEW cuts, NEW i \in 1..(Len(s) + 1)
    PROVE  /\ Piece(s, cuts, i) \in Seq(S)
           /\ Len(Piece(s, cuts, i)) = i - 1 - LastCut(s, cuts, i)
           /\ \A t \in 1..(i - 1 - LastCut(s, cuts, i)) :
                 Piece(s, cuts, i)[t] = s[LastCut(s, cuts, i) + t]
  <1> DEFINE b == LastCut(s, cuts, i)
  <1>1. b \in 0..(i - 1)
    BY LastCutIs
  <1>2. Piece(s, cuts, i) = SubSeq(s, b + 1, i - 1)
    BY DEF Piece
  <1> HIDE DEF b
  <1>3. /\ SubSeq(s, b + 1, i - 1) \in Seq(S) /\ Len(SubSeq(s, b + 1, i - 1)) = i - 1 - b
        /\ \A t \in 1..(i - 1 - b) : SubSeq(s, b + 1, i - 1)[t] = s[b + t]
    BY <1>1
  <1> QED BY <1>2, <1>3 DEF b

-----------------------------------------------------------------------------
(* The segments of a rule are not empty *)

Names == Seq(STRING) \ {<<>>}

Splitting(f, pattern, i) ==
    IF i = 0 THEN <<>>
    ELSE IF /\ i \in DOMAIN pattern => pattern[i] \in Slashes
            /\ Piece(pattern, Slashes, i) # <<>>
    THEN Append(f[i - 1], Piece(pattern, Slashes, i))
    ELSE f[i - 1]

LEMMA SplittingType ==
    ASSUME NEW pattern \in Seq(STRING), NEW f, NEW i \in 0..(Len(pattern) + 1),
           i # 0 => f[i - 1] \in Seq(Names)
    PROVE  Splitting(f, pattern, i) \in Seq(Names)
  <1>1. ASSUME i # 0, Piece(pattern, Slashes, i) # <<>>
        PROVE  Piece(pattern, Slashes, i) \in Names
    <2>1. i \in 1..(Len(pattern) + 1)
      BY <1>1
    <2> QED BY <1>1, <2>1, PieceIs DEF Names
  <1>2. CASE i = 0
    BY <1>2 DEF Splitting
  <1>3. CASE i # 0
    <2> DEFINE e == Piece(pattern, Slashes, i)
    <2>1. f[i - 1] \in Seq(Names) /\ (e # <<>> => e \in Names)
      BY <1>1, <1>3
    <2> HIDE DEF e
    <2>2. e # <<>> => Append(f[i - 1], e) \in Seq(Names)
      BY <2>1
    <2> QED BY <1>3, <2>1, <2>2 DEF Splitting, e
  <1> QED BY <1>2, <1>3

LEMMA SegmentsIs ==
    ASSUME NEW pattern \in Seq(STRING)
    PROVE  Segments(pattern) = [i \in 0..(Len(pattern) + 1) |-> Splitting(Segments(pattern), pattern, i)]
  <1> DEFINE N == Len(pattern) + 1
             T == Seq(Names)
             Phi == [f \in [0..N -> T] |-> [i \in 0..N |-> Splitting(f, pattern, i)]]
  <1>1. ASSUME NEW f \in [0..N -> T], NEW i \in 0..N PROVE Splitting(f, pattern, i) \in T
    <2>1. i # 0 => i - 1 \in 0..N
      OBVIOUS
    <2>2. i # 0 => f[i - 1] \in T
      BY <2>1
    <2> QED BY <2>2, SplittingType
  <1>2. Phi \in [[0..N -> T] -> [0..N -> T]]
    BY <1>1
  <1>3. ASSUME NEW f \in [0..N -> T], NEW g \in [0..N -> T], NEW n \in 0..N,
               \A m \in 0..(n - 1) : f[m] = g[m]
        PROVE  Phi[f][n] = Phi[g][n]
    <2>1. n # 0 => n - 1 \in 0..(n - 1)
      OBVIOUS
    <2>2. n # 0 => f[n - 1] = g[n - 1]
      BY <1>3, <2>1
    <2> QED BY <2>2 DEF Splitting
  <1>4. N \in Nat /\ T # {}
    <2>1. N \in Nat /\ <<>> \in T
      OBVIOUS
    <2> HIDE DEF T, N
    <2> QED BY <2>1
  <1>5. PICK f \in [0..N -> T] : Phi[f] = f
    <2> HIDE DEF N, T, Phi
    <2>1. Numbered(N, T, Phi)
      BY <1>2, <1>3, <1>4 DEF Numbered
    <2> QED BY <2>1, RecursionUpTo
  <1>6. f = [i \in 0..N |-> Splitting(f, pattern, i)]
    BY <1>5
  <1>7. Segments(pattern) = CHOOSE g : g = [i \in 0..N |-> Splitting(g, pattern, i)]
    BY DEF Segments, Splitting
  <1> QED BY <1>6, <1>7

LEMMA RuleType ==
    ASSUME NEW pattern \in Seq(STRING)
    PROVE  /\ Rule(pattern).segments \in Seq(Names)
           /\ IsBareName(Rule(pattern)) => ~Rule(pattern).directory_prefix
  <1> DEFINE f == Segments(pattern)
             N == Len(pattern) + 1
             I == {i \in 0..N : f[i] \in Seq(Names)}
  <1>1. f = [i \in 0..N |-> Splitting(f, pattern, i)] /\ N \in Nat
    BY SegmentsIs
  <1> HIDE DEF f
  <1>2. 0 \in I
    BY <1>1, SplittingType
  <1>3. ASSUME NEW n \in 0..(N - 1), n \in I PROVE n + 1 \in I
    <2>1. n + 1 \in 0..N /\ (n + 1) - 1 = n
      BY <1>1
    <2>2. f[n + 1] = Splitting(f, pattern, n + 1) /\ f[(n + 1) - 1] \in Seq(Names)
      BY <1>1, <1>3, <2>1
    <2> QED BY <2>1, <2>2, SplittingType
  <1>4. 0..N \subseteq I
    <2> HIDE DEF I, N
    <2> QED BY <1>1, <1>2, <1>3, Upwards
  <1>5. f[N] \in Seq(Names)
    BY <1>1, <1>4
  <1>6. Rule(pattern).segments = f[N]
    BY DEF Rule, f
  <1>7. ASSUME pattern # <<>>, Last(pattern) = "/" PROVE Contains(pattern, "/")
    <2>1. Len(pattern) \in DOMAIN pattern
      BY <1>7
    <2> QED BY <1>7, <2>1 DEF Last, Contains
  <1> QED BY <1>5, <1>6, <1>7 DEF IsBareName, Rule

-----------------------------------------------------------------------------
(* What StandFor computes *)

Grid(n, m) == SUBSET ((1..n) \X (1..m))
Counts(m) == SUBSET (0..m)

Standing(f, m, wide, fits, i) ==
    IF i = 0 THEN {0}
    ELSE IF i \in wide THEN UNION {k..m : k \in f[i - 1]}
    ELSE {k + 1 : k \in {j \in f[i - 1] : <<i, j + 1>> \in fits}}

LEMMA StandingType ==
    ASSUME NEW n \in Nat, NEW m \in Nat, NEW wide, NEW fits \in Grid(n, m),
           NEW f, NEW i \in 0..n, i # 0 => f[i - 1] \in Counts(m)
    PROVE  /\ Standing(f, m, wide, fits, i) \in Counts(m)
           /\ i = 0 => Standing(f, m, wide, fits, i) = {0}
           /\ i # 0 /\ i \in wide =>
                 \A j \in 0..m : j \in Standing(f, m, wide, fits, i) <=> \E k \in f[i - 1] : k <= j
           /\ i # 0 /\ i \notin wide =>
                 \A j \in 0..m : j \in Standing(f, m, wide, fits, i) <=>
                                    j # 0 /\ j - 1 \in f[i - 1] /\ <<i, j>> \in fits
  <1> USE DEF Grid, Counts
  <1>1. CASE i = 0
    BY <1>1 DEF Standing
  <1>2. CASE i # 0 /\ i \in wide
    <2>1. Standing(f, m, wide, fits, i) = UNION {k..m : k \in f[i - 1]}
      BY <1>2 DEF Standing
    <2>2. \A k \in f[i - 1] : k \in 0..m
      BY <1>2
    <2>3. UNION {k..m : k \in f[i - 1]} \in SUBSET (0..m)
      BY <2>2
    <2>4. \A j \in 0..m : j \in UNION {k..m : k \in f[i - 1]} <=> \E k \in f[i - 1] : k <= j
      BY <2>2
    <2> QED BY <1>2, <2>1, <2>3, <2>4
  <1>3. CASE i # 0 /\ i \notin wide
    <2> DEFINE S == {k + 1 : k \in {j \in f[i - 1] : <<i, j + 1>> \in fits}}
    <2>1. Standing(f, m, wide, fits, i) = S
      BY <1>3 DEF Standing
    <2>2. \A k \in f[i - 1] : k \in 0..m
      BY <1>3
    <2>3. \A k \in f[i - 1] : <<i, k + 1>> \in fits => k + 1 \in 0..m
      OBVIOUS
    <2>4. S \in SUBSET (0..m)
      BY <2>3
    <2>5. ASSUME NEW j \in 0..m
          PROVE  j \in S <=> j # 0 /\ j - 1 \in f[i - 1] /\ <<i, j>> \in fits
      <3>1. ASSUME j \in S PROVE j # 0 /\ j - 1 \in f[i - 1] /\ <<i, j>> \in fits
        <4>1. PICK k \in f[i - 1] : <<i, k + 1>> \in fits /\ j = k + 1
          BY <3>1
        <4>2. k \in Nat /\ j - 1 = k
          BY <2>2, <4>1
        <4> QED BY <4>1, <4>2
      <3>2. ASSUME j # 0, j - 1 \in f[i - 1], <<i, j>> \in fits PROVE j \in S
        <4>1. (j - 1) + 1 = j
          OBVIOUS
        <4> QED BY <3>2, <4>1
      <3> QED BY <3>1, <3>2
    <2> HIDE DEF S
    <2> QED BY <1>3, <2>1, <2>4, <2>5
  <1> QED BY <1>1, <1>2, <1>3

LEMMA StandingWide ==
    ASSUME NEW n \in Nat, NEW m \in Nat, NEW wide, NEW fits \in Grid(n, m),
           NEW f, NEW i \in 1..n, f[i - 1] \in Counts(m), i \in wide, NEW j \in 0..m
    PROVE  j \in Standing(f, m, wide, fits, i) <=> \E k \in f[i - 1] : k <= j
  <1>1. i \in 0..n /\ i # 0
    OBVIOUS
  <1>2. \A k \in 0..m : k \in Standing(f, m, wide, fits, i) <=> \E l \in f[i - 1] : l <= k
    BY <1>1, StandingType
  <1> QED BY <1>2

LEMMA StandingNarrow ==
    ASSUME NEW n \in Nat, NEW m \in Nat, NEW wide, NEW fits \in Grid(n, m),
           NEW f, NEW i \in 1..n, f[i - 1] \in Counts(m), i \notin wide, NEW j \in 0..m
    PROVE  j \in Standing(f, m, wide, fits, i) <=>
              j # 0 /\ j - 1 \in f[i - 1] /\ <<i, j>> \in fits
  <1>1. i \in 0..n /\ i # 0
    OBVIOUS
  <1> QED BY <1>1, StandingType

LEMMA StandForIs ==
    ASSUME NEW n \in Nat, NEW m \in Nat, NEW wide, NEW fits \in Grid(n, m)
    PROVE  StandFor(n, m, wide, fits) =
              [i \in 0..n |-> Standing(StandFor(n, m, wide, fits), m, wide, fits, i)]
  <1> DEFINE N == n
             T == Counts(m)
             Phi == [f \in [0..N -> T] |-> [i \in 0..N |-> Standing(f, m, wide, fits, i)]]
  <1>1. ASSUME NEW f \in [0..N -> T], NEW i \in 0..N PROVE Standing(f, m, wide, fits, i) \in T
    <2>1. i # 0 => i - 1 \in 0..N
      OBVIOUS
    <2>2. i # 0 => f[i - 1] \in T
      BY <2>1
    <2> QED BY <2>2, StandingType
  <1>2. Phi \in [[0..N -> T] -> [0..N -> T]]
    BY <1>1
  <1>3. ASSUME NEW f \in [0..N -> T], NEW g \in [0..N -> T], NEW i \in 0..N,
               \A k \in 0..(i - 1) : f[k] = g[k]
        PROVE  Phi[f][i] = Phi[g][i]
    <2>1. i # 0 => i - 1 \in 0..(i - 1)
      OBVIOUS
    <2>2. i # 0 => f[i - 1] = g[i - 1]
      BY <1>3, <2>1
    <2>3. Standing(f, m, wide, fits, i) = Standing(g, m, wide, fits, i)
      BY <2>2 DEF Standing
    <2> QED BY <2>3
  <1>4. T # {} /\ N \in Nat
    BY DEF Counts
  <1>5. PICK f \in [0..N -> T] : Phi[f] = f
    <2> HIDE DEF N, T, Phi
    <2>1. Numbered(N, T, Phi)
      BY <1>2, <1>3, <1>4 DEF Numbered
    <2> QED BY <2>1, RecursionUpTo
  <1>6. f = [i \in 0..N |-> Standing(f, m, wide, fits, i)]
    BY <1>5
  <1>7. StandFor(n, m, wide, fits) = CHOOSE g : g = [i \in 0..N |-> Standing(g, m, wide, fits, i)]
    BY DEF StandFor, Standing
  <1> QED BY <1>6, <1>7

LEMMA StandForRules ==
    ASSUME NEW n \in Nat, NEW m \in Nat, NEW wide, NEW fits \in Grid(n, m),
           NEW U, U = StandFor(n, m, wide, fits)
    PROVE  /\ U[0] = {0}
           /\ \A i \in 0..n : U[i] \in SUBSET (0..m)
           /\ \A i \in 1..n : i \in wide =>
                 \A j \in 0..m : j \in U[i] <=> \E k \in U[i - 1] : k <= j
           /\ \A i \in 1..n : i \notin wide =>
                 \A j \in 0..m : j \in U[i] <=> j # 0 /\ j - 1 \in U[i - 1] /\ <<i, j>> \in fits
  <1> DEFINE I == {i \in 0..n : U[i] \in Counts(m)}
  <1>1. U = [i \in 0..n |-> Standing(U, m, wide, fits, i)]
    BY StandForIs
  <1>2. \A i \in 0..n : U[i] = Standing(U, m, wide, fits, i)
    BY <1>1
  <1>3. U[0] = {0} /\ 0 \in I
    <2>1. 0 \in 0..n
      OBVIOUS
    <2>2. U[0] = Standing(U, m, wide, fits, 0)
      BY <1>2, <2>1
    <2>3. U[0] = {0}
      BY <2>2 DEF Standing
    <2>4. {0} \in Counts(m)
      BY DEF Counts
    <2> QED BY <2>1, <2>3, <2>4
  <1>4. ASSUME NEW i \in 0..(n - 1), i \in I PROVE i + 1 \in I
    <2>1. i + 1 \in 0..n /\ (i + 1) - 1 = i
      OBVIOUS
    <2>2. U[(i + 1) - 1] \in Counts(m)
      BY <1>4, <2>1
    <2>3. Standing(U, m, wide, fits, i + 1) \in Counts(m)
      BY <2>1, <2>2, StandingType
    <2> QED BY <1>2, <2>1, <2>3
  <1>5. 0..n \subseteq I
    <2> HIDE DEF I
    <2> QED BY <1>3, <1>4, Upwards
  <1>6. ASSUME NEW i \in 1..n
        PROVE  /\ i \in 0..n /\ U[i - 1] \in Counts(m) /\ U[i] = Standing(U, m, wide, fits, i)
               /\ i # 0
    <2>1. i \in 0..n /\ i - 1 \in 0..n /\ i # 0
      OBVIOUS
    <2> QED BY <1>2, <1>5, <2>1
  <1>7. ASSUME NEW i \in 1..n, i \in wide, NEW j \in 0..m
        PROVE  j \in U[i] <=> \E k \in U[i - 1] : k <= j
    <2>1. i \in 0..n /\ i # 0 /\ U[i - 1] \in Counts(m) /\ U[i] = Standing(U, m, wide, fits, i)
      BY <1>6
    <2>2. j \in Standing(U, m, wide, fits, i) <=> \E k \in U[i - 1] : k <= j
      BY <1>7, <2>1, StandingWide
    <2> QED BY <2>1, <2>2
  <1>8. ASSUME NEW i \in 1..n, i \notin wide, NEW j \in 0..m
        PROVE  j \in U[i] <=> j # 0 /\ j - 1 \in U[i - 1] /\ <<i, j>> \in fits
    <2>1. i \in 0..n /\ i # 0 /\ U[i - 1] \in Counts(m) /\ U[i] = Standing(U, m, wide, fits, i)
      BY <1>6
    <2>2. j \in Standing(U, m, wide, fits, i) <=> j # 0 /\ j - 1 \in U[i - 1] /\ <<i, j>> \in fits
      BY <1>8, <2>1, StandingNarrow
    <2> QED BY <2>1, <2>2
  <1> QED BY <1>3, <1>5, <1>7, <1>8 DEF Counts

-----------------------------------------------------------------------------
(* What the loop of wildcard_match computes *)

Star == {"*"}
Offsets(value) == (0..Len(value)) \cup {Missing}

Places(pattern, value, from, i) ==
    {j \in Occurrences(Piece(pattern, Star, i), value, from) : LastCut(pattern, Star, i) = 0 => j = 0}

Taking(f, pattern, value, i) ==
    IF i = 0 THEN 0
    ELSE LET from == f[LastCut(pattern, Star, i)]
             found == Places(pattern, value, from, i) IN
         IF from = Missing \/ found = {} THEN Missing ELSE Min(found) + Len(Piece(pattern, Star, i))

LEMMA PlacesAre ==
    ASSUME NEW pattern \in Seq(STRING), NEW value \in Seq(STRING),
           NEW i \in 1..(Len(pattern) + 1), NEW from \in 0..Len(value)
    PROVE  /\ Len(Piece(pattern, Star, i)) \in Nat
           /\ Places(pattern, value, from, i) \in SUBSET Nat
           /\ \A j \in Places(pattern, value, from, i) :
                 j + Len(Piece(pattern, Star, i)) \in 0..Len(value)
  <1> DEFINE part == Piece(pattern, Star, i)
  <1>1. part \in Seq(STRING)
    BY PieceIs
  <1> HIDE DEF part
  <1>2. Len(part) \in Nat
    BY <1>1
  <1>3. \A j \in Places(pattern, value, from, i) : j \in from..(Len(value) - Len(part))
    BY DEF Places, Occurrences, part
  <1>4. Len(value) \in Nat
    OBVIOUS
  <1>5. \A j \in Places(pattern, value, from, i) : j \in Nat /\ j + Len(part) \in 0..Len(value)
    BY <1>2, <1>3, <1>4
  <1> QED BY <1>2, <1>5 DEF part

LEMMA MissingIsNot == \A v \in Nat : v # Missing
  BY DEF Missing

(* The part before place i is taken where it is found first, from offset from on. *)
Takes(pattern, value, i, from, taken) ==
    LET part == Piece(pattern, Star, i)
        found == Places(pattern, value, from, i) IN
    /\ taken \in Offsets(value)
    /\ taken # Missing => from # Missing /\ \E j \in found : taken = j + Len(part)
    /\ from # Missing => \A j \in found : taken # Missing /\ taken <= j + Len(part)

LEMMA TakingIs ==
    ASSUME NEW pattern \in Seq(STRING), NEW value \in Seq(STRING),
           NEW i \in 1..(Len(pattern) + 1), NEW f, f[LastCut(pattern, Star, i)] \in Offsets(value)
    PROVE  Takes(pattern, value, i, f[LastCut(pattern, Star, i)], Taking(f, pattern, value, i))
  <1> DEFINE from == f[LastCut(pattern, Star, i)]
  <1> DEFINE part == Piece(pattern, Star, i)
             found == Places(pattern, value, from, i)
             taken == Taking(f, pattern, value, i)
  <1>1. taken = IF from = Missing \/ found = {} THEN Missing ELSE Min(found) + Len(part)
    BY DEF Taking
  <1>2. CASE from = Missing \/ found = {}
    BY <1>1, <1>2 DEF Takes, Offsets
  <1>3. CASE from # Missing /\ found # {}
    <2>1. from \in 0..Len(value)
      BY <1>3 DEF Offsets
    <2>2. Len(part) \in Nat /\ found \in SUBSET Nat /\ \A j \in found : j + Len(part) \in 0..Len(value)
      BY <2>1, PlacesAre
    <2>3. Min(found) \in found /\ \A n \in found : Min(found) <= n
      <3> HIDE DEF found
      <3> QED BY <1>3, <2>2, MinIs
    <2>4. taken = Min(found) + Len(part)
      BY <1>1, <1>3
    <2> HIDE DEF taken, found, part
    <2>5. taken \in 0..Len(value) /\ taken # Missing
      <3>1. taken \in 0..Len(value)
        BY <2>2, <2>3, <2>4
      <3>2. taken \in Nat
        BY <3>1
      <3> QED BY <3>1, <3>2, MissingIsNot
    <2>6. ASSUME NEW j \in found PROVE taken <= j + Len(part)
      <3>1. j \in Nat /\ Min(found) \in Nat /\ Min(found) <= j
        BY <2>2, <2>3
      <3> QED BY <2>2, <2>4, <3>1
    <2> QED BY <1>3, <2>3, <2>4, <2>5, <2>6 DEF Takes, Offsets, taken, found, part
  <1> QED BY <1>2, <1>3

LEMMA TakenIs ==
    ASSUME NEW pattern \in Seq(STRING), NEW value \in Seq(STRING)
    PROVE  Taken(pattern, value) =
              [i \in 0..(Len(pattern) + 1) |-> Taking(Taken(pattern, value), pattern, value, i)]
  <1> DEFINE N == Len(pattern) + 1
             T == Offsets(value)
             Phi == [f \in [0..N -> T] |-> [i \in 0..N |-> Taking(f, pattern, value, i)]]
  <1>0. ASSUME NEW i \in 0..N, i # 0
        PROVE  /\ i \in 1..N /\ LastCut(pattern, Star, i) \in 0..N
               /\ LastCut(pattern, Star, i) \in 0..(i - 1)
    <2>1. i \in 1..N
      BY <1>0
    <2>2. LastCut(pattern, Star, i) \in 0..(i - 1)
      BY <2>1, LastCutIs
    <2> QED BY <2>1, <2>2
  <1>1. ASSUME NEW f \in [0..N -> T], NEW i \in 0..N PROVE Taking(f, pattern, value, i) \in T
    <2>1. CASE i = 0
      <3>1. Taking(f, pattern, value, i) = 0 /\ Len(value) \in Nat
        BY <2>1 DEF Taking
      <3> QED BY <3>1 DEF Offsets
    <2>2. CASE i # 0
      <3>1. i \in 1..N /\ f[LastCut(pattern, Star, i)] \in T
        BY <1>0, <2>2
      <3> QED BY <3>1, TakingIs DEF Takes
    <2> QED BY <2>1, <2>2
  <1>2. Phi \in [[0..N -> T] -> [0..N -> T]]
    BY <1>1
  <1>3. ASSUME NEW f \in [0..N -> T], NEW g \in [0..N -> T], NEW i \in 0..N,
               \A k \in 0..(i - 1) : f[k] = g[k]
        PROVE  Phi[f][i] = Phi[g][i]
    <2>1. i # 0 => f[LastCut(pattern, Star, i)] = g[LastCut(pattern, Star, i)]
      BY <1>0, <1>3
    <2>2. Taking(f, pattern, value, i) = Taking(g, pattern, value, i)
      BY <2>1 DEF Taking
    <2> QED BY <2>2
  <1>4. T # {} /\ N \in Nat
    BY DEF Offsets
  <1>5. PICK f \in [0..N -> T] : Phi[f] = f
    <2> HIDE DEF N, T, Phi
    <2>1. Numbered(N, T, Phi)
      BY <1>2, <1>3, <1>4 DEF Numbered
    <2> QED BY <2>1, RecursionUpTo
  <1>6. f = [i \in 0..N |-> Taking(f, pattern, value, i)]
    BY <1>5
  <1>7. Taken(pattern, value) = CHOOSE g : g = [i \in 0..N |-> Taking(g, pattern, value, i)]
    BY DEF Taken, Taking, Places, Star
  <1> QED BY <1>6, <1>7

LEMMA TakenRules ==
    ASSUME NEW pattern \in Seq(STRING), NEW value \in Seq(STRING), NEW W, W = Taken(pattern, value)
    PROVE  /\ W[0] = 0
           /\ \A i \in 0..(Len(pattern) + 1) : W[i] \in Offsets(value)
           /\ \A i \in 1..(Len(pattern) + 1) :
                 Takes(pattern, value, i, W[LastCut(pattern, Star, i)], W[i])
  <1> DEFINE N == Len(pattern) + 1
             I == {i \in 0..N : W[i] \in Offsets(value)}
  <1>0. N \in Nat
    OBVIOUS
  <1>1. \A i \in 0..N : W[i] = Taking(W, pattern, value, i)
    BY TakenIs
  <1>2. W[0] = 0
    BY <1>0, <1>1 DEF Taking
  <1>3. ASSUME NEW i \in 1..N
        PROVE  i \in 0..N /\ LastCut(pattern, Star, i) \in 0..(i - 1) /\ LastCut(pattern, Star, i) \in 0..N
    <2>1. LastCut(pattern, Star, i) \in 0..(i - 1)
      BY LastCutIs
    <2> QED BY <2>1
  <1>4. ASSUME NEW i \in 0..N, \A k \in 0..(i - 1) : k \in I
        PROVE  i \in I
    <2>1. CASE i = 0
      BY <1>2, <2>1 DEF Offsets
    <2>2. CASE i # 0
      <3>1. i \in 1..N
        BY <2>2
      <3>2. W[LastCut(pattern, Star, i)] \in Offsets(value)
        BY <1>3, <1>4, <3>1
      <3>3. Taking(W, pattern, value, i) \in Offsets(value)
        BY <3>1, <3>2, TakingIs DEF Takes
      <3> QED BY <1>1, <3>3
    <2> QED BY <2>1, <2>2
  <1>5. 0..N \subseteq I
    <2> HIDE DEF I, N
    <2> QED BY <1>0, <1>4, FromBelow
  <1>6. ASSUME NEW i \in 1..N
        PROVE  Takes(pattern, value, i, W[LastCut(pattern, Star, i)], W[i])
    <2>1. W[LastCut(pattern, Star, i)] \in Offsets(value) /\ W[i] = Taking(W, pattern, value, i)
      BY <1>1, <1>3, <1>5
    <2> QED BY <2>1, TakingIs
  <1> QED BY <1>2, <1>5, <1>6

-----------------------------------------------------------------------------
(* wildcard_match and what a pattern means *)

Equal(p, v) == {at \in (DOMAIN p) \X (DOMAIN v) : p[at[1]] = v[at[2]]}
Fit(p, v) == StandFor(Len(p), Len(v), Stars(p), Equal(p, v))

LEMMA FitRules ==
    ASSUME NEW p \in Seq(STRING), NEW v \in Seq(STRING)
    PROVE  /\ Glob(p, v) <=> Len(v) \in Fit(p, v)[Len(p)]
           /\ Fit(p, v)[0] = {0}
           /\ \A i \in 0..Len(p) : Fit(p, v)[i] \in SUBSET (0..Len(v))
           /\ \A i \in 1..Len(p) : p[i] = "*" =>
                 \A j \in 0..Len(v) : j \in Fit(p, v)[i] <=> \E k \in Fit(p, v)[i - 1] : k <= j
           /\ \A i \in 1..Len(p) : p[i] # "*" =>
                 \A j \in 0..Len(v) :
                    j \in Fit(p, v)[i] <=> j # 0 /\ j - 1 \in Fit(p, v)[i - 1] /\ p[i] = v[j]
  <1> DEFINE n == Len(p)
             m == Len(v)
             E == Equal(p, v)
             W == Stars(p)
             U == StandFor(n, m, W, E)
  <1>1. n \in Nat /\ m \in Nat /\ DOMAIN p = 1..n /\ DOMAIN v = 1..m
    OBVIOUS
  <1>2. E \in Grid(n, m)
    BY <1>1 DEF Equal, Grid
  <1>3. \A i \in 1..n : i \in W <=> p[i] = "*"
    BY <1>1 DEF Stars
  <1>4. \A i \in 1..n, j \in 1..m : <<i, j>> \in E <=> p[i] = v[j]
    BY <1>1 DEF Equal
  <1>5. U = Fit(p, v) /\ (Glob(p, v) <=> m \in U[n])
    BY DEF Fit, Glob, Equal
  <1> HIDE DEF n, m, E, W, U
  <1>6. U = StandFor(n, m, W, E)
    BY DEF U
  <1>7. /\ U[0] = {0}
        /\ \A i \in 0..n : U[i] \in SUBSET (0..m)
        /\ \A i \in 1..n : i \in W =>
              \A j \in 0..m : j \in U[i] <=> \E k \in U[i - 1] : k <= j
        /\ \A i \in 1..n : i \notin W =>
              \A j \in 0..m : j \in U[i] <=> j # 0 /\ j - 1 \in U[i - 1] /\ <<i, j>> \in E
    BY <1>1, <1>2, <1>6, StandForRules
  <1>8. ASSUME NEW i \in 1..n, p[i] # "*", NEW j \in 0..m
        PROVE  j \in U[i] <=> j # 0 /\ j - 1 \in U[i - 1] /\ p[i] = v[j]
    <2>1. j # 0 => j \in 1..m
      BY <1>1
    <2>2. j # 0 => (<<i, j>> \in E <=> p[i] = v[j])
      BY <1>4, <2>1
    <2>3. j \in U[i] <=> j # 0 /\ j - 1 \in U[i - 1] /\ <<i, j>> \in E
      BY <1>3, <1>7, <1>8
    <2> QED BY <2>2, <2>3
  <1>9. /\ U[0] = {0}
        /\ \A i \in 0..n : U[i] \in SUBSET (0..m)
        /\ \A i \in 1..n : p[i] = "*" =>
              \A j \in 0..m : j \in U[i] <=> \E k \in U[i - 1] : k <= j
    BY <1>3, <1>7
  <1> QED BY <1>5, <1>8, <1>9 DEF n, m

(* A run of characters without a star, and where it lies. *)
Literal(p, b, L) == \A t \in 1..L : p[b + t] # "*"
LiesAt(p, b, L, v, j) == \A t \in 1..L : v[j + t] = p[b + t]

LEMMA LiteralFits ==
    ASSUME NEW p \in Seq(STRING), NEW v \in Seq(STRING), NEW b \in 0..Len(p), NEW L \in Nat,
           b + L <= Len(p), Literal(p, b, L), NEW j \in 0..Len(v)
    PROVE  j \in Fit(p, v)[b + L] <=> j - L \in Fit(p, v)[b] /\ LiesAt(p, b, L, v, j - L)
  <1> DEFINE m == Len(v)
             n == Len(p)
             U == Fit(p, v)
             I == {d \in 0..L : \A k \in 0..m :
                      k \in U[b + d] <=> k - d \in U[b] /\ \A t \in 1..d : v[k - d + t] = p[b + t]}
  <1>0. m \in Nat /\ n \in Nat /\ b \in Nat
    OBVIOUS
  <1>1. /\ \A i \in 0..n : U[i] \in SUBSET (0..m)
        /\ \A i \in 1..n : p[i] # "*" =>
              \A k \in 0..m : k \in U[i] <=> k # 0 /\ k - 1 \in U[i - 1] /\ p[i] = v[k]
    BY FitRules
  <1> HIDE DEF U, m, n
  <1>2. 0 \in I
    <2>1. b + 0 = b /\ 1..0 = {} /\ \A k \in 0..m : k - 0 = k
      BY <1>0
    <2> QED BY <2>1
  <1>3. ASSUME NEW d \in 0..(L - 1), d \in I PROVE d + 1 \in I
    <2>0. d \in Nat /\ d + 1 \in 0..L /\ d + 1 \in 1..L /\ b + (d + 1) \in 1..n /\ (b + (d + 1)) - 1 = b + d
      BY <1>0 DEF n
    <2>1. p[b + (d + 1)] # "*"
      BY <2>0 DEF Literal
    <2>2. ASSUME NEW k \in 0..m
          PROVE  k \in U[b + (d + 1)] <=>
                    k - (d + 1) \in U[b] /\ \A t \in 1..(d + 1) : v[k - (d + 1) + t] = p[b + t]
      <3>1. k \in U[b + (d + 1)] <=> k # 0 /\ k - 1 \in U[b + d] /\ p[b + (d + 1)] = v[k]
        BY <1>1, <2>0, <2>1
      <3>2. CASE k = 0
        <4>1. k - (d + 1) \notin 0..m
          BY <1>0, <2>0, <3>2
        <4>2. U[b] \in SUBSET (0..m)
          BY <1>1 DEF n
        <4> QED BY <3>1, <3>2, <4>1, <4>2
      <3>3. CASE k # 0
        <4>0. k - 1 \in 0..m
          BY <1>0, <3>3
        <4>1. k - 1 \in U[b + d] <=> k - 1 - d \in U[b] /\ \A t \in 1..d : v[k - 1 - d + t] = p[b + t]
          BY <1>3, <4>0
        <4>2. k - (d + 1) = k - 1 - d /\ k - (d + 1) + (d + 1) = k
          BY <2>0
        <4>3. \A t : t \in 1..(d + 1) <=> t \in 1..d \/ t = d + 1
          BY <2>0
        <4>4. (\A t \in 1..(d + 1) : v[k - (d + 1) + t] = p[b + t]) <=>
                 (\A t \in 1..d : v[k - 1 - d + t] = p[b + t]) /\ v[k] = p[b + (d + 1)]
          BY <4>2, <4>3
        <4> QED BY <3>1, <3>3, <4>1, <4>2, <4>4
      <3> QED BY <3>2, <3>3
    <2> QED BY <2>0, <2>2
  <1>4. 0..L \subseteq I
    <2> HIDE DEF I
    <2> QED BY <1>2, <1>3, Upwards
  <1>5. L \in I /\ j \in 0..m
    <2>1. L \in 0..L
      OBVIOUS
    <2>2. L \in I
      <3> HIDE DEF I
      <3> QED BY <1>4, <2>1
    <2> QED BY <2>2 DEF m
  <1> QED BY <1>5 DEF U, LiesAt

LEMMA OccurrencesAre ==
    ASSUME NEW part \in Seq(STRING), NEW v \in Seq(STRING), NEW from \in Nat, NEW j
    PROVE  j \in Occurrences(part, v, from) <=>
              /\ j \in Nat /\ from <= j /\ j + Len(part) <= Len(v)
              /\ \A t \in 1..Len(part) : v[j + t] = part[t]
  <1> DEFINE L == Len(part)
  <1>0. L \in Nat /\ Len(v) \in Nat
    OBVIOUS
  <1>1. j \in from..(Len(v) - L) <=> j \in Nat /\ from <= j /\ j + L <= Len(v)
    BY <1>0
  <1>2. ASSUME j \in Nat, j + L <= Len(v)
        PROVE  SubSeq(v, j + 1, j + L) = part <=> \A t \in 1..L : v[j + t] = part[t]
    <2> DEFINE s == SubSeq(v, j + 1, j + L)
    <2>1. s \in Seq(STRING) /\ Len(s) = L /\ \A t \in 1..L : s[t] = v[j + t]
      BY <1>0, <1>2
    <2> HIDE DEF s
    <2>2. s = part <=> \A t \in 1..L : s[t] = part[t]
      BY <2>1
    <2> QED BY <2>1, <2>2 DEF s
  <1> QED BY <1>1, <1>2 DEF Occurrences

(* The piece before place i, as LiteralFits and Places know it. *)
LEMMA PieceFits ==
    ASSUME NEW p \in Seq(STRING), NEW v \in Seq(STRING), NEW i \in 1..(Len(p) + 1),
           NEW b, b = LastCut(p, Star, i), NEW L, L = Len(Piece(p, Star, i))
    PROVE  /\ b \in 0..(i - 1) /\ b \in Nat /\ L \in Nat /\ (b # 0 => p[b] = "*")
           /\ \A j \in 0..Len(v) : j \in Fit(p, v)[i - 1] <=>
                 j - L \in Fit(p, v)[b] /\ j - L \in Occurrences(Piece(p, Star, i), v, 0)
           /\ \A from \in Nat : \A j : j \in Occurrences(Piece(p, Star, i), v, from) <=>
                 j \in Occurrences(Piece(p, Star, i), v, 0) /\ from <= j
           /\ \A j \in Occurrences(Piece(p, Star, i), v, 0) : j \in Nat /\ j + L \in 0..Len(v)
  <1> DEFINE part == Piece(p, Star, i)
  <1>1. /\ b \in 0..(i - 1) /\ (b # 0 => p[b] \in Star) /\ \A k \in (b + 1)..(i - 1) : p[k] \notin Star
    BY LastCutIs
  <1>2. part \in Seq(STRING) /\ L = i - 1 - b /\ \A t \in 1..(i - 1 - b) : part[t] = p[b + t]
    BY PieceIs
  <1> HIDE DEF part
  <1>3. b \in Nat /\ L \in Nat /\ b + L = i - 1 /\ b \in 0..Len(p) /\ b + L <= Len(p) /\ Len(v) \in Nat
    BY <1>1, <1>2
  <1>4. \A t \in 1..L : b + t \in (b + 1)..(i - 1)
    BY <1>3
  <1>5. \A t \in 1..L : p[b + t] # "*" /\ part[t] = p[b + t]
    BY <1>1, <1>2, <1>4 DEF Star
  <1>6. L = Len(part)
    BY DEF part
  <1>7. \A from \in Nat : \A j : j \in Occurrences(part, v, from) <=>
              /\ j \in Nat /\ from <= j /\ j + L <= Len(v)
              /\ \A t \in 1..L : v[j + t] = part[t]
    <2>1. \A from \in Nat : \A j : j \in Occurrences(part, v, from) <=>
              /\ j \in Nat /\ from <= j /\ j + Len(part) <= Len(v)
              /\ \A t \in 1..Len(part) : v[j + t] = part[t]
      BY <1>2, OccurrencesAre
    <2> QED BY <1>6, <2>1
  <1>8. \A j : j \in Occurrences(part, v, 0) <=>
              /\ j \in Nat /\ j + L <= Len(v)
              /\ \A t \in 1..L : v[j + t] = part[t]
    BY <1>7
  <1>9. ASSUME NEW j \in 0..Len(v)
        PROVE  j \in Fit(p, v)[i - 1] <=> j - L \in Fit(p, v)[b] /\ j - L \in Occurrences(part, v, 0)
    <2>1. j \in Fit(p, v)[i - 1] <=> /\ j - L \in Fit(p, v)[b]
                                     /\ \A t \in 1..L : v[j - L + t] = p[b + t]
      <3>1. Literal(p, b, L)
        BY <1>5 DEF Literal
      <3>2. j \in Fit(p, v)[b + L] <=> j - L \in Fit(p, v)[b] /\ LiesAt(p, b, L, v, j - L)
        BY <1>3, <3>1, LiteralFits
      <3> QED BY <1>3, <3>2 DEF LiesAt
    <2>2. j - L + L <= Len(v)
      BY <1>3
    <2>3. j - L \in Fit(p, v)[b] => j - L \in Nat
      BY <1>3, FitRules
    <2> QED BY <1>5, <1>8, <2>1, <2>2, <2>3
  <1>10. \A from \in Nat : \A j : j \in Occurrences(part, v, from) <=>
                                    j \in Occurrences(part, v, 0) /\ from <= j
    BY <1>7, <1>8
  <1>11. \A j \in Occurrences(part, v, 0) : j \in Nat /\ j + L \in 0..Len(v)
    BY <1>3, <1>8
  <1> QED BY <1>1, <1>3, <1>9, <1>10, <1>11 DEF part, Star

(***************************************************************************)
(* What is taken is the least that the pattern up to place i can stand     *)
(* for, and something is if it can stand for anything.                     *)
(***************************************************************************)
LEMMA TakenIsLeast ==
    ASSUME NEW p \in Seq(STRING), NEW v \in Seq(STRING), NEW i \in 1..(Len(p) + 1)
    PROVE  /\ Taken(p, v)[i] # Missing => Taken(p, v)[i] \in Fit(p, v)[i - 1]
           /\ \A j \in Fit(p, v)[i - 1] : Taken(p, v)[i] # Missing /\ Taken(p, v)[i] <= j
  <1> DEFINE W == Taken(p, v)
             U == Fit(p, v)
             N == Len(p) + 1
             Least(k) == /\ W[k] # Missing => W[k] \in U[k - 1]
                         /\ \A j \in U[k - 1] : W[k] # Missing /\ W[k] <= j
             I == {k \in 0..N : k # 0 => Least(k)}
  <1>0. N \in Nat /\ Len(v) \in Nat
    OBVIOUS
  <1>1. /\ W[0] = 0
        /\ \A k \in 0..N : W[k] \in Offsets(v)
        /\ \A k \in 1..N : Takes(p, v, k, W[LastCut(p, Star, k)], W[k])
    BY TakenRules
  <1>2. /\ U[0] = {0}
        /\ \A k \in 0..Len(p) : U[k] \in SUBSET (0..Len(v))
        /\ \A k \in 1..Len(p) : p[k] = "*" =>
              \A j \in 0..Len(v) : j \in U[k] <=> \E h \in U[k - 1] : h <= j
    BY FitRules
  <1> HIDE DEF W, U
  <1>3. ASSUME NEW k \in 0..N, \A h \in 0..(k - 1) : h \in I, k # 0
        PROVE  Least(k)
    <2> DEFINE b == LastCut(p, Star, k)
               part == Piece(p, Star, k)
               L == Len(part)
               from == W[b]
    <2>0. k \in 1..N
      BY <1>3
    <2>1. /\ b \in 0..(k - 1) /\ b \in Nat /\ L \in Nat /\ (b # 0 => p[b] = "*")
          /\ \A j \in 0..Len(v) : j \in U[k - 1] <=>
                 j - L \in U[b] /\ j - L \in Occurrences(part, v, 0)
          /\ \A x \in Nat : \A j : j \in Occurrences(part, v, x) <=>
                 j \in Occurrences(part, v, 0) /\ x <= j
          /\ \A j \in Occurrences(part, v, 0) : j \in Nat /\ j + L \in 0..Len(v)
      BY <2>0, PieceFits DEF U
    <2>2. Takes(p, v, k, from, W[k])
      BY <1>1, <2>0
    <2>3. from \in Offsets(v) /\ b \in 0..N
      BY <1>1, <2>0, <2>1
    <2>4. from # Missing => from \in Nat
      BY <2>3 DEF Offsets
    <2>5. \A j : j \in Places(p, v, from, k) <=> j \in Occurrences(part, v, from) /\ (b = 0 => j = 0)
      BY DEF Places
    <2> HIDE DEF b, part, from, L
    <2>6. W[k] # Missing => from # Missing /\ \E j \in Places(p, v, from, k) : W[k] = j + L
      BY <2>2 DEF Takes, part, L
    <2>7. from # Missing => \A j \in Places(p, v, from, k) : W[k] # Missing /\ W[k] <= j + L
      BY <2>2 DEF Takes, part, L
    <2>8. k - 1 \in 0..Len(p)
      BY <2>0
    <2>9. U[k - 1] \in SUBSET (0..Len(v))
      BY <1>2, <2>8
    (* What can be reached before the part, and how far from on. *)
    <2>10. /\ from # Missing => \A j \in 0..Len(v) : from <= j /\ (b = 0 => j = 0) => j \in U[b]
           /\ \A j \in U[b] : from # Missing /\ from <= j /\ (b = 0 => j = 0)
      <3>1. CASE b = 0
        <4>1. U[b] = {0} /\ from = 0
          BY <1>1, <1>2, <3>1 DEF from
        <4>2. from # Missing
          BY <4>1, MissingIsNot
        <4> QED BY <3>1, <4>1, <4>2
      <3>2. CASE b # 0
        <4>1. Least(b)
          BY <1>3, <2>1, <3>2
        <4>2. b \in 1..Len(p) /\ p[b] = "*" /\ b \in 0..Len(p) /\ b - 1 \in 0..Len(p)
          BY <2>0, <2>1, <3>2
        <4>3. U[b] \in SUBSET (0..Len(v)) /\ U[b - 1] \in SUBSET (0..Len(v))
          BY <1>2, <4>2
        <4>4. \A j \in 0..Len(v) : j \in U[b] <=> \E h \in U[b - 1] : h <= j
          BY <1>2, <4>2
        <4>5. from # Missing => from \in U[b - 1]
          BY <4>1 DEF from
        <4>6. \A h \in U[b - 1] : from # Missing /\ from <= h
          BY <4>1 DEF from
        <4>7. ASSUME NEW j \in U[b] PROVE from # Missing /\ from <= j
          <5>1. PICK h \in U[b - 1] : h <= j
            BY <4>3, <4>4
          <5>2. h \in Nat /\ j \in Nat /\ from # Missing /\ from <= h /\ from \in Nat
            BY <2>4, <4>3, <4>6
          <5> QED BY <5>1, <5>2
        <4> QED BY <3>2, <4>4, <4>5, <4>7
      <3> QED BY <3>1, <3>2
    <2>11. ASSUME W[k] # Missing PROVE W[k] \in U[k - 1]
      <3>1. PICK j \in Places(p, v, from, k) : W[k] = j + L
        BY <2>6, <2>11
      <3>2. from # Missing /\ from \in Nat
        BY <2>4, <2>6, <2>11
      <3>3. j \in Occurrences(part, v, 0) /\ from <= j /\ (b = 0 => j = 0)
        BY <2>1, <2>5, <3>1, <3>2
      <3>4. j \in Nat /\ j + L \in 0..Len(v)
        BY <2>1, <3>3
      <3>5. j \in 0..Len(v) /\ (j + L) - L = j
        BY <1>0, <2>1, <3>4
      <3>6. j \in U[b]
        BY <2>10, <3>2, <3>3, <3>5
      <3> QED BY <2>1, <3>1, <3>3, <3>4, <3>5, <3>6
    <2>12. ASSUME NEW j \in U[k - 1] PROVE W[k] # Missing /\ W[k] <= j
      <3>0. j \in 0..Len(v)
        BY <2>9
      <3>1. j - L \in U[b] /\ j - L \in Occurrences(part, v, 0)
        BY <2>1, <3>0
      <3>2. from # Missing /\ from <= j - L /\ (b = 0 => j - L = 0) /\ from \in Nat
        BY <2>4, <2>10, <3>1
      <3>3. j - L \in Places(p, v, from, k)
        BY <2>1, <2>5, <3>1, <3>2
      <3>4. (j - L) + L = j
        BY <2>1, <3>0
      <3>5. W[k] # Missing /\ W[k] <= (j - L) + L
        BY <2>7, <3>2, <3>3
      <3> QED BY <3>4, <3>5
    <2> QED BY <2>11, <2>12
  <1>4. \A k \in 0..N : (\A h \in 0..(k - 1) : h \in I) => k \in I
    BY <1>3
  <1>5. 0..N \subseteq I
    <2> HIDE DEF I, N
    <2> QED BY <1>0, <1>4, FromBelow
  <1>6. i \in 0..N /\ i # 0
    OBVIOUS
  <1>7. Least(i)
    BY <1>5, <1>6
  <1> QED BY <1>7 DEF W, U

(***************************************************************************)
(* wildcard_match accepts only what the pattern means, and all of it but   *)
(* for a name in which the last literal lies twice.                        *)
(***************************************************************************)
LEMMA WildcardIsGlob ==
    ASSUME NEW p \in Names, NEW v \in Seq(STRING)
    PROVE  /\ WildcardMatch(p, v) => Glob(p, v)
           /\ Glob(p, v) /\ ~Repeated(p, v) => WildcardMatch(p, v)
  <1> DEFINE n == Len(p)
             m == Len(v)
             U == Fit(p, v)
             taken == Taken(p, v)[n + 1]
             b == LastCut(p, Star, n + 1)
             part == Piece(p, Star, n + 1)
             L == Len(part)
  <1>0. p \in Seq(STRING) /\ p # <<>>
    BY DEF Names
  <1>1. n \in Nat /\ m \in Nat /\ n # 0 /\ n \in 1..n /\ n \in 0..n /\ n + 1 \in 1..(n + 1) /\ (n + 1) - 1 = n
    BY <1>0
  <1>2. /\ Glob(p, v) <=> m \in U[n]
        /\ U[0] = {0}
        /\ U[n] \in SUBSET (0..m)
        /\ p[n] = "*" => \A j \in 0..m : j \in U[n] <=> \E k \in U[n - 1] : k <= j
        /\ p[n] = "*" => U[n - 1] \in SUBSET (0..m)
    <2>1. n - 1 \in 0..n
      BY <1>1
    <2> QED BY <1>0, <1>1, <2>1, FitRules
  <1>3. /\ taken # Missing => taken \in U[n]
        /\ \A j \in U[n] : taken # Missing /\ taken <= j
    BY <1>0, <1>1, TakenIsLeast
  <1>4. /\ b \in 0..n /\ L \in Nat /\ (b # 0 => p[b] = "*")
        /\ \A j \in 0..m : j \in U[n] <=> j - L \in U[b] /\ j - L \in Occurrences(part, v, 0)
    <2> DEFINE i == n + 1
    <2>1. i \in 1..(Len(p) + 1) /\ i - 1 = n
      BY <1>1
    <2> HIDE DEF i
    <2>2. /\ LastCut(p, Star, i) \in 0..(i - 1) /\ Len(Piece(p, Star, i)) \in Nat
          /\ (LastCut(p, Star, i) # 0 => p[LastCut(p, Star, i)] = "*")
          /\ \A j \in 0..Len(v) : j \in Fit(p, v)[i - 1] <=>
                /\ j - Len(Piece(p, Star, i)) \in Fit(p, v)[LastCut(p, Star, i)]
                /\ j - Len(Piece(p, Star, i)) \in Occurrences(Piece(p, Star, i), v, 0)
      BY <1>0, <2>1, PieceFits
    <2> QED BY <2>1, <2>2 DEF i
  <1>5. WildcardMatch(p, v) <=> taken # Missing /\ (p[n] = "*" \/ taken = m)
    BY <1>0 DEF WildcardMatch, Last
  <1>6. part \in Seq(STRING) /\ L = n - b
    <2>1. part \in Seq(STRING) /\ Len(part) = (n + 1) - 1 - b
      BY <1>0, <1>1, PieceIs
    <2> HIDE DEF b, part
    <2> QED BY <1>1, <1>4, <2>1
  <1>7. b # 0 => Contains(p, "*")
    BY <1>0, <1>4 DEF Contains
  <1>8. Repeated(p, v) <=> /\ Contains(p, "*") /\ part # <<>>
                           /\ \E x, y \in Occurrences(part, v, 0) : x # y
    BY DEF Repeated, Star
  <1> HIDE DEF n, m, U, taken, b, part, L
  <1>9. ASSUME WildcardMatch(p, v) PROVE Glob(p, v)
    <2>1. taken \in U[n] /\ taken \in 0..m
      BY <1>2, <1>3, <1>5, <1>9
    <2>2. CASE p[n] = "*"
      <3>1. PICK k \in U[n - 1] : k <= taken
        BY <1>2, <2>1, <2>2
      <3>2. k \in 0..m
        BY <1>2, <2>2
      <3>3. k <= m /\ m \in 0..m
        BY <1>1, <3>2
      <3> QED BY <1>2, <2>2, <3>3
    <2>3. CASE taken = m
      BY <1>2, <2>1, <2>3
    <2> QED BY <1>5, <1>9, <2>2, <2>3
  <1>10. ASSUME Glob(p, v), ~Repeated(p, v), p[n] # "*" PROVE taken = m
    <2>1. m \in U[n] /\ taken \in U[n] /\ taken \in 0..m /\ m \in 0..m
      BY <1>1, <1>2, <1>3, <1>10
    <2>2. /\ m - L \in U[b] /\ m - L \in Occurrences(part, v, 0)
          /\ taken - L \in U[b] /\ taken - L \in Occurrences(part, v, 0)
      BY <1>4, <2>1
    <2>3. m - L = taken - L
      <3>1. CASE b = 0
        BY <1>2, <2>2, <3>1
      <3>2. CASE b # 0
        <4>1. b # n
          BY <1>4, <1>10, <3>2
        <4>2. Len(part) # 0
          BY <1>1, <1>4, <1>6, <4>1 DEF L
        <4>3. part # <<>>
          BY <1>6, <4>2
        <4> QED BY <1>7, <1>8, <1>10, <2>2, <3>2, <4>3
      <3> QED BY <3>1, <3>2
    <2> QED BY <1>1, <1>4, <2>1, <2>3
  <1>11. ASSUME Glob(p, v), ~Repeated(p, v) PROVE WildcardMatch(p, v)
    BY <1>2, <1>3, <1>5, <1>10, <1>11
  <1> QED BY <1>9, <1>11

-----------------------------------------------------------------------------
(* path_segments_match and what the segments mean *)

Globs(s, x) == {at \in (DOMAIN s) \X (DOMAIN x) : Glob(s[at[1]], x[at[2]])}
PathFit(s, x) == StandFor(Len(s), Len(x), DoubleStars(s), Globs(s, x))
Double == <<"*", "*">>

LEMMA PathFitRules ==
    ASSUME NEW s \in Seq(Names), NEW x \in Seq(Seq(STRING))
    PROVE  /\ GlobPath(s, x) <=> Len(x) \in PathFit(s, x)[Len(s)]
           /\ PathFit(s, x)[0] = {0}
           /\ \A i \in 0..Len(s) : PathFit(s, x)[i] \in SUBSET (0..Len(x))
           /\ \A i \in 1..Len(s) : s[i] = Double =>
                 \A j \in 0..Len(x) : j \in PathFit(s, x)[i] <=> \E k \in PathFit(s, x)[i - 1] : k <= j
           /\ \A i \in 1..Len(s) : s[i] # Double =>
                 \A j \in 0..Len(x) :
                    j \in PathFit(s, x)[i] <=> j # 0 /\ j - 1 \in PathFit(s, x)[i - 1] /\ Glob(s[i], x[j])
  <1> DEFINE n == Len(s)
             m == Len(x)
             E == Globs(s, x)
             W == DoubleStars(s)
             U == StandFor(n, m, W, E)
  <1>1. n \in Nat /\ m \in Nat /\ DOMAIN s = 1..n /\ DOMAIN x = 1..m
    OBVIOUS
  <1>2. E \in Grid(n, m)
    BY <1>1 DEF Globs, Grid
  <1>3. \A i \in 1..n : i \in W <=> s[i] = Double
    BY <1>1 DEF DoubleStars, Double
  <1>4. \A i \in 1..n, j \in 1..m : <<i, j>> \in E <=> Glob(s[i], x[j])
    BY <1>1 DEF Globs
  <1>5. U = PathFit(s, x) /\ (GlobPath(s, x) <=> m \in U[n])
    BY DEF PathFit, GlobPath, Globs
  <1> HIDE DEF n, m, E, W, U
  <1>6. U = StandFor(n, m, W, E)
    BY DEF U
  <1>7. /\ U[0] = {0}
        /\ \A i \in 0..n : U[i] \in SUBSET (0..m)
        /\ \A i \in 1..n : i \in W =>
              \A j \in 0..m : j \in U[i] <=> \E k \in U[i - 1] : k <= j
        /\ \A i \in 1..n : i \notin W =>
              \A j \in 0..m : j \in U[i] <=> j # 0 /\ j - 1 \in U[i - 1] /\ <<i, j>> \in E
    BY <1>1, <1>2, <1>6, StandForRules
  <1>8. ASSUME NEW i \in 1..n, s[i] # Double, NEW j \in 0..m
        PROVE  j \in U[i] <=> j # 0 /\ j - 1 \in U[i - 1] /\ Glob(s[i], x[j])
    <2>1. j # 0 => j \in 1..m
      BY <1>1
    <2>2. j # 0 => (<<i, j>> \in E <=> Glob(s[i], x[j]))
      BY <1>4, <2>1
    <2>3. j \in U[i] <=> j # 0 /\ j - 1 \in U[i - 1] /\ <<i, j>> \in E
      BY <1>3, <1>7, <1>8
    <2> QED BY <2>2, <2>3
  <1>9. /\ U[0] = {0}
        /\ \A i \in 0..n : U[i] \in SUBSET (0..m)
        /\ \A i \in 1..n : s[i] = Double =>
              \A j \in 0..m : j \in U[i] <=> \E k \in U[i - 1] : k <= j
    BY <1>3, <1>7
  <1> QED BY <1>5, <1>8, <1>9 DEF n, m

Matching(f, s, x, at) ==
    IF at[1] = Len(s) THEN at[2] = Len(x)
    ELSE IF s[at[1] + 1] = Double
    THEN f[<<at[1] + 1, at[2]>>] \/ (at[2] < Len(x) /\ f[<<at[1], at[2] + 1>>])
    ELSE /\ at[2] < Len(x) /\ WildcardMatch(s[at[1] + 1], x[at[2] + 1])
         /\ f[<<at[1] + 1, at[2] + 1>>]

LEMMA MatchFromIs ==
    ASSUME NEW s \in Seq(Names), NEW x \in Seq(Seq(STRING))
    PROVE  MatchFrom(s, x) =
              [at \in (0..Len(s)) \X (0..Len(x)) |-> Matching(MatchFrom(s, x), s, x, at)]
  <1> DEFINE n == Len(s)
             m == Len(x)
             D == (0..n) \X (0..m)
             T == BOOLEAN
             N == n + m
             mu == [a \in D |-> (n - a[1]) + (m - a[2])]
             Phi == [f \in [D -> T] |-> [at \in D |-> Matching(f, s, x, at)]]
  <1>0. n \in Nat /\ m \in Nat /\ N \in Nat
    OBVIOUS
  <1>1. ASSUME NEW f, NEW at PROVE Matching(f, s, x, at) \in BOOLEAN
    BY DEF Matching
  <1>2. Phi \in [[D -> T] -> [D -> T]]
    BY <1>1
  <1>3. mu \in [D -> 0..N]
    BY <1>0
  <1>4. ASSUME NEW f \in [D -> T], NEW g \in [D -> T], NEW a \in D,
               \A y \in D : mu[y] < mu[a] => f[y] = g[y]
        PROVE  Phi[f][a] = Phi[g][a]
    <2> DEFINE i == a[1]
               j == a[2]
    <2>1. i \in 0..n /\ j \in 0..m
      OBVIOUS
    <2>2. ASSUME NEW k \in 0..n, NEW l \in 0..m, (n - k) + (m - l) < (n - i) + (m - j)
          PROVE  f[<<k, l>>] = g[<<k, l>>]
      <3>1. <<k, l>> \in D /\ mu[<<k, l>>] < mu[a]
        BY <2>2
      <3> QED BY <1>4, <3>1
    <2> HIDE DEF i, j
    <2>3. i # n => i + 1 \in 0..n /\ (n - (i + 1)) + (m - j) < (n - i) + (m - j)
      BY <1>0, <2>1
    <2>4. j < m => j + 1 \in 0..m /\ (n - i) + (m - (j + 1)) < (n - i) + (m - j)
      BY <1>0, <2>1
    <2>5. i # n /\ j < m => (n - (i + 1)) + (m - (j + 1)) < (n - i) + (m - j)
      BY <1>0, <2>1
    <2>6. /\ i # n => f[<<i + 1, j>>] = g[<<i + 1, j>>]
          /\ j < m => f[<<i, j + 1>>] = g[<<i, j + 1>>]
          /\ i # n /\ j < m => f[<<i + 1, j + 1>>] = g[<<i + 1, j + 1>>]
      BY <2>1, <2>2, <2>3, <2>4, <2>5
    <2>7. Matching(f, s, x, a) = Matching(g, s, x, a)
      BY <2>6 DEF Matching, i, j
    <2> QED BY <2>7
  <1>5. PICK f \in [D -> T] : Phi[f] = f
    <2>1. T # {}
      OBVIOUS
    <2> HIDE DEF D, T, mu, N, Phi
    <2>2. Founded(D, T, mu, N, Phi)
      BY <1>0, <1>2, <1>3, <1>4, <2>1 DEF Founded
    <2> QED BY <2>2, Recursion
  <1>6. f = [at \in D |-> Matching(f, s, x, at)]
    BY <1>5
  <1>7. MatchFrom(s, x) = CHOOSE g : g = [at \in D |-> Matching(g, s, x, at)]
    BY DEF MatchFrom, Matching, Double
  <1> QED BY <1>6, <1>7

LEMMA MatchFromRules ==
    ASSUME NEW s \in Seq(Names), NEW x \in Seq(Seq(STRING)), NEW M, M = MatchFrom(s, x),
           NEW i \in 0..Len(s), NEW j \in 0..Len(x)
    PROVE  /\ i = Len(s) => (M[<<i, j>>] <=> j = Len(x))
           /\ i # Len(s) /\ s[i + 1] = Double =>
                 (M[<<i, j>>] <=> M[<<i + 1, j>>] \/ (j < Len(x) /\ M[<<i, j + 1>>]))
           /\ i # Len(s) /\ s[i + 1] # Double =>
                 (M[<<i, j>>] <=> /\ j < Len(x) /\ WildcardMatch(s[i + 1], x[j + 1])
                                  /\ M[<<i + 1, j + 1>>])
  <1> DEFINE at == <<i, j>>
  <1>1. M = [a \in (0..Len(s)) \X (0..Len(x)) |-> Matching(M, s, x, a)]
    BY MatchFromIs
  <1>2. at \in (0..Len(s)) \X (0..Len(x)) /\ at[1] = i /\ at[2] = j
    OBVIOUS
  <1>3. M[at] = Matching(M, s, x, at)
    BY <1>1, <1>2
  <1> HIDE DEF at
  <1>4. M[at] = IF i = Len(s) THEN j = Len(x)
                ELSE IF s[i + 1] = Double
                THEN M[<<i + 1, j>>] \/ (j < Len(x) /\ M[<<i, j + 1>>])
                ELSE j < Len(x) /\ WildcardMatch(s[i + 1], x[j + 1]) /\ M[<<i + 1, j + 1>>]
    BY <1>2, <1>3 DEF Matching
  <1> QED BY <1>4 DEF at

LEMMA MatchMeans ==
    ASSUME NEW s \in Seq(Names), NEW x \in Seq(Seq(STRING)), SegmentsMatch(s, x)
    PROVE  GlobPath(s, x)
  <1> DEFINE n == Len(s)
             m == Len(x)
             M == MatchFrom(s, x)
             U == PathFit(s, x)
             Near(i, j) == j \in U[i] \/ (i < n /\ s[i + 1] = Double /\ \E k \in U[i] : k <= j)
             I == {d \in 0..(n + m) : \A i \in 0..n, j \in 0..m :
                      (n - i) + (m - j) = d /\ M[<<i, j>>] /\ Near(i, j) => m \in U[n]}
  <1>0. n \in Nat /\ m \in Nat /\ n + m \in Nat
    OBVIOUS
  <1>1. /\ GlobPath(s, x) <=> m \in U[n]
        /\ U[0] = {0}
        /\ \A i \in 0..n : U[i] \in SUBSET (0..m)
        /\ \A i \in 1..n : s[i] = Double =>
              \A j \in 0..m : j \in U[i] <=> \E k \in U[i - 1] : k <= j
        /\ \A i \in 1..n : s[i] # Double =>
              \A j \in 0..m : j \in U[i] <=> j # 0 /\ j - 1 \in U[i - 1] /\ Glob(s[i], x[j])
    BY PathFitRules
  <1>2. \A i \in 0..n, j \in 0..m :
           /\ i = n => (M[<<i, j>>] <=> j = m)
           /\ i # n /\ s[i + 1] = Double =>
                 (M[<<i, j>>] <=> M[<<i + 1, j>>] \/ (j < m /\ M[<<i, j + 1>>]))
           /\ i # n /\ s[i + 1] # Double =>
                 (M[<<i, j>>] <=> j < m /\ WildcardMatch(s[i + 1], x[j + 1]) /\ M[<<i + 1, j + 1>>])
    BY MatchFromRules
  <1>3. \A i \in 1..n : s[i] \in Names
    OBVIOUS
  <1>4. \A j \in 1..m : x[j] \in Seq(STRING)
    OBVIOUS
  <1>a. M[<<0, 0>>]
    BY DEF SegmentsMatch
  <1> HIDE DEF n, m, M, U
  <1>5. ASSUME NEW d \in 0..(n + m), \A c \in 0..(d - 1) : c \in I,
               NEW i \in 0..n, NEW j \in 0..m, (n - i) + (m - j) = d, M[<<i, j>>], Near(i, j)
        PROVE  m \in U[n]
    <2>0. d \in Nat /\ i \in Nat /\ j \in Nat
      BY <1>0
    <2>1. CASE i = n
      <3>1. j = m
        BY <1>2, <1>5, <2>1
      <3>2. ~(i < n)
        BY <1>0, <2>1
      <3> QED BY <1>5, <2>1, <3>1, <3>2
    <2>2. ASSUME NEW k \in 0..n, NEW l \in 0..m, (n - k) + (m - l) < d, M[<<k, l>>], Near(k, l)
          PROVE  m \in U[n]
      <3> DEFINE c == (n - k) + (m - l)
      <3>1. c \in 0..(d - 1)
        BY <1>0, <2>0, <2>2
      <3>2. c \in I
        BY <1>5, <3>1
      <3> QED BY <2>2, <3>2
    <2>3. CASE i # n /\ s[i + 1] = Double
      <3>0. i < n /\ i + 1 \in 0..n /\ i + 1 \in 1..n /\ (i + 1) - 1 = i
        BY <1>0, <2>0, <2>3
      <3>1. PICK k \in U[i] : k <= j
        BY <1>5, <2>0
      <3>2. M[<<i + 1, j>>] \/ (j < m /\ M[<<i, j + 1>>])
        BY <1>2, <1>5, <2>3
      <3>3. CASE M[<<i + 1, j>>]
        <4>1. j \in U[i + 1]
          BY <1>1, <2>3, <3>0, <3>1
        <4>2. Near(i + 1, j)
          BY <4>1
        <4>3. (n - (i + 1)) + (m - j) < d
          BY <1>0, <1>5, <2>0
        <4> HIDE DEF Near
        <4> QED BY <2>2, <3>0, <3>3, <4>2, <4>3
      <3>4. CASE j < m /\ M[<<i, j + 1>>]
        <4>0. j + 1 \in 0..m
          BY <1>0, <2>0, <3>4
        <4>1. k \in 0..m
          BY <1>1
        <4>2. k <= j + 1
          BY <2>0, <3>1, <4>1
        <4>3. Near(i, j + 1)
          BY <2>3, <3>0, <4>2
        <4>4. (n - i) + (m - (j + 1)) < d
          BY <1>0, <1>5, <2>0
        <4> HIDE DEF Near
        <4> QED BY <2>2, <3>4, <4>0, <4>3, <4>4
      <3> QED BY <3>2, <3>3, <3>4
    <2>4. CASE i # n /\ s[i + 1] # Double
      <3>0. i + 1 \in 0..n /\ i + 1 \in 1..n /\ (i + 1) - 1 = i
        BY <1>0, <2>0, <2>4
      <3>1. j < m /\ WildcardMatch(s[i + 1], x[j + 1]) /\ M[<<i + 1, j + 1>>]
        BY <1>2, <1>5, <2>4
      <3>2. j + 1 \in 0..m /\ j + 1 \in 1..m /\ (j + 1) - 1 = j /\ j + 1 # 0
        <4>1. j < m
          BY <3>1
        <4> QED BY <1>0, <2>0, <4>1
      <3>3. Glob(s[i + 1], x[j + 1])
        <4>1. s[i + 1] \in Names /\ x[j + 1] \in Seq(STRING)
          BY <1>3, <1>4, <3>0, <3>2
        <4> QED BY <3>1, <4>1, WildcardIsGlob
      <3>4. j \in U[i]
        BY <1>5, <2>4
      <3>5. j + 1 \in U[i + 1]
        <4>1. j + 1 \in U[i + 1] <=>
                 j + 1 # 0 /\ (j + 1) - 1 \in U[(i + 1) - 1] /\ Glob(s[i + 1], x[j + 1])
          BY <1>1, <2>4, <3>0, <3>2
        <4> QED BY <3>0, <3>2, <3>3, <3>4, <4>1
      <3>6. Near(i + 1, j + 1)
        BY <3>5
      <3>7. (n - (i + 1)) + (m - (j + 1)) < d
        BY <1>0, <1>5, <2>0
      <3> HIDE DEF Near
      <3> QED BY <2>2, <3>0, <3>1, <3>2, <3>6, <3>7
    <2> QED BY <2>1, <2>3, <2>4
  <1>6. \A d \in 0..(n + m) : (\A c \in 0..(d - 1) : c \in I) => d \in I
    BY <1>5
  <1>7. 0..(n + m) \subseteq I
    <2> DEFINE N == n + m
    <2> HIDE DEF I, N
    <2>1. 0..N \subseteq I
      BY <1>0, <1>6, FromBelow DEF N
    <2> QED BY <2>1 DEF N
  <1>8. n + m \in I /\ 0 \in 0..n /\ 0 \in 0..m /\ (n - 0) + (m - 0) = n + m
    BY <1>0, <1>7
  <1>9. 0 \in U[0]
    BY <1>1
  <1> QED BY <1>1, <1>8, <1>9, <1>a

LEMMA MeansMatch ==
    ASSUME NEW s \in Seq(Names), NEW x \in Seq(Seq(STRING)), GlobPath(s, x),
           \A i \in 1..Len(s), j \in 1..Len(x) : ~Repeated(s[i], x[j])
    PROVE  SegmentsMatch(s, x)
  <1> DEFINE n == Len(s)
             m == Len(x)
             M == MatchFrom(s, x)
             U == PathFit(s, x)
             I == {d \in 0..n : \E j \in U[n - d] : M[<<n - d, j>>]}
  <1>0. n \in Nat /\ m \in Nat
    OBVIOUS
  <1>1. /\ m \in U[n]
        /\ U[0] = {0}
        /\ \A i \in 0..n : U[i] \in SUBSET (0..m)
        /\ \A i \in 1..n : s[i] = Double =>
              \A j \in 0..m : j \in U[i] <=> \E k \in U[i - 1] : k <= j
        /\ \A i \in 1..n : s[i] # Double =>
              \A j \in 0..m : j \in U[i] <=> j # 0 /\ j - 1 \in U[i - 1] /\ Glob(s[i], x[j])
    BY PathFitRules
  <1>2. \A i \in 0..n, j \in 0..m :
           /\ i = n => (M[<<i, j>>] <=> j = m)
           /\ i # n /\ s[i + 1] = Double =>
                 (M[<<i, j>>] <=> M[<<i + 1, j>>] \/ (j < m /\ M[<<i, j + 1>>]))
           /\ i # n /\ s[i + 1] # Double =>
                 (M[<<i, j>>] <=> j < m /\ WildcardMatch(s[i + 1], x[j + 1]) /\ M[<<i + 1, j + 1>>])
    BY MatchFromRules
  <1>3. \A i \in 1..n : s[i] \in Names
    OBVIOUS
  <1>4. \A j \in 1..m : x[j] \in Seq(STRING)
    OBVIOUS
  <1>b. \A i \in 1..n, j \in 1..m : ~Repeated(s[i], x[j])
    OBVIOUS
  <1>a. SegmentsMatch(s, x) <=> M[<<0, 0>>]
    BY DEF SegmentsMatch
  <1> HIDE DEF n, m, M, U
  <1>5. 0 \in I
    <2>1. n - 0 = n /\ n \in 0..n /\ m \in 0..m /\ 0 \in 0..n
      BY <1>0
    <2>2. M[<<n, m>>]
      BY <1>2, <2>1
    <2> QED BY <1>1, <2>1, <2>2
  <1>6. ASSUME NEW d \in 0..(n - 1), d \in I PROVE d + 1 \in I
    <2> DEFINE i == n - (d + 1)
    <2>0. /\ d + 1 \in 0..n /\ i \in 0..n /\ i + 1 = n - d /\ i + 1 \in 1..n /\ i # n
          /\ (i + 1) - 1 = i /\ i + 1 \in 0..n
      BY <1>0
    <2> HIDE DEF i
    <2>1. PICK j \in U[i + 1] : M[<<i + 1, j>>]
      BY <1>6, <2>0
    <2>2. j \in 0..m
      BY <1>1, <2>0
    <2>3. ASSUME s[i + 1] = Double PROVE \E k \in U[i] : M[<<i, k>>]
      <3>1. PICK k \in U[i] : k <= j
        BY <1>1, <2>0, <2>1, <2>2, <2>3
      <3>2. k \in 0..m /\ k \in Nat /\ j \in Nat
        BY <1>0, <1>1, <2>0, <2>2
      <3> DEFINE J == {c \in 0..j : M[<<i, j - c>>]}
      <3>3. 0 \in J
        <4>1. j - 0 = j /\ 0 \in 0..j
          BY <3>2
        <4>2. M[<<i, j>>]
          BY <1>2, <2>0, <2>1, <2>2, <2>3
        <4> QED BY <4>1, <4>2
      <3>4. ASSUME NEW c \in 0..(j - 1), c \in J PROVE c + 1 \in J
        <4> DEFINE l == j - (c + 1)
        <4>1. l \in 0..m /\ l + 1 = j - c /\ l < m /\ c + 1 \in 0..j
          BY <1>0, <2>2, <3>2
        <4> HIDE DEF l
        <4>2. M[<<i, l + 1>>]
          BY <3>4, <4>1
        <4>3. M[<<i, l>>]
          BY <1>2, <2>0, <2>3, <4>1, <4>2
        <4> QED BY <4>1, <4>3 DEF l
      <3>5. 0..j \subseteq J
        <4> HIDE DEF J
        <4> QED BY <3>2, <3>3, <3>4, Upwards
      <3>6. j - k \in 0..j /\ j - (j - k) = k
        BY <3>1, <3>2
      <3>7. M[<<i, k>>]
        BY <3>5, <3>6
      <3> QED BY <3>7
    <2>4. ASSUME s[i + 1] # Double PROVE \E k \in U[i] : M[<<i, k>>]
      <3>1. j # 0 /\ j - 1 \in U[i] /\ Glob(s[i + 1], x[j])
        BY <1>1, <2>0, <2>1, <2>2, <2>4
      <3>2. j \in 1..m /\ j - 1 \in 0..m /\ j - 1 < m /\ (j - 1) + 1 = j
        BY <1>0, <2>2, <3>1
      <3>3. ~Repeated(s[i + 1], x[j])
        BY <1>b, <2>0, <3>2
      <3>4. WildcardMatch(s[i + 1], x[j])
        BY <1>3, <1>4, <2>0, <3>1, <3>2, <3>3, WildcardIsGlob
      <3>5. M[<<i + 1, (j - 1) + 1>>] /\ WildcardMatch(s[i + 1], x[(j - 1) + 1])
        BY <2>1, <3>2, <3>4
      <3>6. M[<<i, j - 1>>]
        BY <1>2, <2>0, <2>4, <3>2, <3>5
      <3> QED BY <3>1, <3>6
    <2> QED BY <2>0, <2>3, <2>4 DEF i
  <1>7. 0..n \subseteq I
    <2> HIDE DEF I
    <2> QED BY <1>0, <1>5, <1>6, Upwards
  <1>8. n \in I /\ n - n = 0
    <2> HIDE DEF I
    <2> QED BY <1>0, <1>7
  <1>9. PICK j \in U[0] : M[<<0, j>>]
    BY <1>8
  <1>10. j = 0
    BY <1>1
  <1> QED BY <1>9, <1>10, <1>a

-----------------------------------------------------------------------------
(* Nothing that is excluded *)

(* A rule of rs matches x; none matches x or what is above; what is above. *)
Out(rs, x) == \E i \in DOMAIN rs : Matches(rs[i], x)
Admitted(rs, x) == \A n \in 1..Len(x) : ~Out(rs, SubSeq(x, 1, n))
Reached(rs, x) == \A n \in 1..(Len(x) - 1) : ~Out(rs, SubSeq(x, 1, n))

PruneInv ==
    /\ WalkType
    /\ \A i \in DOMAIN walk.entries : Admitted(rules, walk.entries[i].path)
    /\ \A k \in DOMAIN walk.pending : Admitted(rules, Relative(Root, walk.pending[k]))
    /\ \A c \in walk.children : Reached(rules, Relative(Root, c))

LEMMA ReachedChild ==
    ASSUME NEW rs, NEW R \in Paths, NEW d \in Paths, IsPrefix(R, d), Admitted(rs, Relative(R, d)),
           NEW c \in Children(d)
    PROVE  Reached(rs, Relative(R, c))
  <1> DEFINE x == Relative(R, c)
             y == Relative(R, d)
  <1>1. /\ y \in Seq(Seq(STRING)) /\ Len(x) = Len(y) + 1
        /\ \A n \in 0..Len(y) : SubSeq(x, 1, n) = SubSeq(y, 1, n)
    BY ChildPath
  <1>2. \A n \in 1..Len(y) : ~Out(rs, SubSeq(y, 1, n))
    BY DEF Admitted
  <1> HIDE DEF x, y
  <1>3. ASSUME NEW n \in 1..(Len(x) - 1)
        PROVE  ~Out(rs, SubSeq(x, 1, n))
    <2>1. n \in 0..Len(y) /\ n \in 1..Len(y)
      BY <1>1
    <2>2. SubSeq(x, 1, n) = SubSeq(y, 1, n)
      BY <1>1, <2>1
    <2>3. ~Out(rs, SubSeq(y, 1, n))
      BY <1>2, <2>1
    <2> QED BY <2>2, <2>3
  <1> QED BY <1>3 DEF Reached, x

LEMMA AdmittedAll ==
    ASSUME NEW rs, NEW x \in Seq(Seq(STRING)), Reached(rs, x), ~Out(rs, x)
    PROVE  Admitted(rs, x)
  <1>1. ASSUME NEW n \in 1..Len(x)
        PROVE  ~Out(rs, SubSeq(x, 1, n))
    <2>1. CASE n = Len(x)
      <3>1. SubSeq(x, 1, n) = x
        BY <2>1
      <3> QED BY <3>1
    <2>2. CASE n # Len(x)
      <3>1. n \in 1..(Len(x) - 1)
        BY <2>2
      <3> QED BY <3>1 DEF Reached
    <2> QED BY <2>1, <2>2
  <1> QED BY <1>1 DEF Admitted

LEMMA NextInPrune ==
    ASSUME NEW Q, NEW C, NEW E, WentOn(Q, C, E), WalkType', rules' = rules,
           \A i \in DOMAIN E : Admitted(rules, E[i].path),
           \A k \in DOMAIN Q : Admitted(rules, Relative(Root, Q[k])),
           \A c \in C : Reached(rules, Relative(Root, c))
    PROVE  PruneInv'
  <1>1. /\ walk'.roots = IF C = {} /\ Q = <<>> THEN Tail(walk.roots) ELSE walk.roots
        /\ walk'.pending = Q /\ walk'.children = C /\ walk'.entries = E
    BY DEF NextIn, WentOn
  <1>2. /\ \A k \in DOMAIN Q : Admitted(rules, Relative(Root', Q[k]))
        /\ \A c \in C : Reached(rules, Relative(Root', c))
    <2>1. CASE C = {} /\ Q = <<>>
      BY <2>1
    <2>2. CASE ~(C = {} /\ Q = <<>>)
      <3>1. Root' = Root
        BY <1>1, <2>2 DEF Root
      <3> QED BY <3>1
    <2> QED BY <2>1, <2>2
  <1> QED BY <1>1, <1>2 DEF PruneInv

LEMMA AdmittedAppend ==
    ASSUME NEW rs, NEW E \in WalkEntries, NEW e, \A i \in DOMAIN E : Admitted(rs, E[i].path),
           Admitted(rs, e.path)
    PROVE  \A i \in DOMAIN Append(E, e) : Admitted(rs, Append(E, e)[i].path)
  <1>1. /\ DOMAIN Append(E, e) = DOMAIN E \cup {Len(E) + 1} /\ Append(E, e)[Len(E) + 1] = e
        /\ \A i \in DOMAIN E : Append(E, e)[i] = E[i]
    BY DEF WalkEntries
  <1> QED BY <1>1

LEMMA AdmittedQueued ==
    ASSUME NEW rs, NEW R, NEW Q \in Seq(Paths), NEW p, NEW kind,
           \A k \in DOMAIN Q : Admitted(rs, Relative(R, Q[k])), Admitted(rs, Relative(R, p))
    PROVE  \A k \in DOMAIN Queued(Q, p, kind) : Admitted(rs, Relative(R, Queued(Q, p, kind)[k]))
  <1>1. /\ DOMAIN Append(Q, p) = DOMAIN Q \cup {Len(Q) + 1} /\ Append(Q, p)[Len(Q) + 1] = p
        /\ \A i \in DOMAIN Q : Append(Q, p)[i] = Q[i]
    OBVIOUS
  <1> QED BY <1>1 DEF Queued

(* No rule excludes the root. *)
LEMMA RootAdmitted == \A rs : Admitted(rs, <<>>) /\ ~Out(rs, <<>>)
  <1>1. \A rs : ~Out(rs, <<>>)
    BY Zenon DEF Out, Matches
  <1> QED BY <1>1 DEF Admitted

LEMMA ExcludedIsOut == \A x : Excluded(x) <=> Out(rules, x)
  BY DEF Excluded, Out

LEMMA PruneIsInvariant == WalkSpec => []PruneInv
  <1>1. WalkType /\ WalkInit => PruneInv
    BY DEF WalkInit, PruneInv
  <1>2. PruneInv /\ WalkType' /\ [WalkNext]_walkVars => PruneInv'
    <2> SUFFICES ASSUME PruneInv, WalkType', [WalkNext]_walkVars PROVE PruneInv'
      OBVIOUS
    <2>0. WalkType /\ rules' = rules
      BY Zenon DEF PruneInv, WalkNext, walkVars, Change, CaptureRoot, ReadDirectory, CaptureChild
    <2>a. CASE walk' = Failed
      <3>1. walk'.pending = <<>> /\ walk'.children = {} /\ walk'.entries = walk.entries
        BY <2>a DEF Failed
      <3> QED BY <2>0, <3>1 DEF PruneInv
    <2>b. CASE walk' = walk
      BY <2>0, <2>b DEF PruneInv, Root
    <2>c. /\ walk.entries \in WalkEntries /\ walk.pending \in Seq(Paths) /\ walk.children \subseteq Paths
          /\ \A k \in DOMAIN walk.pending : IsPrefix(Root, walk.pending[k])
          /\ \A c \in walk.children : IsPrefix(Root, c)
      BY <2>0 DEF WalkType, Under
    <2>d. /\ \A i \in DOMAIN walk.entries : Admitted(rules, walk.entries[i].path)
          /\ \A k \in DOMAIN walk.pending : Admitted(rules, Relative(Root, walk.pending[k]))
          /\ \A c \in walk.children : Reached(rules, Relative(Root, c))
      BY DEF PruneInv
    <2>2. CASE CaptureRoot /\ walk' # Failed
      <3>1. PICK kind \in Captures(Root) \ {"none"} :
               WentOn(Queued(<<>>, Root, kind), {}, Append(walk.entries, Captured(Root, kind)))
        BY <2>0, <2>2, RootSteps
      <3>2. Root \in Paths
        BY <2>0, <2>2, RootIsPath DEF CaptureRoot
      <3>3. Relative(Root, Root) = <<>>
        BY <3>2, PathsAreSequences, RelativeRoot
      <3>4. \A i \in DOMAIN Append(walk.entries, Captured(Root, kind)) :
               Admitted(rules, Append(walk.entries, Captured(Root, kind))[i].path)
        BY <2>c, <2>d, <3>3, RootAdmitted, AdmittedAppend DEF Captured
      <3>5. \A k \in DOMAIN Queued(<<>>, Root, kind) :
               Admitted(rules, Relative(Root, Queued(<<>>, Root, kind)[k]))
        <4>1. <<>> \in Seq(Paths) /\ \A k \in DOMAIN <<>> : Admitted(rules, Relative(Root, <<>>[k]))
          OBVIOUS
        <4> QED BY <3>3, <4>1, RootAdmitted, AdmittedQueued
      <3> DEFINE E == Append(walk.entries, Captured(Root, kind))
                 Q == Queued(<<>>, Root, kind)
      <3>6. \A c \in {} : Reached(rules, Relative(Root, c))
        OBVIOUS
      <3>7. /\ WentOn(Q, {}, E)
            /\ \A i \in DOMAIN E : Admitted(rules, E[i].path)
            /\ \A k \in DOMAIN Q : Admitted(rules, Relative(Root, Q[k]))
        BY <3>1, <3>4, <3>5
      <3> HIDE DEF E, Q
      <3> QED BY <2>0, <3>6, <3>7, NextInPrune
    <2>3. CASE ReadDirectory /\ walk' # Failed
      <3>1. PICK S \in Listings(Head(walk.pending)) : WentOn(Tail(walk.pending), S, walk.entries)
        BY <2>0, <2>3, ReadSteps
      <3>2. Root \in Paths /\ walk.pending # <<>>
        BY <2>0, <2>3, RootIsPath DEF ReadDirectory, WalkType
      <3>3. /\ Head(walk.pending) = walk.pending[1] /\ 1 \in DOMAIN walk.pending
            /\ \A k \in DOMAIN Tail(walk.pending) :
                  k + 1 \in DOMAIN walk.pending /\ Tail(walk.pending)[k] = walk.pending[k + 1]
        BY <2>c, <3>2
      <3>4. \A c \in S : Reached(rules, Relative(Root, c))
        BY <2>c, <2>d, <3>2, <3>3, ReachedChild, ListingsAreChildren
      <3>5. \A k \in DOMAIN Tail(walk.pending) : Admitted(rules, Relative(Root, Tail(walk.pending)[k]))
        BY <2>d, <3>3
      <3> QED BY <2>0, <2>d, <3>1, <3>4, <3>5, NextInPrune
    <2>4. CASE CaptureChild /\ walk' # Failed
      <3> DEFINE C == walk.children \ {NextChild}
      <3>1. Root \in Paths
        BY <2>0, <2>4, RootIsPath DEF CaptureChild
      <3>2. NextChild \in walk.children
        BY <2>0, <2>4, ChildSteps
      <3>3. CASE WentOn(walk.pending, C, walk.entries)
        BY <2>0, <2>d, <3>3, NextInPrune
      <3>4. ASSUME NEW kind \in Captures(NextChild), ~Excluded(Relative(Root, NextChild)),
                   WentOn(Queued(walk.pending, NextChild, kind), C,
                          Append(walk.entries, Captured(NextChild, kind)))
            PROVE  PruneInv'
        <4>1. Relative(Root, NextChild) \in Seq(Seq(STRING)) /\ ~Out(rules, Relative(Root, NextChild))
          <5>1. Relative(Root, NextChild) \in Seq(Seq(STRING))
            <6>1. NextChild \in Paths /\ IsPrefix(Root, NextChild)
              BY <2>c, <3>2
            <6> QED BY <3>1, <6>1, PathsAreSequences, RelativeIs
          <5>2. ~Out(rules, Relative(Root, NextChild))
            BY <3>4, ExcludedIsOut
          <5> QED BY <5>1, <5>2
        <4>2. Admitted(rules, Relative(Root, NextChild))
          BY <2>d, <3>2, <4>1, AdmittedAll
        <4>3. \A i \in DOMAIN Append(walk.entries, Captured(NextChild, kind)) :
                 Admitted(rules, Append(walk.entries, Captured(NextChild, kind))[i].path)
          BY <2>c, <2>d, <4>2, AdmittedAppend DEF Captured
        <4>4. \A k \in DOMAIN Queued(walk.pending, NextChild, kind) :
                 Admitted(rules, Relative(Root, Queued(walk.pending, NextChild, kind)[k]))
          BY <2>c, <2>d, <4>2, AdmittedQueued
        <4> QED BY <2>0, <2>d, <3>4, <4>3, <4>4, NextInPrune
      <3> QED BY <2>0, <2>4, <3>3, <3>4, ChildSteps
    <2> QED BY <2>0, <2>a, <2>b, <2>2, <2>3, <2>4, ChangeType DEF WalkNext, walkVars
  <1> QED BY <1>1, <1>2, WalkTypeInvariant, PTL DEF WalkSpec

-----------------------------------------------------------------------------
(* Everything else *)

Now == [tree |-> tree, touched |-> touched, rules |-> rules]

(* Something is at p, and other programs have changed nothing at or above it. *)
Steady(w, p) == w.tree[p] # "none" /\ \A i \in DOMAIN w.touched : ~IsPrefix(w.touched[i], p)

(* What the walk of root R is to capture. *)
Wanted(w, R, p) == IsPrefix(R, p) /\ Steady(w, p) /\ Admitted(w.rules, Relative(R, p))

InEntries(w, E, R, p) ==
    \E i \in DOMAIN E : E[i] = [path |-> Relative(R, p), kind |-> w.tree[p]]

(* It is captured, or a directory above it or a child at or above it is left. *)
OnWay(w, E, Q, C, R) ==
    \A p \in Paths : Wanted(w, R, p) =>
        \/ InEntries(w, E, R, p)
        \/ \E k \in DOMAIN Q : Below(Q[k], p)
        \/ \E c \in C : IsPrefix(c, p)

TreeOK == \A p, q \in Paths : Below(p, q) /\ tree[q] # "none" => tree[p] = "dir"

Walked == Len(setup.roots) - Len(walk.roots)

LossInv ==
    /\ WalkType /\ TreeOK /\ touched \in Seq(Paths)
    /\ walk.pc # "failed" =>
          /\ Walked \in Nat
          /\ walk.pc = "done" => walk.roots = <<>>
          /\ \A k \in DOMAIN walk.roots : walk.roots[k] = setup.roots[Walked + k]
          /\ \A r \in 1..Walked : OnWay(Now, walk.entries, <<>>, {}, setup.roots[r])
          /\ walk.pc \in {"directory", "child"} =>
                OnWay(Now, walk.entries, walk.pending, walk.children, Root)

LEMMA SteadyAbove ==
    ASSUME WalkType, TreeOK, NEW p \in Paths, Steady(Now, p), NEW q \in Paths, IsPrefix(q, p)
    PROVE  /\ ~Redirected(q) /\ Captures(q) = {tree[q]} /\ tree[q] # "none"
           /\ q # p => tree[q] = "dir"
           /\ q # p => Listings(q) = {{c \in Children(q) : tree[c] # "none"}}
  <1>1. tree[q] # "none" /\ (q # p => tree[q] = "dir")
    BY DEF Steady, Now, TreeOK, Below, IsStrictPrefix
  <1>2. ~Redirected(q)
    <2>1. ASSUME NEW u \in Paths, Below(u, q) PROVE tree[u] # "link"
      <3>1. tree[u] = "dir"
        BY <1>1, <2>1 DEF TreeOK
      <3> QED BY <3>1
    <2> QED BY <2>1 DEF Redirected
  <1> QED BY <1>1, <1>2 DEF Captures, Listings

(* The child of d on the way to p. *)
LEMMA ChildOnWay ==
    ASSUME NEW d \in Paths, NEW p \in Paths, Below(d, p)
    PROVE  \E c \in Children(d) : IsPrefix(c, p)
  <1> DEFINE N == Seq(STRING)
             n == Len(d) + 1
             c == SubSeq(p, 1, n)
  <1>0. d \in Seq(N) /\ p \in Seq(N)
    BY PathsAreSequences
  <1> HIDE DEF N
  <1>1. IsPrefix(d, p) /\ d # p
    BY DEF Below, IsStrictPrefix
  <1>2. Len(d) <= Len(p) /\ \A i \in 1..Len(d) : d[i] = p[i]
    BY <1>0, <1>1, PrefixIs
  <1>3. Len(d) # Len(p)
    BY <1>0, <1>1, <1>2, SameSequence
  <1>4. n \in 1..Len(p) /\ n \in 0..Len(p) /\ Len(d) \in Nat
    BY <1>0, <1>2, <1>3
  <1>5. c \in Seq(N) /\ Len(c) = n /\ \A i \in 1..n : c[i] = p[i]
    BY <1>0, <1>4, Beginnings
  <1>6. c \in Paths
    BY <1>4, WalkAssumption
  <1> HIDE DEF n, c
  <1>7. n = Len(d) + 1
    BY DEF n
  <1>8. IsPrefix(c, p)
    BY <1>0, <1>4, <1>5, PrefixIs
  <1>9. IsPrefix(d, c)
    BY <1>0, <1>2, <1>4, <1>5, <1>7, PrefixIs
  <1>10. d # c
    BY <1>4, <1>5, <1>7
  <1>11. c \in Children(d)
    BY <1>5, <1>6, <1>7, <1>9, <1>10 DEF Children, Below, IsStrictPrefix
  <1> QED BY <1>8, <1>11

LEMMA InAppend ==
    ASSUME NEW E \in WalkEntries, NEW e, NEW R, NEW p, InEntries(Now, E, R, p)
    PROVE  InEntries(Now, Append(E, e), R, p)
  <1>1. \A i \in DOMAIN E : i \in DOMAIN Append(E, e) /\ Append(E, e)[i] = E[i]
    BY DEF WalkEntries
  <1> QED BY <1>1 DEF InEntries, Now

LEMMA AppendIn ==
    ASSUME NEW E \in WalkEntries, NEW R, NEW p
    PROVE  InEntries(Now, Append(E, [path |-> Relative(R, p), kind |-> tree[p]]), R, p)
  <1> DEFINE e == [path |-> Relative(R, p), kind |-> tree[p]]
  <1>1. Len(E) + 1 \in DOMAIN Append(E, e) /\ Append(E, e)[Len(E) + 1] = e
    BY DEF WalkEntries
  <1> QED BY <1>1 DEF InEntries, Now

(* Capturing c keeps everything on its way. *)
LEMMA CaptureOnWay ==
    ASSUME WalkType, TreeOK, NEW E \in WalkEntries, NEW Q \in Seq(Paths), NEW C, NEW R \in Paths,
           NEW c \in Paths, NEW kind \in Captures(c), OnWay(Now, E, Q, C \cup {c}, R)
    PROVE  OnWay(Now, Append(E, [path |-> Relative(R, c), kind |-> kind]), Queued(Q, c, kind), C \ {c}, R)
  <1> DEFINE F == Append(E, [path |-> Relative(R, c), kind |-> kind])
             P == Queued(Q, c, kind)
  <1> SUFFICES ASSUME NEW p \in Paths, Wanted(Now, R, p)
               PROVE  \/ InEntries(Now, F, R, p)
                      \/ \E k \in DOMAIN P : Below(P[k], p)
                      \/ \E b \in C \ {c} : IsPrefix(b, p)
    BY DEF OnWay
  <1>1. CASE InEntries(Now, E, R, p)
    BY <1>1, InAppend
  <1>2. ASSUME NEW k \in DOMAIN Q, Below(Q[k], p)
        PROVE  \E m \in DOMAIN P : Below(P[m], p)
    <2>1. k \in DOMAIN P /\ P[k] = Q[k]
      BY DEF Queued
    <2> QED BY <1>2, <2>1
  <1>3. CASE IsPrefix(c, p)
    <2>1. kind = tree[c] /\ (c # p => tree[c] = "dir")
      BY <1>3, SteadyAbove DEF Wanted, Now
    <2>2. CASE c = p
      BY <2>1, <2>2, AppendIn
    <2>3. CASE c # p
      <3>1. Below(c, p) /\ kind = "dir"
        BY <1>3, <2>1, <2>3 DEF Below, IsStrictPrefix
      <3>2. Len(Q) + 1 \in DOMAIN P /\ P[Len(Q) + 1] = c
        BY <3>1 DEF Queued
      <3> QED BY <3>1, <3>2
    <2> QED BY <2>2, <2>3
  <1>4. \/ InEntries(Now, E, R, p) \/ (\E k \in DOMAIN Q : Below(Q[k], p)) \/ IsPrefix(c, p)
        \/ \E b \in C \ {c} : IsPrefix(b, p)
    BY DEF OnWay
  <1> QED BY <1>1, <1>2, <1>3, <1>4

LEMMA ReadOnWay ==
    ASSUME WalkType, TreeOK, NEW E, NEW Q \in Seq(Paths), Q # <<>>, NEW R \in Paths,
           NEW S \in Listings(Head(Q)), OnWay(Now, E, Q, {}, R)
    PROVE  OnWay(Now, E, Tail(Q), S, R)
  <1> SUFFICES ASSUME NEW p \in Paths, Wanted(Now, R, p), ~InEntries(Now, E, R, p)
               PROVE  (\E k \in DOMAIN Tail(Q) : Below(Tail(Q)[k], p)) \/ \E c \in S : IsPrefix(c, p)
    BY DEF OnWay
  <1>1. PICK k \in DOMAIN Q : Below(Q[k], p)
    BY DEF OnWay
  <1>2. CASE k # 1
    <2>1. k - 1 \in DOMAIN Tail(Q) /\ Tail(Q)[k - 1] = Q[k]
      BY <1>2
    <2> QED BY <1>1, <2>1
  <1>3. CASE k = 1
    <2>1. Head(Q) = Q[k] /\ Head(Q) \in Paths
      BY <1>3
    <2>2. PICK c \in Children(Head(Q)) : IsPrefix(c, p)
      BY <1>1, <2>1, ChildOnWay
    <2>3. c \in Paths
      BY DEF Children
    <2>4. tree[c] # "none"
      BY <2>2, <2>3, SteadyAbove DEF Wanted, Now
    <2>5. IsPrefix(Head(Q), p) /\ Head(Q) # p
      BY <1>1, <2>1 DEF Below, IsStrictPrefix
    <2>6. S = {b \in Children(Head(Q)) : tree[b] # "none"}
      BY <2>1, <2>5, SteadyAbove DEF Wanted, Now
    <2> QED BY <2>2, <2>4, <2>6
  <1> QED BY <1>2, <1>3

(* A child that is excluded is on the way to nothing. *)
LEMMA SkipOnWay ==
    ASSUME NEW E, NEW Q, NEW C \in SUBSET Paths, NEW R \in Paths, NEW c \in C, IsPrefix(R, c),
           Out(rules, Relative(R, c)), OnWay(Now, E, Q, C, R)
    PROVE  OnWay(Now, E, Q, C \ {c}, R)
  <1> SUFFICES ASSUME NEW p \in Paths, Wanted(Now, R, p), IsPrefix(c, p)
               PROVE  FALSE
    BY DEF OnWay
  <1> DEFINE N == Seq(STRING)
             x == Relative(R, c)
             y == Relative(R, p)
             n == Len(x)
  <1>0. R \in Seq(N) /\ c \in Seq(N) /\ p \in Seq(N)
    BY PathsAreSequences
  <1> HIDE DEF N
  <1>1. IsPrefix(R, p) /\ Admitted(rules, y)
    BY DEF Wanted, Now
  <1>2. /\ x \in Seq(N) /\ Len(x) = Len(c) - Len(R)
        /\ \A i \in 1..(Len(c) - Len(R)) : x[i] = c[Len(R) + i]
    BY <1>0, RelativeIs
  <1>3. /\ y \in Seq(N) /\ Len(y) = Len(p) - Len(R)
        /\ \A i \in 1..(Len(p) - Len(R)) : y[i] = p[Len(R) + i]
    BY <1>0, <1>1, RelativeIs
  <1>4. Len(c) <= Len(p) /\ (\A i \in 1..Len(c) : c[i] = p[i]) /\ Len(R) <= Len(c)
        /\ Len(R) \in Nat /\ Len(c) \in Nat /\ Len(p) \in Nat
    BY <1>0, PrefixIs
  <1>5. x # <<>>
    BY RootAdmitted
  <1> HIDE DEF x, y
  <1>6. n \in 1..Len(y) /\ n \in 0..Len(x) /\ n <= Len(y)
    BY <1>2, <1>3, <1>4, <1>5
  <1>7. \A i \in 1..n : x[i] = y[i]
    <2>1. ASSUME NEW i \in 1..n PROVE x[i] = y[i]
      <3>1. Len(R) + i \in 1..Len(c) /\ i \in 1..(Len(c) - Len(R)) /\ i \in 1..(Len(p) - Len(R))
        BY <1>2, <1>4
      <3> QED BY <1>2, <1>3, <1>4, <3>1
    <2> QED BY <2>1
  <1>8. SubSeq(y, 1, n) = x
    <2>1. SubSeq(x, 1, n) = SubSeq(y, 1, n)
      BY <1>2, <1>3, <1>6, <1>7, SameBeginning
    <2>2. SubSeq(x, 1, n) = x
      BY <1>2, <1>6, Beginnings
    <2> QED BY <2>1, <2>2
  <1>9. ~Out(rules, SubSeq(y, 1, n))
    BY <1>1, <1>6 DEF Admitted
  <1> QED BY <1>8, <1>9 DEF x

(* What was wanted after a change was wanted before it. *)
LEMMA ChangeWanted ==
    ASSUME WalkType, touched \in Seq(Paths), NEW q \in Paths, NEW kind \in Kinds, Change(q, kind),
           NEW p \in Paths, Steady(Now', p)
    PROVE  Steady(Now, p) /\ tree'[p] = tree[p]
  <1>1. touched' = Append(touched, q) /\ p \in Seq(Seq(STRING))
    BY PathsAreSequences DEF Change
  <1>2. /\ \A i \in DOMAIN touched : i \in DOMAIN touched' /\ touched'[i] = touched[i]
        /\ Len(touched) + 1 \in DOMAIN touched' /\ touched'[Len(touched) + 1] = q
    BY <1>1
  <1>3. \A i \in DOMAIN touched' : ~IsPrefix(touched'[i], p)
    BY DEF Steady, Now
  <1>4. (\A i \in DOMAIN touched : ~IsPrefix(touched[i], p)) /\ ~IsPrefix(q, p)
    BY <1>2, <1>3
  <1>5. q # p /\ ~Below(q, p)
    BY <1>1, <1>4, RelativeRoot DEF Below, IsStrictPrefix
  <1>6. tree' = [u \in Paths |-> IF u = q THEN kind ELSE IF Below(q, u) THEN "none" ELSE tree[u]]
    BY DEF Change
  <1>7. tree'[p] = tree[p]
    BY <1>5, <1>6
  <1> QED BY <1>4, <1>7 DEF Steady, Now

LEMMA ChangeTree ==
    ASSUME WalkType, TreeOK, NEW q \in Paths, NEW kind \in Kinds, Change(q, kind)
    PROVE  TreeOK'
  <1> SUFFICES ASSUME NEW a \in Paths, NEW b \in Paths, Below(a, b), tree'[b] # "none"
               PROVE  tree'[a] = "dir"
    BY DEF TreeOK, Below
  <1>1. tree' = [u \in Paths |-> IF u = q THEN kind ELSE IF Below(q, u) THEN "none" ELSE tree[u]]
    BY DEF Change
  <1>2. ~Below(q, b) \/ b = q
    BY <1>1
  <1>3. CASE b = q
    <2>1. tree[a] = "dir"
      BY <1>3 DEF Change
    <2>2. a # q
      BY <1>3 DEF Below, IsStrictPrefix
    <2>3. ~Below(q, a)
      <3>1. a \in Seq(Seq(STRING)) /\ q \in Seq(Seq(STRING))
        BY PathsAreSequences
      <3>2. IsPrefix(a, q) /\ Len(a) <= Len(q)
        BY <1>3, <3>1, PrefixIs DEF Below, IsStrictPrefix
      <3>3. ASSUME IsPrefix(q, a) PROVE a = q
        <4>1. Len(q) <= Len(a) /\ Len(a) <= Len(q) /\ \A i \in 1..Len(a) : a[i] = q[i]
          BY <3>1, <3>2, <3>3, PrefixIs
        <4>2. Len(a) = Len(q)
          BY <3>1, <4>1
        <4> QED BY <3>1, <4>1, <4>2, SameSequence
      <3> QED BY <2>2, <3>3 DEF Below, IsStrictPrefix
    <2> QED BY <1>1, <2>1, <2>2, <2>3
  <1>4. CASE b # q
    <2>1. tree'[b] = tree[b] /\ tree[a] = "dir" /\ ~Below(q, b)
      BY <1>1, <1>2, <1>4 DEF TreeOK
    <2>2. a # q
      BY <2>1
    <2>3. ~Below(q, a)
      <3>1. ASSUME IsPrefix(q, a) PROVE IsPrefix(q, b)
        <4>1. a \in Seq(Seq(STRING)) /\ b \in Seq(Seq(STRING)) /\ q \in Seq(Seq(STRING))
          BY PathsAreSequences
        <4>2. IsPrefix(a, b)
          BY DEF Below, IsStrictPrefix
        <4>3. /\ Len(q) <= Len(a) /\ \A i \in 1..Len(q) : q[i] = a[i]
              /\ Len(a) <= Len(b) /\ \A i \in 1..Len(a) : a[i] = b[i]
          BY <3>1, <4>1, <4>2, PrefixIs
        <4>4. Len(q) <= Len(b) /\ \A i \in 1..Len(q) : q[i] = b[i]
          BY <4>1, <4>3
        <4> QED BY <4>1, <4>4, PrefixIs
      <3> QED BY <1>4, <2>1, <3>1 DEF Below, IsStrictPrefix
    <2> QED BY <1>1, <2>1, <2>2, <2>3
  <1> QED BY <1>3, <1>4

(* A root is done when nothing is left of it. *)
LEMMA NextInLoss ==
    ASSUME NEW Q, NEW C, NEW E, WentOn(Q, C, E), WalkType', TreeOK, touched \in Seq(Paths),
           setup' = setup, rules' = rules, tree' = tree, touched' = touched,
           walk.roots # <<>>, walk.pc # "failed", walk.roots \in Seq(Paths), setup.roots \in Seq(Paths),
           LossInv, OnWay(Now, E, Q, C, Root),
           \A r \in 1..Walked : OnWay(Now, E, <<>>, {}, setup.roots[r])
    PROVE  LossInv'
  <1>1. /\ walk'.roots = IF C = {} /\ Q = <<>> THEN Tail(walk.roots) ELSE walk.roots
        /\ walk'.pc = IF C # {} THEN "child" ELSE IF Q # <<>> THEN "directory"
                      ELSE IF Tail(walk.roots) # <<>> THEN "root" ELSE "done"
        /\ walk'.pending = Q /\ walk'.children = C /\ walk'.entries = E
    BY DEF NextIn, WentOn
  <1>2. Now' = Now /\ TreeOK' /\ touched' \in Seq(Paths)
    BY DEF Now, TreeOK
  <1>3. Walked \in Nat /\ \A k \in DOMAIN walk.roots : walk.roots[k] = setup.roots[Walked + k]
    BY DEF LossInv
  <1>4. CASE C = {} /\ Q = <<>>
    <2>1. walk'.roots = Tail(walk.roots) /\ Len(walk'.roots) = Len(walk.roots) - 1
      BY <1>1, <1>4
    <2>2. Walked' = Walked + 1 /\ Walked \in Int
      <3>1. /\ Walked = Len(setup.roots) - Len(walk.roots)
            /\ Walked' = Len(setup.roots) - Len(walk'.roots)
        BY DEF Walked
      <3>2. Len(setup.roots) \in Int /\ Len(walk.roots) \in Int
        OBVIOUS
      <3> QED BY <2>1, <3>1, <3>2
    <2>3. \A k \in DOMAIN walk'.roots : k + 1 \in DOMAIN walk.roots /\ walk'.roots[k] = walk.roots[k + 1] /\ k \in Nat
      BY <2>1
    <2>4. \A k \in DOMAIN walk'.roots : walk'.roots[k] = setup.roots[Walked' + k]
      <3>1. ASSUME NEW k \in DOMAIN walk'.roots
            PROVE  walk'.roots[k] = setup.roots[Walked' + k]
        <4>1. walk'.roots[k] = setup.roots[Walked + (k + 1)]
          BY <1>3, <2>3
        <4>2. k \in Nat
          BY <2>3
        <4>3. Walked + (k + 1) = Walked' + k
          BY <2>2, <4>2
        <4> QED BY <4>1, <4>3
      <3> QED BY <3>1
    <2>5. Root = setup.roots[Walked + 1]
      BY <1>3 DEF Root
    <2>6. \A r \in 1..Walked' : OnWay(Now, E, <<>>, {}, setup.roots[r])
      <3>1. ASSUME NEW r \in 1..Walked' PROVE OnWay(Now, E, <<>>, {}, setup.roots[r])
        <4>1. r \in 1..Walked \/ r = Walked + 1
          BY <1>3, <2>2
        <4> QED BY <1>4, <2>5, <4>1
      <3> QED BY <3>1
    <2>7. walk'.pc \notin {"directory", "child"} /\ (walk'.pc = "done" => walk'.roots = <<>>)
      BY <1>1, <1>4, <2>1
    <2>8. Walked' \in Nat
      BY <1>3, <2>2
    <2> QED BY <1>1, <1>2, <2>4, <2>6, <2>7, <2>8 DEF LossInv
  <1>5. CASE ~(C = {} /\ Q = <<>>)
    <2>1. walk'.roots = walk.roots /\ Root' = Root /\ Walked' = Walked
      BY <1>1, <1>5 DEF Root, Walked
    <2>2. walk'.pc # "done"
      BY <1>1, <1>5
    <2> QED BY <1>1, <1>2, <1>3, <2>1, <2>2 DEF LossInv
  <1> QED BY <1>4, <1>5

LEMMA GrowingOnWay ==
    ASSUME NEW w, NEW E \in WalkEntries, NEW e, NEW R, OnWay(w, E, <<>>, {}, R)
    PROVE  OnWay(w, Append(E, e), <<>>, {}, R)
  <1>1. \A i \in DOMAIN E : i \in DOMAIN Append(E, e) /\ Append(E, e)[i] = E[i]
    BY DEF WalkEntries
  <1>2. \A p : InEntries(w, E, R, p) => InEntries(w, Append(E, e), R, p)
    BY <1>1 DEF InEntries
  <1> QED BY <1>2 DEF OnWay

LEMMA LossIsInvariant == WalkSpec => []LossInv
  <1>1. WalkType /\ WalkInit => LossInv
    <2> SUFFICES ASSUME WalkType, WalkInit PROVE LossInv
      OBVIOUS
    <2>1. setup \in Setups /\ tree = setup.tree /\ touched = <<>> /\ walk.pc = "root" /\ walk.roots = setup.roots
      BY DEF WalkInit
    <2>2. TreeOK
      BY <2>1, WalkAssumption DEF TreeOK
    <2>3. walk.roots \in Seq(Paths)
      BY <2>1, WalkAssumption
    <2>4. Walked = 0
      BY <2>1, <2>3 DEF Walked
    <2>5. \A k \in DOMAIN walk.roots : walk.roots[k] = setup.roots[Walked + k]
      BY <2>1, <2>3, <2>4
    <2> QED BY <2>1, <2>2, <2>4, <2>5 DEF LossInv
  <1>2. LossInv /\ WalkType' /\ [WalkNext]_walkVars => LossInv'
    <2> SUFFICES ASSUME LossInv, WalkType', [WalkNext]_walkVars PROVE LossInv'
      OBVIOUS
    <2>0. WalkType /\ TreeOK /\ touched \in Seq(Paths) /\ setup.roots \in Seq(Paths)
      BY WalkAssumption DEF LossInv, WalkType
    <2>1. ASSUME NEW q \in Paths, NEW kind \in Kinds, Change(q, kind)
          PROVE  LossInv'
      <3>1. TreeOK' /\ touched' \in Seq(Paths) /\ walk' = walk /\ setup' = setup /\ rules' = rules
        BY <2>0, <2>1, ChangeTree DEF Change
      <3>2. ASSUME NEW E, NEW Q, NEW C, NEW R, OnWay(Now, E, Q, C, R)
            PROVE  OnWay(Now', E, Q, C, R)
        <4>1. ASSUME NEW p \in Paths, Wanted(Now', R, p)
              PROVE  Wanted(Now, R, p) /\ (InEntries(Now, E, R, p) => InEntries(Now', E, R, p))
          <5>1. Steady(Now', p) /\ IsPrefix(R, p) /\ Admitted(rules, Relative(R, p))
            BY <3>1, <4>1 DEF Wanted, Now
          <5>2. Steady(Now, p) /\ tree'[p] = tree[p]
            BY <2>0, <2>1, <5>1, ChangeWanted
          <5> QED BY <5>1, <5>2 DEF Wanted, InEntries, Now
        <4> QED BY <3>2, <4>1 DEF OnWay
      <3>3. Root' = Root /\ Walked' = Walked
        BY <3>1 DEF Root, Walked
      <3> QED BY <3>1, <3>2, <3>3 DEF LossInv
    <2>a. CASE walk' = Failed /\ UNCHANGED <<setup, rules, tree, touched>>
      <3>1. walk'.pc = "failed"
        BY <2>a DEF Failed
      <3>2. TreeOK' /\ touched' \in Seq(Paths)
        BY <2>0, <2>a DEF TreeOK
      <3> QED BY <3>1, <3>2 DEF LossInv
    <2>b. CASE UNCHANGED walkVars
      <3>1. Now' = Now /\ TreeOK' /\ Root' = Root /\ Walked' = Walked /\ walk' = walk
            /\ touched' = touched /\ setup' = setup
        BY <2>0, <2>b DEF walkVars, Now, TreeOK, Root, Walked
      <3> QED BY <3>1 DEF LossInv
    <2>c. ASSUME walk.pc \in {"root", "directory", "child"}
          PROVE  /\ Root \in Paths /\ walk.roots # <<>> /\ walk.roots \in Seq(Paths)
                 /\ walk.pc # "failed" /\ walk.entries \in WalkEntries
                 /\ walk.pending \in Seq(Paths) /\ walk.children \in SUBSET Paths
                 /\ \A r \in 1..Walked : OnWay(Now, walk.entries, <<>>, {}, setup.roots[r])
      BY <2>0, <2>c, RootIsPath DEF WalkType, Under, LossInv
    <2>2. CASE CaptureRoot /\ walk' # Failed
      <3>0. walk.pc = "root" /\ UNCHANGED <<setup, rules, tree, touched>>
        BY <2>2 DEF CaptureRoot
      <3>1. PICK kind \in Captures(Root) \ {"none"} :
               WentOn(Queued(<<>>, Root, kind), {}, Append(walk.entries, Captured(Root, kind)))
        BY <2>0, <2>2, RootSteps
      <3> DEFINE E == Append(walk.entries, Captured(Root, kind))
                 Q == Queued(<<>>, Root, kind)
      <3>2. OnWay(Now, walk.entries, <<>>, {} \cup {Root}, Root)
        BY DEF OnWay, Wanted
      <3>3. OnWay(Now, E, Q, {} \ {Root}, Root)
        <4>1. <<>> \in Seq(Paths)
          OBVIOUS
        <4> QED BY <2>0, <2>c, <3>0, <3>2, <4>1, CaptureOnWay DEF Captured
      <3>4. \A r \in 1..Walked : OnWay(Now, E, <<>>, {}, setup.roots[r])
        BY <2>c, <3>0, GrowingOnWay
      <3>5. WentOn(Q, {}, E) /\ OnWay(Now, E, Q, {}, Root)
        BY <3>1, <3>3
      <3> HIDE DEF E, Q
      <3> QED BY <2>0, <2>c, <3>0, <3>4, <3>5, NextInLoss
    <2>3. CASE ReadDirectory /\ walk' # Failed
      <3>0. walk.pc = "directory" /\ UNCHANGED <<setup, rules, tree, touched>>
        BY <2>3 DEF ReadDirectory
      <3>1. PICK S \in Listings(Head(walk.pending)) : WentOn(Tail(walk.pending), S, walk.entries)
        BY <2>0, <2>3, ReadSteps
      <3>2. walk.pending # <<>> /\ OnWay(Now, walk.entries, walk.pending, {}, Root)
        BY <2>0, <3>0 DEF WalkType, LossInv
      <3>3. OnWay(Now, walk.entries, Tail(walk.pending), S, Root)
        BY <2>0, <2>c, <3>0, <3>2, ReadOnWay
      <3> QED BY <2>0, <2>c, <3>0, <3>1, <3>3, NextInLoss
    <2>4. CASE CaptureChild /\ walk' # Failed
      <3> DEFINE C == walk.children \ {NextChild}
      <3>0. walk.pc = "child" /\ UNCHANGED <<setup, rules, tree, touched>>
        BY <2>4 DEF CaptureChild
      <3>1. OnWay(Now, walk.entries, walk.pending, walk.children, Root)
        BY <3>0 DEF LossInv
      <3>2. NextChild \in walk.children /\ IsPrefix(Root, NextChild) /\ NextChild \in Paths
        BY <2>0, <2>4, ChildSteps DEF WalkType, Under
      <3>3. CASE Excluded(Relative(Root, NextChild)) /\ WentOn(walk.pending, C, walk.entries)
        <4>1. Out(rules, Relative(Root, NextChild))
          BY <3>3, ExcludedIsOut
        <4>2. OnWay(Now, walk.entries, walk.pending, C, Root)
          BY <2>c, <3>0, <3>1, <3>2, <4>1, SkipOnWay
        <4> QED BY <2>0, <2>c, <3>0, <3>3, <4>2, NextInLoss
      <3>4. ASSUME NEW kind \in Captures(NextChild),
                   WentOn(Queued(walk.pending, NextChild, kind), C,
                          Append(walk.entries, Captured(NextChild, kind)))
            PROVE  LossInv'
        <4> DEFINE E == Append(walk.entries, Captured(NextChild, kind))
                   Q == Queued(walk.pending, NextChild, kind)
        <4>1. C \cup {NextChild} = walk.children /\ C \ {NextChild} = C
          BY <3>2
        <4>2. OnWay(Now, walk.entries, walk.pending, C \cup {NextChild}, Root)
          BY <3>1, <4>1
        <4>3. OnWay(Now, E, Q, C \ {NextChild}, Root)
          BY <2>0, <2>c, <3>0, <3>2, <4>2, CaptureOnWay DEF Captured
        <4>4. \A r \in 1..Walked : OnWay(Now, E, <<>>, {}, setup.roots[r])
          BY <2>c, <3>0, GrowingOnWay
        <4>5. WentOn(Q, C, E) /\ OnWay(Now, E, Q, C, Root)
          BY <3>4, <4>1, <4>3
        <4> HIDE DEF E, Q, C
        <4> QED BY <2>0, <2>c, <3>0, <4>4, <4>5, NextInLoss
      <3> QED BY <2>0, <2>4, <3>3, <3>4, ChildSteps
    <2>5. [WalkNext]_walkVars => UNCHANGED <<setup, rules, tree, touched>>
                                 \/ \E q \in Paths, kind \in Kinds : Change(q, kind)
      BY Zenon DEF WalkNext, walkVars, CaptureRoot, ReadDirectory, CaptureChild
    <2> QED BY <2>1, <2>a, <2>b, <2>2, <2>3, <2>4, <2>5 DEF WalkNext
  <1> QED BY <1>1, <1>2, WalkTypeInvariant, PTL DEF WalkSpec

(* Without a double star, segments stand for as many names. *)
LEMMA PlainLength ==
    ASSUME NEW s \in Seq(Names), NEW x \in Seq(Seq(STRING)), GlobPath(s, x), ~Contains(s, Double)
    PROVE  Len(x) = Len(s)
  <1> DEFINE n == Len(s)
             m == Len(x)
             U == PathFit(s, x)
             I == {i \in 0..n : \A j \in U[i] : j = i}
  <1>0. n \in Nat /\ m \in Nat /\ \A i \in 1..n : s[i] # Double
    BY DEF Contains
  <1>1. /\ m \in U[n]
        /\ U[0] = {0}
        /\ \A i \in 0..n : U[i] \in SUBSET (0..m)
        /\ \A i \in 1..n : s[i] # Double =>
              \A j \in 0..m : j \in U[i] <=> j # 0 /\ j - 1 \in U[i - 1] /\ Glob(s[i], x[j])
    BY PathFitRules
  <1> HIDE DEF n, m, U
  <1>2. 0 \in I
    BY <1>0, <1>1
  <1>3. ASSUME NEW i \in 0..(n - 1), i \in I PROVE i + 1 \in I
    <2>0. i + 1 \in 0..n /\ i + 1 \in 1..n /\ (i + 1) - 1 = i
      BY <1>0
    <2>1. ASSUME NEW j \in U[i + 1] PROVE j = i + 1
      <3>1. j \in 0..m
        BY <1>1, <2>0
      <3>2. j - 1 \in U[i]
        BY <1>0, <1>1, <2>0, <3>1
      <3>3. j - 1 = i
        BY <1>3, <3>2
      <3> QED BY <3>1, <3>3
    <2> QED BY <2>0, <2>1
  <1>4. 0..n \subseteq I
    <2> HIDE DEF I
    <2> QED BY <1>0, <1>2, <1>3, Upwards
  <1>5. n \in 0..n
    BY <1>0
  <1>6. m = n
    BY <1>1, <1>4, <1>5
  <1> QED BY <1>6 DEF m, n

(***************************************************************************)
(* ExclusionRule::matches excludes only what the pattern means, and all of *)
(* it but for the two cases of MayMiss.                                    *)
(***************************************************************************)
THEOREM MatchesWhatIsMeant ==
    \A pattern \in Seq(STRING), path \in Seq(Seq(STRING)) :
        /\ Matches(Rule(pattern), path) => Means(Rule(pattern), path)
        /\ Means(Rule(pattern), path) => Matches(Rule(pattern), path) \/ MayMiss(Rule(pattern), path)
  <1> SUFFICES ASSUME NEW pattern \in Seq(STRING), NEW path \in Seq(Seq(STRING))
               PROVE  /\ Matches(Rule(pattern), path) => Means(Rule(pattern), path)
                      /\ Means(Rule(pattern), path) /\ ~MayMiss(Rule(pattern), path) =>
                            Matches(Rule(pattern), path)
    OBVIOUS
  <1> DEFINE rule == Rule(pattern)
             s == rule.segments
             n == Len(s)
  <1>1. s \in Seq(Names) /\ (IsBareName(rule) => ~rule.directory_prefix)
    BY RuleType
  <1> HIDE DEF rule
  <1>2. n \in Nat /\ (n # 0 <=> s # <<>>) /\ DOMAIN s = 1..n
    BY <1>1
  <1>3. n # 0 => s[1] \in Names
    BY <1>1, <1>2
  <1>4. \A i \in DOMAIN path : path[i] \in Seq(STRING) /\ i \in 1..Len(path)
    OBVIOUS
  <1>5. \A k \in 0..Len(path) : /\ SubSeq(path, 1, k) \in Seq(Seq(STRING)) /\ Len(SubSeq(path, 1, k)) = k
                                /\ \A j \in 1..k : SubSeq(path, 1, k)[j] = path[j]
    BY Beginnings
  <1> HIDE DEF s, n
  <1>a. /\ rule.segments = s /\ Len(rule.segments) = n
    BY DEF s, n
  <1>6. ASSUME Matches(rule, path) PROVE Means(rule, path)
    <2>0. path # <<>> /\ n # 0 /\ s # <<>> /\ (rule.directory_prefix => Len(path) >= n)
      BY <1>2, <1>6, <1>a DEF Matches
    <2>1. CASE IsBareName(rule)
      <3>1. PICK i \in DOMAIN path : WildcardMatch(s[1], path[i])
        BY <1>6, <1>a, <2>1 DEF Matches
      <3>2. Glob(s[1], path[i])
        BY <1>3, <1>4, <2>0, <3>1, WildcardIsGlob
      <3> QED BY <1>a, <2>0, <2>1, <3>2 DEF Means
    <2>2. CASE ~IsBareName(rule) /\ rule.directory_prefix
      <3>1. SegmentsMatch(s, SubSeq(path, 1, n))
        BY <1>6, <1>a, <2>2 DEF Matches
      <3>2. n \in DOMAIN path /\ n \in 0..Len(path)
        BY <1>2, <2>0, <2>2
      <3>3. GlobPath(s, SubSeq(path, 1, n))
        BY <1>1, <1>5, <3>1, <3>2, MatchMeans DEF s
      <3> QED BY <1>a, <2>0, <2>2, <3>2, <3>3 DEF Means
    <2>3. CASE ~IsBareName(rule) /\ ~rule.directory_prefix
      <3>1. SegmentsMatch(s, path)
        BY <1>6, <1>a, <2>3 DEF Matches
      <3>2. GlobPath(s, path)
        BY <1>1, <3>1, MatchMeans DEF s
      <3> QED BY <1>a, <2>0, <2>3, <3>2 DEF Means
    <2> QED BY <2>1, <2>2, <2>3
  <1>7. ASSUME Means(rule, path), ~MayMiss(rule, path) PROVE Matches(rule, path)
    <2>0. path # <<>> /\ n # 0 /\ s # <<>>
      BY <1>2, <1>7, <1>a DEF Means
    <2>1. \A i \in 1..n, j \in DOMAIN path : ~Repeated(s[i], path[j])
      BY <1>2, <1>7, <1>a DEF MayMiss, MissesRepeated, s, n
    <2>2. CASE IsBareName(rule)
      <3>1. PICK i \in DOMAIN path : Glob(s[1], path[i])
        BY <1>7, <1>a, <2>2 DEF Means
      <3>2. ~Repeated(s[1], path[i])
        BY <1>2, <2>0, <2>1
      <3>3. WildcardMatch(s[1], path[i])
        BY <1>3, <1>4, <2>0, <3>1, <3>2, WildcardIsGlob
      <3> QED BY <1>1, <1>a, <2>0, <2>2, <3>3 DEF Matches
    <2>3. CASE ~IsBareName(rule) /\ rule.directory_prefix
      <3>1. PICK k \in DOMAIN path : GlobPath(s, SubSeq(path, 1, k))
        BY <1>7, <1>a, <2>3 DEF Means
      <3>2. k \in 0..Len(path) /\ k \in Nat
        OBVIOUS
      <3>3. ~Contains(s, Double)
        BY <1>7, <1>a, <2>3 DEF MayMiss, MissesDeep, Double
      <3>4. k = n
        BY <1>1, <1>5, <3>1, <3>2, <3>3, PlainLength DEF s, n
      <3>5. \A i \in 1..Len(s), j \in 1..Len(SubSeq(path, 1, k)) : ~Repeated(s[i], SubSeq(path, 1, k)[j])
        <4>1. \A j \in 1..k : j \in DOMAIN path /\ SubSeq(path, 1, k)[j] = path[j]
          BY <1>5, <3>2
        <4> QED BY <1>5, <2>1, <3>2, <4>1 DEF n
      <3>6. SegmentsMatch(s, SubSeq(path, 1, n))
        BY <1>1, <1>5, <3>1, <3>2, <3>4, <3>5, MeansMatch
      <3>7. Len(path) >= n
        BY <3>2, <3>4
      <3> QED BY <1>a, <2>0, <2>3, <3>6, <3>7 DEF Matches
    <2>4. CASE ~IsBareName(rule) /\ ~rule.directory_prefix
      <3>1. GlobPath(s, path)
        BY <1>7, <1>a, <2>4 DEF Means
      <3>2. \A i \in 1..Len(s), j \in 1..Len(path) : ~Repeated(s[i], path[j])
        BY <2>1 DEF n
      <3>3. SegmentsMatch(s, path)
        BY <1>1, <3>1, <3>2, MeansMatch
      <3> QED BY <1>a, <2>0, <2>4, <3>3 DEF Matches
    <2> QED BY <2>2, <2>3, <2>4
  <1> QED BY <1>6, <1>7 DEF rule

(* The rules are those that the patterns of the setup make. *)
RulesInv ==
    /\ setup \in Setups
    /\ rules = [i \in DOMAIN setup.patterns |-> Rule(setup.patterns[i])]

LEMMA RulesStay == WalkSpec => []RulesInv
  <1>1. WalkInit => RulesInv
    BY DEF WalkInit, RulesInv
  <1>2. [WalkNext]_walkVars => UNCHANGED <<setup, rules>>
    BY Zenon DEF WalkNext, walkVars, Change, CaptureRoot, ReadDirectory, CaptureChild
  <1>3. RulesInv /\ [WalkNext]_walkVars => RulesInv'
    BY <1>2 DEF RulesInv
  <1> QED BY <1>1, <1>3, PTL DEF WalkSpec

LEMMA RulesMean ==
    ASSUME RulesInv, NEW i \in DOMAIN rules, NEW x \in Seq(Seq(STRING))
    PROVE  /\ Matches(rules[i], x) => Means(rules[i], x)
           /\ Means(rules[i], x) => Matches(rules[i], x) \/ MayMiss(rules[i], x)
  <1> DEFINE pattern == setup.patterns[i]
  <1>1. setup.patterns \in Seq(Seq(STRING))
    BY WalkAssumption DEF RulesInv
  <1>2. i \in DOMAIN setup.patterns /\ rules[i] = Rule(pattern)
    BY DEF RulesInv
  <1>3. pattern \in Seq(STRING)
    BY <1>1, <1>2, Element
  <1> HIDE DEF pattern
  <1> QED BY <1>2, <1>3, MatchesWhatIsMeant

(***************************************************************************)
(* SourceWalker::is_excluded: no entry of the walk is at or below a path   *)
(* that a pattern means to exclude, but for the paths matches may miss,    *)
(* for any patterns, any tree and any changes by other programs.           *)
(***************************************************************************)
THEOREM ExclusionPrunes == WalkSpec => []ExcludedIsPruned
  <1>1. RulesInv /\ PruneInv => ExcludedIsPruned
    <2> SUFFICES ASSUME RulesInv, PruneInv, NEW e \in DOMAIN walk.entries, NEW i \in DOMAIN rules,
                        NEW n \in DOMAIN walk.entries[e].path,
                        Means(rules[i], SubSeq(walk.entries[e].path, 1, n))
                 PROVE  MayMiss(rules[i], SubSeq(walk.entries[e].path, 1, n))
      BY DEF ExcludedIsPruned
    <2> DEFINE path == walk.entries[e].path
    <2>1. path \in Seq(Seq(STRING))
      BY EntryPath DEF PruneInv, WalkType
    <2>2. Admitted(rules, path)
      BY DEF PruneInv
    <2> HIDE DEF path
    <2>3. n \in 1..Len(path) /\ n \in 0..Len(path)
      BY <2>1 DEF path
    <2>4. ~Matches(rules[i], SubSeq(path, 1, n)) /\ SubSeq(path, 1, n) \in Seq(Seq(STRING))
      BY <2>1, <2>2, <2>3, Beginnings DEF Admitted, Out
    <2>5. Means(rules[i], SubSeq(path, 1, n))
      BY DEF path
    <2>6. MayMiss(rules[i], SubSeq(path, 1, n))
      BY <2>4, <2>5, RulesMean
    <2> QED BY <2>6 DEF path
  <1> QED BY <1>1, RulesStay, PruneIsInvariant, PTL

(***************************************************************************)
(* SourceWalker::walk: a walk that succeeds has captured, as what it is,   *)
(* everything below its roots that other programs left alone and that no   *)
(* pattern means to exclude.                                               *)
(***************************************************************************)
THEOREM NothingIsLost == WalkSpec => []WalkLosesNothing
  <1>1. RulesInv /\ LossInv => WalkLosesNothing
    <2> SUFFICES ASSUME RulesInv, LossInv, walk.pc = "done", NEW r \in DOMAIN setup.roots, NEW p \in Paths,
                        IsPrefix(setup.roots[r], p), tree[p] # "none", Untouched(p),
                        ~MeansOut(Relative(setup.roots[r], p))
                 PROVE  \E i \in DOMAIN walk.entries :
                           walk.entries[i] = [path |-> Relative(setup.roots[r], p), kind |-> tree[p]]
      BY DEF WalkLosesNothing
    <2> DEFINE R == setup.roots[r]
               x == Relative(R, p)
    <2>1. setup.roots \in Seq(Paths)
      BY WalkAssumption DEF RulesInv
    <2>2. R \in Seq(Seq(STRING)) /\ p \in Seq(Seq(STRING))
      BY <2>1, PathsAreSequences, Element
    <2>3. x \in Seq(Seq(STRING))
      BY <2>2, RelativeIs
    <2>4. r \in 1..Walked
      <3>1. walk.roots = <<>>
        BY DEF LossInv
      <3>2. Walked = Len(setup.roots)
        BY <2>1, <3>1 DEF Walked
      <3> QED BY <2>1, <3>2
    <2>5. OnWay(Now, walk.entries, <<>>, {}, R)
      BY <2>4 DEF LossInv
    <2> HIDE DEF x, R
    <2>6. Admitted(rules, x)
      <3>1. ASSUME NEW n \in 1..Len(x), NEW i \in DOMAIN rules PROVE ~Matches(rules[i], SubSeq(x, 1, n))
        <4>1. n \in DOMAIN x /\ n \in 0..Len(x)
          BY <2>3
        <4>2. ~Means(rules[i], SubSeq(x, 1, n))
          BY <4>1 DEF MeansOut, x, R
        <4>3. SubSeq(x, 1, n) \in Seq(Seq(STRING))
          BY <2>3, <4>1, Beginnings
        <4> QED BY <4>2, <4>3, RulesMean
      <3> QED BY <3>1 DEF Admitted, Out
    <2>7. Steady(Now, p)
      BY DEF Steady, Now, Untouched
    <2>8. Wanted(Now, R, p)
      BY <2>6, <2>7 DEF Wanted, Now, x, R
    <2>9. InEntries(Now, walk.entries, R, p)
      BY <2>5, <2>8 DEF OnWay
    <2> QED BY <2>9 DEF InEntries, Now, R
  <1> QED BY <1>1, RulesStay, LossIsInvariant, PTL
=============================================================================
