----------------------------- MODULE LocalStore -----------------------------
(***************************************************************************)
(* The local filesystem backend.  put_if_absent writes the bytes to a file *)
(* of its own under .fileferry-tmp/, syncs it, publishes it with a hard    *)
(* link to the object's path and removes the temporary file.  Every await  *)
(* is a point where another task or another ferry process may run, where   *)
(* the process may die, or where the machine may lose power.  list_prefix  *)
(* reads the directories below a prefix one after the other meanwhile.     *)
(*                                                                         *)
(* A key is the sequence of its segments, as its path is.                  *)
(***************************************************************************)
EXTENDS Naturals, Sequences, SequencesExt

CONSTANTS
    Clients,      \* tasks that call put_if_absent, one call at a time each
    Pids,         \* process ids; the operating system reuses them
    Setups,       \* cases, records with the fields
                  \*   pid    client -> the process it runs in
                  \*   keys   the keys that are written
                  \*   lists  the prefixes that may be listed, in one listing
                  \*   fails  whether processes die and power is lost
    Keys,         \* object keys
    Bytes,        \* object contents
    Absent,       \* "no such file"
    Torn,         \* contents of a file whose data was not all written
    NoCall,       \* "not in a call"
    LastTempId    \* bound: process -> the last counter value it may take

(* temp_path: process id, key and counter. *)
TempPaths == UNION {[pid : {p}, key : Keys, id : 0..LastTempId[p]] : p \in Pids}

(* The steps of a put_if_absent call, and its answers. *)
PutPc == {"create", "write", "sync", "link", "unlink_created", "unlink_exists",
          "unlink_failed", "compare", "created", "already_present", "conflict", "error"}

(* Objects lie below no other object and outside the temporary directory. *)
ASSUME StoreAssumption ==
    /\ \A s \in Setups : /\ DOMAIN s.pid \subseteq Clients
                         /\ s.pid \in [DOMAIN s.pid -> Pids]
                         /\ s.keys \subseteq Keys
                         /\ s.lists \subseteq Seq(STRING)
                         /\ s.fails \in BOOLEAN
    /\ Keys \subseteq Seq(STRING) \ {<<>>}
    /\ \A k \in Keys : /\ k[1] # ".fileferry-tmp"
                       /\ \A l \in Keys : IsPrefix(l, k) => l = k
    /\ Absent \notin Bytes \cup [data : Bytes \cup {Torn}, synced : BOOLEAN]
    /\ Torn \notin Bytes \cup {Absent}
    /\ NoCall \notin [key : Keys, bytes : Bytes,
                      outcome : {"pending", "created", "already_present",
                                 "conflict", "error"}]
    /\ NoCall \notin [pc : PutPc, key : Keys, bytes : Bytes, temp : TempPaths]
    /\ LastTempId \in [Pids -> Nat]

VARIABLES
    setup,        \* the case of this behaviour; it never changes
    files,        \* object path -> the file linked there, or Absent: its data,
                  \* and whether sync_all has put them on the disk
    temps,        \* temporary path -> the file there, or Absent
    flushed,      \* object paths whose directory entry is on the disk
    nextTempId,   \* process -> NEXT_TEMP_ID
    op,           \* client -> its put_if_absent call, or NoCall: the next step,
                  \* or the answer, the arguments and the temporary path
    dirs,         \* the directories there are
    listing,      \* the list_prefix call
    seen          \* history: objects there all the time of the call, or at some

vars == <<setup, files, temps, flushed, nextTempId, op, dirs, listing, seen>>

Pid == setup.pid

(* Where the temporary files are; to a listing one is as good as another. *)
TempDir == <<".fileferry-tmp">>
TempFile == <<".fileferry-tmp", "pid-key-id">>

NoListing == [pc |-> "idle", prefix |-> <<>>, todo |-> {}, dir |-> <<>>, base |-> {}, out |-> {}]

Init ==
    /\ setup \in Setups
    /\ files = [k \in Keys |-> Absent]
    /\ temps = [t \in TempPaths |-> Absent]
    /\ flushed = {}
    /\ nextTempId = [p \in Pids |-> 0]
    /\ op = [c \in Clients |-> NoCall]
    /\ dirs = {}
    /\ listing = NoListing
    /\ seen = [through |-> {}, ever |-> {}]

At(c, pc) == op[c] # NoCall /\ op[c].pc = pc

GoTo(c, pc) == op' = [op EXCEPT ![c].pc = pc]

-----------------------------------------------------------------------------
(* put_if_absent *)

(* Mutant of TakeTempId: the counter is read and never advanced. *)
TakeTempIdStuck(p) == p \in Pids /\ UNCHANGED nextTempId

(* fetch_add on NEXT_TEMP_ID. *)
TakeTempId(p) == nextTempId' = [nextTempId EXCEPT ![p] = @ + 1]

(* The names and, with create_dir_all, the directories of a put. *)
PutBegin(c, k, b) ==
    /\ op[c] = NoCall /\ k \in setup.keys
    /\ nextTempId[Pid[c]] <= LastTempId[Pid[c]]
    /\ op' = [op EXCEPT ![c] =
                 [pc |-> "create", key |-> k, bytes |-> b,
                  temp |-> [pid |-> Pid[c], key |-> k, id |-> nextTempId[Pid[c]]]]]
    /\ TakeTempId(Pid[c])
    /\ dirs' = dirs \cup {<<>>, TempDir} \cup {d \in Prefixes(k) : d # k}
    /\ UNCHANGED <<files, temps, flushed>>

(***************************************************************************)
(* OpenOptions::create_new: an error when the name is taken, as it is when *)
(* an earlier process with this id died and left its file behind.          *)
(***************************************************************************)
CreateTemp(c) ==
    /\ At(c, "create")
    /\ IF temps[op[c].temp] = Absent
       THEN /\ temps' = [temps EXCEPT ![op[c].temp] = [data |-> Torn, synced |-> FALSE]]
            /\ GoTo(c, "write")
       ELSE /\ GoTo(c, "error")
            /\ UNCHANGED temps
    /\ UNCHANGED <<files, flushed, nextTempId>>

WriteTemp(c) ==
    /\ At(c, "write")
    /\ temps' = [temps EXCEPT ![op[c].temp].data = op[c].bytes]
    /\ GoTo(c, "sync")
    /\ UNCHANGED <<files, flushed, nextTempId>>

(* Mutant of SyncTemp: the file is linked without sync_all. *)
SyncTempSkipped(c) ==
    /\ At(c, "sync")
    /\ GoTo(c, "link")
    /\ UNCHANGED <<files, temps, flushed, nextTempId>>

SyncTemp(c) ==
    /\ At(c, "sync")
    /\ temps' = [temps EXCEPT ![op[c].temp].synced = TRUE]
    /\ GoTo(c, "link")
    /\ UNCHANGED <<files, flushed, nextTempId>>

(* Mutant of LinkTemp: rename, which replaces an existing object. *)
LinkTempByRename(c) ==
    /\ At(c, "link")
    /\ files' = [files EXCEPT ![op[c].key] = temps[op[c].temp]]
    /\ GoTo(c, "unlink_created")
    /\ UNCHANGED <<temps, flushed, nextTempId>>

(***************************************************************************)
(* fs::hard_link: the object path becomes a second name of the temporary   *)
(* file, in one step, unless the path exists.                              *)
(***************************************************************************)
LinkTemp(c) ==
    /\ At(c, "link")
    /\ IF files[op[c].key] = Absent
       THEN /\ files' = [files EXCEPT ![op[c].key] = temps[op[c].temp]]
            /\ GoTo(c, "unlink_created")
       ELSE /\ GoTo(c, "unlink_exists")
            /\ UNCHANGED files
    /\ UNCHANGED <<temps, flushed, nextTempId>>

(* Any other error of hard_link: nothing is published. *)
LinkFails(c) ==
    /\ At(c, "link")
    /\ GoTo(c, "unlink_failed")
    /\ UNCHANGED <<files, temps, flushed, nextTempId>>

(* remove_temp, in the three arms of the match. *)
UnlinkTemp(c) ==
    /\ \/ At(c, "unlink_created") /\ GoTo(c, "created")
       \/ At(c, "unlink_exists")  /\ GoTo(c, "compare")
       \/ At(c, "unlink_failed")  /\ GoTo(c, "error")
    /\ temps' = [temps EXCEPT ![op[c].temp] = Absent]
    /\ UNCHANGED <<files, flushed, nextTempId>>

(* read_existing_for_compare: the object may have been deleted meanwhile. *)
CompareExisting(c) ==
    /\ At(c, "compare")
    /\ GoTo(c, CASE files[op[c].key] = Absent                 -> "error"
                 [] files[op[c].key] # Absent
                    /\ files[op[c].key].data = op[c].bytes    -> "already_present"
                 [] OTHER                                     -> "conflict")
    /\ UNCHANGED <<files, temps, flushed, nextTempId>>

(***************************************************************************)
(* An I/O error ends the call.  Before the link, and in remove_temp, the   *)
(* temporary file stays where it is.                                       *)
(***************************************************************************)
IoError(c) ==
    /\ \E pc \in {"create", "write", "sync", "unlink_created",
                  "unlink_exists", "unlink_failed", "compare"} : At(c, pc)
    /\ GoTo(c, "error")
    /\ UNCHANGED <<files, temps, flushed, nextTempId>>

Finished(c) ==
    \E pc \in {"created", "already_present", "conflict", "error"} : At(c, pc)

Return(c) ==
    /\ Finished(c)
    /\ op' = [op EXCEPT ![c] = NoCall]
    /\ UNCHANGED <<files, temps, flushed, nextTempId>>

-----------------------------------------------------------------------------
(* delete: a missing object is not an error. *)
DeleteObject(k) ==
    /\ files' = [files EXCEPT ![k] = Absent]
    /\ flushed' = flushed \ {k}
    /\ UNCHANGED <<temps, nextTempId, op>>

-----------------------------------------------------------------------------
(* The machine under the store. *)

(* A process dies; a later one may get its id and starts counting at 0. *)
CrashProcess(p) ==
    /\ op' = [c \in Clients |-> IF c \in DOMAIN Pid /\ Pid[c] = p THEN NoCall ELSE op[c]]
    /\ nextTempId' = [nextTempId EXCEPT ![p] = 0]
    /\ UNCHANGED <<files, temps, flushed>>

(* The kernel writes back a directory entry.  No code asks it to. *)
FlushEntry(k) ==
    /\ files[k] # Absent
    /\ flushed' = flushed \cup {k}
    /\ UNCHANGED <<files, temps, nextTempId, op>>

(* What is left of a file after power loss: unsynced data may be lost. *)
Remains(f) == IF f = Absent \/ f.synced THEN f ELSE [data |-> Torn, synced |-> TRUE]

(* Entries not yet written back are there or not when the machine is up. *)
PowerLoss(lost) ==
    /\ lost \cap flushed = {}
    /\ files' = [k \in Keys |-> IF k \in lost THEN Absent ELSE Remains(files[k])]
    /\ temps' = [t \in TempPaths |-> Remains(temps[t])]
    /\ flushed' = {k \in Keys \ lost : files[k] # Absent}
    /\ nextTempId' = [p \in Pids |-> 0]
    /\ op' = [c \in Clients |-> NoCall]

-----------------------------------------------------------------------------
(* list_prefix *)

Reading == listing.pc \in {"open", "read"}

(* What a directory holds: objects, directories and temporary files. *)
Entries(d) ==
    {k \in Keys : files[k] # Absent /\ Front(k) = d}
    \cup {e \in dirs \ {<<>>} : Front(e) = d}
    \cup {t \in {TempFile} : d = TempDir /\ \E temp \in TempPaths : temps[temp] # Absent}

(* metadata of the prefix: a file, a directory, or nothing. *)
ListBegin(prefix) ==
    /\ listing.pc = "idle" /\ prefix \in setup.lists
    /\ listing' = [NoListing EXCEPT
                     !.prefix = prefix,
                     !.pc = IF prefix \in dirs THEN "open" ELSE "filter",
                     !.todo = dirs \cap {prefix},
                     !.out = {k \in Keys \cap {prefix} : files[k] # Absent}]

(* collect_files: the next directory of the stack. *)
OpenDir(d) ==
    /\ listing.pc = "open" /\ d \in listing.todo
    /\ listing' = [listing EXCEPT !.pc = "read", !.todo = @ \ {d}, !.dir = d,
                                  !.base = Entries(d)]

(* Mutant of ReadDir: the directories in it are passed over. *)
ReadDirFlat ==
    /\ listing.pc = "read"
    /\ \E late \in SUBSET (Entries(listing.dir) \ listing.base) :
          LET found == listing.base \cup late IN
          listing' = [listing EXCEPT !.out = @ \cup (found \ dirs),
                                     !.pc = IF listing.todo = {} THEN "filter" ELSE "open",
                                     !.dir = <<>>, !.base = {}]

(* Every entry that is there while the directory is read, and what else was
   there for a part of that time, or not. *)
ReadDir ==
    /\ listing.pc = "read"
    /\ \E late \in SUBSET (Entries(listing.dir) \ listing.base) :
          LET found == listing.base \cup late
              todo == listing.todo \cup (found \cap dirs) IN
          listing' = [listing EXCEPT !.todo = todo, !.out = @ \cup (found \ dirs),
                                     !.pc = IF todo = {} THEN "filter" ELSE "open",
                                     !.dir = <<>>, !.base = {}]

(* retain: below the prefix, and no temporary file. *)
Retain ==
    /\ listing.pc = "filter"
    /\ listing' = [listing EXCEPT !.pc = "done",
                     !.out = {k \in @ : IsPrefix(listing.prefix, k) /\ k[1] # TempDir[1]}]

ListFails ==
    /\ Reading
    /\ listing' = [NoListing EXCEPT !.pc = "failed"]

ListStep ==
    /\ \/ \E prefix \in setup.lists : ListBegin(prefix)
       \/ \E d \in listing.todo : OpenDir(d)
       \/ ReadDir \/ Retain \/ ListFails
    /\ UNCHANGED <<files, temps, flushed, nextTempId, op, dirs>>

-----------------------------------------------------------------------------
(* An entry removed while its directory is read may be found, or not. *)
Missed ==
    IF listing.pc # "read" THEN {listing}
    ELSE {[listing EXCEPT !.base = @ \ gone] :
             gone \in SUBSET {k \in Keys : files[k] # Absent /\ files'[k] = Absent}}

CallStep(c) ==
    \/ CreateTemp(c) \/ WriteTemp(c) \/ SyncTemp(c) \/ LinkTemp(c) \/ LinkFails(c)
    \/ UnlinkTemp(c) \/ CompareExisting(c) \/ IoError(c) \/ Return(c)

StoreStep ==
    \/ /\ \E c \in DOMAIN Pid, k \in Keys, b \in Bytes : PutBegin(c, k, b)
       /\ UNCHANGED listing
    \/ /\ \/ \E c \in DOMAIN Pid : CallStep(c)
          \/ \E k \in setup.keys : DeleteObject(k)
          \/ setup.fails /\ \E p \in Pids : CrashProcess(p)
          \/ setup.fails /\ \E k \in setup.keys : FlushEntry(k)
       /\ listing' \in Missed
       /\ UNCHANGED dirs
    \/ /\ setup.fails
       /\ \E lost \in SUBSET Keys : PowerLoss(lost)
       /\ listing' = IF Reading THEN [NoListing EXCEPT !.pc = "failed"] ELSE listing
       /\ UNCHANGED dirs

(* The objects seen while a listing goes on. *)
Observe ==
    LET there == {k \in Keys : files'[k] # Absent} IN
    seen' = CASE listing'.pc \in {"idle", "failed"} -> [through |-> {}, ever |-> {}]
              [] listing.pc = "idle" /\ listing'.pc # "idle" -> [through |-> there, ever |-> there]
              [] listing.pc = "done" -> seen
              [] OTHER -> [through |-> seen.through \cap there, ever |-> seen.ever \cup there]

Next == (StoreStep \/ ListStep) /\ Observe /\ UNCHANGED setup

Spec == Init /\ [][Next]_vars

-----------------------------------------------------------------------------
(* Properties *)

(***************************************************************************)
(* A visible object always has the complete bytes some put_if_absent was   *)
(* given, after a crash in the middle of a write and after power loss too: *)
(* the temporary file is written and synced before it is linked.           *)
(***************************************************************************)
NoTornObject == \A k \in Keys : files[k] # Absent => files[k].data \in Bytes

(* The states in which a call relies on its temporary file being its own. *)
OwnsTemp(c) ==
    \E pc \in {"write", "sync", "link", "unlink_created",
               "unlink_exists", "unlink_failed"} : At(c, pc)

(***************************************************************************)
(* No put_if_absent that is about to create its temporary file has the     *)
(* name of a file another call in progress is using, whether they are      *)
(* tasks of one process or separate processes: temp_path is unique among   *)
(* live calls, so create_new can only meet the leftovers of a dead one.    *)
(***************************************************************************)
LiveTempNamesDistinct ==
    \A c, d \in Clients :
        c # d /\ At(c, "create") /\ OwnsTemp(d) => op[c].temp # op[d].temp

(***************************************************************************)
(* A listing that races with puts and deletes has every object below its   *)
(* prefix that was there all the time, and nothing but objects below it    *)
(* that were there at some time: no temporary file, however deep the       *)
(* directories are and in whatever order they are read.                    *)
(***************************************************************************)
ListingIsComplete ==
    listing.pc = "done" =>
        /\ {k \in seen.through : IsPrefix(listing.prefix, k)} \subseteq listing.out
        /\ listing.out \subseteq {k \in seen.ever : IsPrefix(listing.prefix, k)}

(***************************************************************************)
(* The contract as the local store implements it.  The object appears at   *)
(* the hard link; a call that failed may still have published its object.  *)
(***************************************************************************)
Outcome(pc) ==
    CASE pc \in {"unlink_created", "created"}                -> "created"
      [] pc \in {"already_present", "conflict", "error"}     -> pc
      [] OTHER                                               -> "pending"

AbstractCall(o) ==
    IF o = NoCall THEN NoCall
    ELSE [key |-> o.key, bytes |-> o.bytes, outcome |-> Outcome(o.pc)]

AbstractObject(f) == IF f = Absent THEN Absent ELSE f.data

Contract == INSTANCE ObjectStore WITH
    objects <- [k \in Keys |-> AbstractObject(files[k])],
    call    <- [c \in Clients |-> AbstractCall(op[c])]

(***************************************************************************)
(* The local backend implements the immutable write contract: whatever     *)
(* tasks and processes do, whichever of them die, an object appears once,  *)
(* whole, and is never replaced, and every answer other than an error is   *)
(* true of the store at one instant of the call.  After power loss objects *)
(* may be missing, but none has changed.                                   *)
(***************************************************************************)
ImplementsContract == Contract!Spec
=============================================================================
