------------------------------ MODULE Restore ------------------------------
(***************************************************************************)
(* `ferry restore`: restore_snapshot_to_destination, from the manifest and *)
(* the contents it has read to the destination directory.  A restore       *)
(* checks every selected entry against the destination, then makes the     *)
(* directories, then writes and verifies the files, then makes the links,  *)
(* then applies the modification times, files before directories.          *)
(*                                                                         *)
(* Every system call is a step: between two of them the restore may be     *)
(* killed, and other programs may create, change and remove files and      *)
(* directories in the destination.  A killed restore may be repeated.      *)
(*                                                                         *)
(* A path is the sequence of its names below the destination, which is     *)
(* <<>>.  "captured" as the time of a path is the time its entry captured. *)
(***************************************************************************)
EXTENDS Naturals, Sequences, SequencesExt

CONSTANTS
    Order,          \* all paths, in the order of the manifest's entries
    Setups          \* circumstances of a behaviour, records with the fields
                    \*   snapshots     manifests: path -> entry
                    \*   requests      sets of --path arguments, with ".", "..", "/"
                    \*   destinations  what the destination may hold at first
                    \*   busy          whether other programs use the destination
                    \*   max_runs      bound: restores that are started

Paths == {Order[i] : i \in DOMAIN Order}

(* ManifestEntry: kind, contents, and whether time (link: target) was captured. *)
Kinds == {"none", "dir", "file", "link", "other"}
Entry == [kind : Kinds, data : {"", "new"}, time : BOOLEAN]

(* What a path of the destination holds; a file being written is "partial". *)
Node == [kind : {"none", "dir", "file", "link"},
         data : {"", "old", "new", "partial"},
         time : {"before", "now", "captured"}]

Nothing == [kind |-> "none", data |-> "", time |-> "before"]

ASSUME RestoreAssumption ==
    /\ Order \in Seq(Seq(STRING))
    /\ \A i, j \in DOMAIN Order : Order[i] = Order[j] => i = j
    /\ <<>> \in Paths /\ \A p \in Paths \ {<<>>} : Front(p) \in Paths
    /\ \A i \in DOMAIN Setups :
          /\ Setups[i].snapshots \subseteq [Paths -> Entry]
          /\ Setups[i].requests \subseteq SUBSET Seq(STRING)
          /\ Setups[i].destinations \subseteq [Paths -> Node]
          /\ \A d \in Setups[i].destinations : \A p \in Paths :
                d[p].data # "partial" /\ (d[p].kind # "file" => d[p].data = "")
          /\ Setups[i].busy \in BOOLEAN
          /\ Setups[i].max_runs \in Nat

VARIABLES
    setup,          \* the circumstances, fixed
    dest,           \* path -> what is there
    run,            \* the restore in progress, or the last one: with todo, the
                    \*   entries left in this phase; open, the file being written
                    \*   is at its path; warned, metadata_warnings
    runs,           \* restores started
    before          \* history: dest when the restore started

vars == <<setup, dest, run, runs, before>>

Given == Setups[setup]

Init ==
    /\ setup \in DOMAIN Setups
    /\ dest \in Given.destinations
    /\ run = [pc |-> "idle", snapshot |-> <<>>, selected |-> {}, overwrite |-> FALSE,
              dry_run |-> FALSE, todo |-> {}, open |-> FALSE, warned |-> {}]
    /\ runs = 0
    /\ before = dest

-----------------------------------------------------------------------------
(* The manifest and the request *)

Ancestors(p) == {q \in Paths : IsStrictPrefix(q, p)}

(* validate_snapshot_manifest: an ancestor that has an entry is a directory. *)
ValidManifest(s) ==
    /\ s[<<>>].kind \in {"none", "dir"}
    /\ \A p \in Paths :
          /\ s[p].kind # "file" => s[p].data = ""
          /\ s[p].kind # "none" =>
                \A q \in Ancestors(p) \ {<<>>} : s[q].kind \in {"none", "dir"}

(* normalize_restore_path: what is accepted, and what it becomes. *)
IsRelative(path) == \A i \in DOMAIN path : path[i] \notin {"..", "/"}
Normalize(path) == SelectSeq(path, LAMBDA name : name # ".")

(* validate_manifest_entry_path: the paths of a manifest are normal. *)
ASSUME NormalAssumption ==
    /\ \A p \in Paths : Normalize(p) = p
    /\ \A i \in DOMAIN Setups : \A request \in Setups[i].requests :
          \A path \in request : Normalize(path) \in Seq(STRING)

Matches(p, request) == request = {} \/ \E q \in request : IsPrefix(q, p)

(* scoped_manifest_entries *)
Selected(s, request) == {p \in Paths : s[p].kind # "none" /\ Matches(p, request)}

(* ensure_restore_paths_exist *)
RequestExists(s, request) ==
    \A q \in request : \E p \in Paths : s[p].kind # "none" /\ IsPrefix(q, p)

(* Mutant of ListEntries: the top has to have an entry, as any path has. *)
ListEntriesOfEntry(s, path) ==
    LET q == Normalize(path) IN
    [found |-> s[q].kind # "none",
     entries |-> IF s[q].kind = "dir"
                 THEN {p \in Paths \ {<<>>} : s[p].kind # "none" /\ Front(p) = q}
                 ELSE {q} \ {p \in Paths : s[p].kind = "none"}]

(* list_snapshot_entries, entry_parent: what ls shows at a path. *)
ListEntries(s, path) ==
    LET q == Normalize(path) IN
    [found |-> q = <<>> \/ s[q].kind # "none",
     entries |-> IF q = <<>> \/ s[q].kind = "dir"
                 THEN {p \in Paths \ {<<>>} : s[p].kind # "none" /\ Front(p) = q}
                 ELSE {q} \ {p \in Paths : s[p].kind = "none"}]

(* metadata_status, of the values of modified, created and a link's target. *)
MetadataStatus(values) ==
    IF "denied" \in values THEN "partial"
    ELSE IF values = {"unsupported"} THEN "unsupported"
    ELSE IF "unsupported" \in values THEN "partial" ELSE "complete"

IsKind(p, kind) == run.snapshot[p].kind = kind

(* A link whose target was not captured is warned of, not restored. *)
Plan(s, selected) ==
    {p \in selected : s[p].kind \in {"dir", "file"} \/ (s[p].kind = "link" /\ s[p].time)}

(* Mutant of TimePlan: directories had their times when they were made. *)
TimePlanFiles(s, selected) == {p \in selected : s[p].kind = "file"}

(* The entries whose times are applied. *)
TimePlan(s, selected) == {p \in selected : s[p].kind \in {"file", "dir"}}

(* Directories, then files, then links; for the times, files before directories. *)
WriteOrder == <<"dir", "file", "link">>
TimeOrder == <<"file", "dir">>

(* p is the first of todo: by kind, and within a kind in the manifest's order. *)
First(p, todo, s, kinds) ==
    /\ p \in todo
    /\ \A q \in todo : \E i, j \in DOMAIN kinds, m, n \in DOMAIN Order :
          /\ s[p].kind = kinds[i] /\ s[q].kind = kinds[j]
          /\ Order[m] = p /\ Order[n] = q
          /\ i < j \/ (i = j /\ m <= n)

Uncaptured(s, selected, kinds) == {p \in selected : s[p].kind \in kinds /\ ~s[p].time}

(* The kinds of a tree all of whose snapshots, taken at any time, are manifests
   of setup g, and which the destinations may have directories of. *)
Trees(g) ==
    {tree \in [Paths -> Kinds] :
        /\ \A p \in Paths : tree[p] # "none" => \A q \in Ancestors(p) : tree[q] = "dir"
        /\ \A s \in g.snapshots : \A p \in Paths : s[p].kind \in {"none", tree[p]}
        /\ \A d \in g.destinations : \A p \in Paths :
              d[p].kind = "none" \/ (d[p].kind = "dir" /\ tree[p] = "dir")}

(* Only restores of a whole tree to an empty destination of its own are repeated. *)
ASSUME RepeatAssumption ==
    \A i \in DOMAIN Setups : Setups[i].max_runs > 1 =>
        /\ ~Setups[i].busy
        /\ Setups[i].requests \subseteq {{}}
        /\ \A s \in Setups[i].snapshots : ValidManifest(s)
        /\ Trees(Setups[i]) # {}

-----------------------------------------------------------------------------
(* Steps of a restore *)

Running == run.pc \in {"check", "mkdir", "open", "write", "verify", "link", "times"}

(* The entry the restore is at. *)
IsNext(p) ==
    First(p, run.todo, run.snapshot, IF run.pc = "times" THEN TimeOrder ELSE WriteOrder)

MayBegin == ~Running /\ runs < Given.max_runs

Begin(s, request, overwrite, dry_run) ==
    LET wanted == {Normalize(path) : path \in request}
        selected == Selected(s, wanted)
        ok == /\ \A path \in request : IsRelative(path)
              /\ ValidManifest(s) /\ RequestExists(s, wanted) IN
    /\ MayBegin
    /\ runs' = runs + 1
    /\ run' = [pc |-> IF ok THEN "check" ELSE "refused", snapshot |-> s,
               selected |-> selected, overwrite |-> overwrite, dry_run |-> dry_run,
               todo |-> IF ok THEN Plan(s, selected) ELSE {}, open |-> FALSE,
               warned |-> IF ok THEN Uncaptured(s, selected, {"link"}) ELSE {}]
    /\ before' = dest
    /\ UNCHANGED dest

(* ensure_no_symlink_ancestor: below a missing directory nothing is left to check. *)
AncestorsClear(p) == \A q \in Ancestors(p) : dest[q].kind \in {"none", "dir"}

(* Mutant of Safe: what is above the destination path is not looked at. *)
SafeBelow(p) ==
    \/ IsKind(p, "dir")  /\ dest[p].kind \in {"none", "dir"}
    \/ IsKind(p, "file") /\ (dest[p].kind = "none" \/ (dest[p].kind = "file" /\ run.overwrite))
    \/ IsKind(p, "link") /\ dest[p].kind = "none"

(* Mutant of Safe: --overwrite is not looked at. *)
SafeNew(p) ==
    /\ AncestorsClear(p)
    /\ dest[p].kind \in (IF IsKind(p, "dir") THEN {"none", "dir"} ELSE {"none"})

(* ensure_restore_{directory_,,symlink_}destination_safe *)
Safe(p) ==
    /\ AncestorsClear(p)
    /\ \/ IsKind(p, "dir")  /\ dest[p].kind \in {"none", "dir"}
       \/ IsKind(p, "file") /\ (dest[p].kind = "none" \/ (dest[p].kind = "file" /\ run.overwrite))
       \/ IsKind(p, "link") /\ dest[p].kind = "none"

(* Mutant of CheckEntry: a directory is made as soon as it is checked. *)
CheckEntryMaking(p) ==
    /\ run.pc = "check" /\ IsNext(p)
    /\ run' = IF Safe(p) THEN [run EXCEPT !.todo = @ \ {p}]
              ELSE [run EXCEPT !.pc = "refused", !.todo = {}]
    /\ dest' = IF Safe(p) /\ IsKind(p, "dir") THEN [dest EXCEPT ![p].kind = "dir"] ELSE dest
    /\ UNCHANGED <<runs, before>>

CheckEntry(p) ==
    /\ run.pc = "check" /\ IsNext(p)
    /\ run' = IF Safe(p) THEN [run EXCEPT !.todo = @ \ {p}]
              ELSE [run EXCEPT !.pc = "refused", !.todo = {}]
    /\ UNCHANGED <<dest, runs, before>>

(* The next entry to write, or the times when there is none left. *)
WriteFrom(todo) ==
    run' = IF todo = {}
           THEN [run EXCEPT !.pc = "times", !.open = FALSE,
                            !.todo = TimePlan(run.snapshot, run.selected)]
           ELSE [run EXCEPT !.pc = "mkdir", !.open = FALSE, !.todo = todo]

(* A dry run stops here, with the warnings plan_restored_modified_timestamp gives. *)
CheckDone ==
    /\ run.pc = "check"
    /\ run.todo = {}
    /\ IF run.dry_run
       THEN run' = [run EXCEPT !.pc = "planned",
                               !.warned = @ \cup Uncaptured(run.snapshot, run.selected,
                                                            {"file", "dir"})]
       ELSE WriteFrom(Plan(run.snapshot, run.selected))
    /\ UNCHANGED <<dest, runs, before>>

Fail == run' = [run EXCEPT !.pc = "failed", !.todo = {}, !.open = FALSE]

(* Making, removing or renaming p changes the time of the directory it is in. *)
Touch(d, p) ==
    [q \in Paths |-> IF p # <<>> /\ q = Front(p) THEN [d[q] EXCEPT !.time = "now"]
                     ELSE d[q]]
Make(p, kind, data) ==
    dest' = [Touch(dest, p) EXCEPT ![p] = [kind |-> kind, data |-> data, time |-> "now"]]

(* The file at p gets contents, which changes its own time. *)
Fill(p, data) == [dest EXCEPT ![p] = [@ EXCEPT !.data = data, !.time = "now"]]

(* The directories create_dir_all is called for. *)
Wanted(p) == Ancestors(p) \cup (IF IsKind(p, "dir") THEN {p} ELSE {})

(* create_dir_all, a directory at a time from the top. *)
MakeDirs(p) ==
    LET wanted == Wanted(p)
        missing == {q \in wanted : dest[q].kind = "none"} IN
    /\ run.pc = "mkdir" /\ IsNext(p)
    /\ \/ /\ \E q \in wanted : dest[q].kind \notin {"none", "dir"}
          /\ Fail
          /\ UNCHANGED dest
       \/ /\ \A q \in wanted : dest[q].kind \in {"none", "dir"}
          /\ \E q \in missing : /\ \A o \in missing : Len(q) <= Len(o)
                                /\ Make(q, "dir", "")
          /\ UNCHANGED run
       \/ /\ \A q \in wanted : dest[q].kind = "dir"
          /\ CASE IsKind(p, "dir")  -> WriteFrom(run.todo \ {p})
               [] IsKind(p, "file") -> run' = [run EXCEPT !.pc = "open"]
               [] OTHER             -> run' = [run EXCEPT !.pc = "link"]
          /\ UNCHANGED dest
    /\ UNCHANGED <<runs, before>>

Inside(p) == p = <<>> \/ dest[Front(p)].kind = "dir"

(* Mutant of OpenFile: the file is opened with create and truncate always. *)
OpenFileTruncating(p) ==
    /\ run.pc = "open" /\ IsNext(p)
    /\ IF dest[p].kind \in {"none", "file"} /\ Inside(p)
       THEN /\ Make(p, "file", "partial")
            /\ run' = [run EXCEPT !.pc = "write", !.open = TRUE]
       ELSE Fail /\ UNCHANGED dest
    /\ UNCHANGED <<runs, before>>

(* create_new, or create and truncate with --overwrite. *)
OpenFile(p) ==
    /\ run.pc = "open" /\ IsNext(p)
    /\ \/ /\ dest[p].kind = "none" /\ Inside(p)
          /\ Make(p, "file", "partial")
          /\ run' = [run EXCEPT !.pc = "write", !.open = TRUE]
       \/ /\ dest[p].kind = "file" /\ run.overwrite
          /\ dest' = Fill(p, "partial")
          /\ run' = [run EXCEPT !.pc = "write", !.open = TRUE]
       \/ /\ IF dest[p].kind = "none" THEN ~Inside(p)
             ELSE ~(dest[p].kind = "file" /\ run.overwrite)
          /\ Fail
          /\ UNCHANGED dest
    /\ UNCHANGED <<runs, before>>

(* write_all and sync_all, into the file that was opened. *)
WriteFile(p) ==
    /\ run.pc = "write" /\ IsNext(p)
    /\ dest' = IF run.open THEN Fill(p, run.snapshot[p].data) ELSE dest
    /\ run' = [run EXCEPT !.pc = "verify", !.open = FALSE]
    /\ UNCHANGED <<runs, before>>

(* The path is read again and compared. *)
VerifyFile(p) ==
    /\ run.pc = "verify" /\ IsNext(p)
    /\ IF /\ dest[p].kind = "file"
          /\ dest[p].data = run.snapshot[p].data
       THEN WriteFrom(run.todo \ {p})
       ELSE Fail
    /\ UNCHANGED <<dest, runs, before>>

MakeLink(p) ==
    /\ run.pc = "link" /\ IsNext(p)
    /\ IF dest[p].kind = "none" /\ Inside(p)
       THEN Make(p, "link", "") /\ WriteFrom(run.todo \ {p})
       ELSE Fail /\ UNCHANGED dest
    /\ UNCHANGED <<runs, before>>

(* What set_restored_modified_timestamp can open at p. *)
Openable(p) ==
    \/ IsKind(p, "file") /\ dest[p].kind = "file"
    \/ IsKind(p, "dir")  /\ dest[p].kind \in {"file", "dir"}

(* apply_restored_modified_timestamp: applied, or warned of. *)
SetTime(p) ==
    LET ok == run.snapshot[p].time /\ Openable(p) IN
    /\ run.pc = "times" /\ IsNext(p)
    /\ dest' = IF ok THEN [dest EXCEPT ![p].time = "captured"] ELSE dest
    /\ run' = [run EXCEPT !.todo = @ \ {p}, !.warned = IF ok THEN @ ELSE @ \cup {p}]
    /\ UNCHANGED <<runs, before>>

TimesDone ==
    /\ run.pc = "times"
    /\ run.todo = {}
    /\ run' = [run EXCEPT !.pc = "done"]
    /\ UNCHANGED <<dest, runs, before>>

RunStep ==
    \/ CheckDone \/ TimesDone
    \/ \E p \in Paths : \/ CheckEntry(p) \/ MakeDirs(p) \/ OpenFile(p) \/ WriteFile(p)
                        \/ VerifyFile(p) \/ MakeLink(p) \/ SetTime(p)

(* An I/O error, a signal or a crash. *)
Kill ==
    /\ Running
    /\ run' = [run EXCEPT !.pc = "killed", !.todo = {}, !.open = FALSE]
    /\ UNCHANGED <<dest, runs, before>>

-----------------------------------------------------------------------------
(* Other programs in the destination *)

(* The file a restore has open is no longer the one at its path. *)
Unlinks(p) ==
    run' = IF run.open /\ IsNext(p) THEN [run EXCEPT !.open = FALSE] ELSE run

OtherMakes(p, kind) ==
    /\ Given.busy /\ Running
    /\ dest[p].kind = "none" /\ Inside(p)
    /\ Make(p, kind, IF kind = "file" THEN "old" ELSE "")
    /\ UNCHANGED <<run, runs, before>>

OtherWrites(p) ==
    /\ Given.busy /\ Running
    /\ dest[p].kind = "file"
    /\ dest' = Fill(p, "old")
    /\ UNCHANGED <<run, runs, before>>

OtherRemoves(p) ==
    /\ Given.busy /\ Running
    /\ dest[p].kind # "none"
    /\ \A q \in Paths : p \in Ancestors(q) => dest[q].kind = "none"
    /\ dest' = [Touch(dest, p) EXCEPT ![p] = Nothing]
    /\ Unlinks(p)
    /\ UNCHANGED <<runs, before>>

Step ==
    \/ /\ MayBegin
       /\ \E s \in Given.snapshots, request \in Given.requests, overwrite, dry_run \in BOOLEAN :
             Begin(s, request, overwrite, dry_run)
    \/ RunStep
    \/ Kill
    \/ \E p \in Paths : \/ OtherMakes(p, "file") \/ OtherMakes(p, "dir")
                        \/ OtherWrites(p) \/ OtherRemoves(p)

Next == Step /\ UNCHANGED setup

Spec == Init /\ [][Next]_vars

-----------------------------------------------------------------------------
(* Properties *)

(***************************************************************************)
(* The preflight is sufficient: when nobody else uses the destination, a   *)
(* restore whose entries all passed the safety checks never fails at a     *)
(* write, whatever the snapshot, the selection and the destination are.    *)
(***************************************************************************)
PreflightSuffices == ~Given.busy => run.pc # "failed"

(***************************************************************************)
(* A restore that is refused, and a dry run, leave the destination exactly *)
(* as it was, times included, however many entries passed their checks     *)
(* before the one that did not.                                            *)
(***************************************************************************)
RefusalChangesNothing ==
    ~Given.busy /\ (run.pc = "refused" \/ run.dry_run) => dest = before

(* What a restore owes at p; a path it does not select keeps what it held. *)
Restored(p) ==
    LET e == run.snapshot[p] IN
    CASE p \in run.selected /\ e.kind \in {"dir", "file"} ->
            /\ dest[p].kind = e.kind
            /\ dest[p].data = e.data
            /\ p \notin run.warned => dest[p].time = "captured"
      [] p \in run.selected /\ e.kind = "link" /\ e.time -> dest[p].kind = "link"
      [] OTHER -> \/ dest[p].kind = before[p].kind /\ dest[p].data = before[p].data
                  \/ before[p].kind = "none" /\ dest[p].kind = "dir"

(***************************************************************************)
(* A restore that reports success has put every selected entry in place,   *)
(* and their captured modification times are still there at the end: no    *)
(* later write of the same restore disturbed one.  Nothing else has        *)
(* changed, and exactly the entries whose metadata was not captured are    *)
(* warned of, by the dry run too.                                          *)
(***************************************************************************)
RestoredAsAsked ==
    ~Given.busy /\ run.pc \in {"done", "planned"} =>
        /\ run.pc = "done" => \A p \in Paths : Restored(p)
        /\ run.warned = Uncaptured(run.snapshot, run.selected, {"file", "dir", "link"})

(***************************************************************************)
(* Whatever other programs do between the checks and the writes, a restore *)
(* never damages what it did not make itself: without --overwrite no       *)
(* existing file changes, with it only files that are selected do, and no  *)
(* directory or link is ever replaced.                                     *)
(***************************************************************************)
NeverDamages ==
    [][RunStep => \A p \in Paths :
          \/ dest[p].kind = "none"
          \/ run.open /\ IsNext(p)
          \/ dest'[p].kind = dest[p].kind /\ dest'[p].data = dest[p].data
          \/ /\ run.overwrite /\ p \in run.selected
             /\ dest[p].kind = "file" /\ dest'[p].kind = "file"]_vars

(***************************************************************************)
(* An interrupted restore leaves at most one file half-written, a selected *)
(* one, all others being old or new; and into an empty destination it can  *)
(* be repeated: with --overwrite the same restore is refused only because  *)
(* of a link the first one has made, never because of a half-written file  *)
(* or a directory.  (RepeatAssumption says which restores are repeated.)   *)
(***************************************************************************)
KilledCanBeRepeated ==
    /\ ~Given.busy /\ runs = 1 => \A p, q \in Paths :
          dest[p].data = "partial" /\ dest[q].data = "partial" => p = q /\ p \in run.selected
    /\ runs > 1 /\ run.pc = "refused" /\ run.overwrite => \E p \in Paths : dest[p].kind = "link"

(***************************************************************************)
(* ls and restore agree on a snapshot: every entry a restore selected is   *)
(* shown by ls in its directory, if that has an entry; all that ls shows   *)
(* below a path selected was restored, other kinds and links without their *)
(* targets excepted; and a restore only warns of entries whose metadata ls *)
(* does not call complete, whatever else was captured of them.             *)
(***************************************************************************)
ListedIsRestored ==
    ~Given.busy /\ run.pc = "done" =>
        LET s == run.snapshot
            Shown(q) == ListEntries(s, q).entries IN
        /\ \A p \in run.selected \ {<<>>} :
              Front(p) = <<>> \/ s[Front(p)].kind # "none" =>
                  ListEntries(s, Front(p)).found /\ p \in Shown(Front(p))
        /\ \A q \in run.selected : \A p \in Shown(q) :
              \/ dest[p].kind = s[p].kind
              \/ s[p].kind = "other" \/ (s[p].kind = "link" /\ p \in run.warned)
        /\ \A p \in run.warned, lost \in {"unsupported", "denied"},
              others \in SUBSET {"captured", "unsupported", "denied"} :
                 MetadataStatus({lost} \cup others) # "complete"
=============================================================================
