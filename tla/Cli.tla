-------------------------------- MODULE Cli --------------------------------
(***************************************************************************)
(* The commands of ferry as their callers see them: processes that resolve *)
(* their configuration, open a repository, do one command, print and exit, *)
(* while other processes work on the same repositories.                    *)
(*                                                                         *)
(* Backup, Forget, Bootstrap, Restore and Integrity have what goes on      *)
(* inside the commands; here their effects on a repository are one step    *)
(* each, no object is damaged, and the subject is what the exit code and   *)
(* the output tell.                                                        *)
(***************************************************************************)
EXTENDS Config, Errors, Policy

CONSTANTS
    Procs,          \* processes
    Invocations,    \* command lines, with their environment
    ConfigFiles,    \* path -> configuration file
    Profiles,       \* names of profiles
    Secrets,        \* path -> Option of the text of a password file
    Beginnings,     \* the repositories at the start: place -> repository
    Ids,            \* snapshot ids, numbers
    Instants,       \* what the clock may read
    MaxRuns         \* bound: commands run

IsRepository(repo) ==
    /\ repo = [slots |-> repo.slots, snapshots |-> repo.snapshots, forgotten |-> repo.forgotten]
    /\ IsFiniteSet(repo.snapshots)
    /\ \A s \in repo.snapshots : s.id \in Ids /\ s.created_at \in Instants
    /\ \A s, t \in repo.snapshots : s.id = t.id => s = t

ASSUME CliAssumption ==
    /\ Ids \subseteq Nat /\ Instants \subseteq Nat /\ MaxRuns \in Nat
    /\ \A start \in Beginnings : \A place \in DOMAIN start : IsRepository(start[place])
    /\ \A start \in Beginnings, url \in DOMAIN Urls : Urls[url].form # "bare" =>
          Urls[url].place \in DOMAIN start \ {""}

Option(S) == {None} \cup {Some(x) : x \in S}

(* What is named on a command line and in a file is among the constants; only
   forget and restore have --dry-run. *)
ASSUME InvocationAssumption ==
    /\ \A i \in Invocations :
          /\ {i.flags.repo, i.env.repository} \subseteq Option(DOMAIN Urls)
          /\ {i.flags.config, i.env.config} \subseteq Option(DOMAIN ConfigFiles)
          /\ {i.flags.profile, i.env.profile} \subseteq Option(Profiles)
          /\ i.mode \in {"human", "json", "jsonl"}
          /\ i.dry_run => i.command \in {"forget", "restore"}
          /\ \A rule \in DOMAIN i.counts : i.counts[rule] \in Nat
    /\ \A path \in DOMAIN ConfigFiles :
          /\ ConfigFiles[path].profile \in Option(Profiles)
          /\ ConfigFiles[path].root.url \in Option(DOMAIN Urls)
          /\ \A profile \in DOMAIN ConfigFiles[path].profiles :
                ConfigFiles[path].profiles[profile].url \in Option(DOMAIN Urls)
    /\ {"fileferry.toml", ".fileferry.toml"} \subseteq DOMAIN ConfigFiles
    /\ "default" \in Profiles

VARIABLES
    repos,          \* place -> [slots, snapshots, forgotten]
    proc,           \* process -> its command, and how it ended
    given,          \* passphrases accepted: [place, kind, text] as it was given
    runs            \* commands run so far

vars == <<repos, proc, given, runs>>

(* A repository is initialized when it has a key slot. *)
Visible(repo) == {s \in repo.snapshots : s.id \notin repo.forgotten}

-----------------------------------------------------------------------------
(* Before the repository is touched *)

(* The operator ? along a sequence of errors, "" for none. *)
FirstFailure(errors) ==
    LET failed == {k \in DOMAIN errors : errors[k] # ""} IN
    IF failed = {} THEN "" ELSE errors[CHOOSE k \in failed : \A j \in failed : k <= j]

(* The first failure of: resolve_config, the policy, local_repository or
   init_repository_store, repository_passphrase, new_repository_passphrase. *)
Prepare(i) ==
    LET config == ResolveConfig(i.flags, i.env, ConfigFiles)
        policy == PolicyFromArgs(i.counts, i.tags)
        url == Repository(i.command, config.url, i.env.s3)
        pass == Passphrase(i.env, Secrets)
        new == NewPassphrase(i.new_password_file, i.env, Secrets)
        error == FirstFailure(<<IF config.error # None THEN config.error[1] ELSE "",
                                IF i.command = "forget" THEN policy.error ELSE "",
                                IF i.command # "version" /\ config.error = None THEN url ELSE "",
                                IF i.command # "version" THEN pass.error ELSE "",
                                IF i.command = "key add" THEN new.error ELSE "">>) IN
    [error |-> error,
     place |-> IF error = "" /\ i.command # "version" THEN Urls[config.url[1]].place ELSE "",
     pass |-> pass.text, new |-> new.text, policy |-> policy.policy]

(* snapshot_selection *)
Selection(i) ==
    IF i.snapshot # None /\ i.tag = None /\ ~i.latest THEN [by |-> "id", id |-> i.snapshot[1]]
    ELSE IF i.snapshot = None /\ i.tag # None /\ ~i.latest THEN [by |-> "tag", tag |-> i.tag[1]]
    ELSE [by |-> "latest"]

Matching(selection, S) ==
    CASE selection.by = "id"  -> {s \in S : s.id = selection.id}
      [] selection.by = "tag" -> {s \in S : selection.tag \in s.tags}
      [] OTHER                -> S

(* Mutant of SelectSnapshot: the greatest id, not the latest time. *)
SelectSnapshotById(S, selection) ==
    LET found == Matching(selection, S) IN
    {s \in found : \A t \in found : s.id >= t.id}

(* select_snapshot, compare_snapshot_manifests; the result has one element,
   or none. *)
SelectSnapshot(S, selection) ==
    LET found == Matching(selection, S) IN
    {s \in found : \A t \in found : ~After(t, s)}

(* snapshot_summaries: the order in which snapshots are printed. *)
Summaries(S) ==
    LET Before(s, t) == s.created_at > t.created_at
                        \/ (s.created_at = t.created_at /\ s.id > t.id) IN
    [k \in 1..Cardinality(S) |->
        CHOOSE s \in S : Cardinality({t \in S : Before(t, s)}) = k - 1]

-----------------------------------------------------------------------------
(* Output *)

(* The phases a command reports, with what it reports besides. *)
BackupPhases == <<"walk_sources", "plan_chunks", "write_chunks", "write_index",
                  "write_manifest", "write_commit", "complete">>

RestorePhases(warned) ==
    <<"load_manifest", "read_chunks", "write_entries", "apply_metadata", "verify", "complete">>
    \o (IF warned THEN <<"warning">> ELSE <<>>)

CheckPhases == <<"load_commits", "verify_metadata", "verify_indexes", "read_data", "complete">>

(* Of a dry run, too. *)
ForgetPhases == <<"load_snapshots", "evaluate_policy", "write_forget_state", "complete">>

Phases(p) ==
    CASE proc[p].inv.command = "backup"  -> BackupPhases
      [] proc[p].inv.command = "restore" -> RestorePhases(proc[p].warned)
      [] proc[p].inv.command = "check"   -> CheckPhases
      [] proc[p].inv.command = "forget"  -> ForgetPhases
      [] OTHER                           -> <<>>

(* emit_command and its like *)
Emit(mode, phases) ==
    CASE mode = "human" -> <<"text">>
      [] mode = "json"  -> <<"success">>
      [] mode = "jsonl" -> <<"command_started">> \o phases \o <<"command_completed">>

(* Mutant of RenderError: the phases come first, as if they had been met. *)
RenderErrorLate(mode, phases) ==
    CASE mode = "human" -> <<>>
      [] mode = "json"  -> <<"failure">>
      [] mode = "jsonl" -> <<"command_started">> \o phases \o <<"command_failed">>

(* render_error_output *)
RenderError(mode, phases) ==
    CASE mode = "human" -> <<>>
      [] mode = "json"  -> <<"failure">>
      [] mode = "jsonl" -> <<"command_started", "command_failed">>

(* All of the output is put together when the command is over. *)
Stdout(p) ==
    IF proc[p].error = "" THEN Emit(proc[p].inv.mode, Phases(p))
    ELSE RenderError(proc[p].inv.mode, Phases(p))

(* run_with_error_output *)
CodeOf(p) ==
    IF proc[p].error # "" THEN ExitCode(proc[p].error) ELSE IF proc[p].warned THEN 10 ELSE 0

-----------------------------------------------------------------------------
(* Steps of a process *)

NotRun == 0 - 1      \* no exit code yet
Panicked == 101
Killed == 137

Fresh == [pc |-> "idle", inv |-> None, place |-> "", pass |-> <<>>, new |-> <<>>,
          policy |-> NoRule, error |-> "", warned |-> FALSE, listed |-> {},
          selected |-> {}, chosen |-> {}, todo |-> {}, did |-> {}, began |-> {},
          out |-> <<>>, exit |-> NotRun]

Init ==
    /\ repos \in Beginnings
    /\ proc = [p \in Procs |-> Fresh]
    /\ given = {}
    /\ runs = 0

At(p, pc) == proc[p].pc = pc
Become(p, state) == proc' = [proc EXCEPT ![p] = state]
GoTo(p, pc) == Become(p, [proc[p] EXCEPT !.pc = pc])
Repo(p) == repos[proc[p].place]
Failed(state, error) == [state EXCEPT !.pc = "print", !.error = error]
Fail(p, error) == Become(p, Failed(proc[p], error)) /\ UNCHANGED <<repos, given, runs>>

(* A write is done and reported, done and reported as failed, or not done. *)
Write(p, repo, done) ==
    /\ \/ /\ repos' = [repos EXCEPT ![proc[p].place] = repo]
          /\ Become(p, done) \/ Become(p, Failed(done, "storage_object_io_failed"))
       \/ Become(p, Failed(proc[p], "storage_object_io_failed")) /\ UNCHANGED repos
    /\ UNCHANGED <<given, runs>>

(* main, run: up to the opening of the repository.  backup reads the clock;
   the runtime, or the current directory, may fail every command. *)
Start(p, i, ready) ==
    LET state == [Fresh EXCEPT
                    !.pc = IF i.command = "version" THEN "print" ELSE "open",
                    !.inv = i, !.place = ready.place, !.pass = ready.pass,
                    !.new = ready.new, !.policy = ready.policy,
                    !.began = IF ready.place = "" THEN {} ELSE Visible(repos[ready.place])] IN
    /\ proc[p].pc \in {"idle", "ended"}
    /\ runs < MaxRuns
    /\ runs' = runs + 1
    /\ IF ready.error # "" THEN Become(p, Failed(state, ready.error))
       ELSE \/ Become(p, state)
            \/ i.command # "version" /\ Become(p, Failed(state, "repository_runtime_failed"))
            \/ i.command = "backup" /\ Become(p, Failed(state, "system_clock_invalid"))
    /\ UNCHANGED <<repos, given>>

(* What a command does once the repository is open. *)
Opened(command) ==
    CASE command = "init"    -> "print"
      [] command = "key add" -> "add"
      [] command = "backup"  -> "commit"
      [] OTHER               -> "list"

(* create_repository, exists; open_repository *)
Open(p) ==
    /\ At(p, "open")
    /\ \/ /\ Repo(p).slots = {}
          /\ IF proc[p].inv.command = "init" THEN GoTo(p, "create")
             ELSE Become(p, Failed(proc[p], "repository_not_initialized"))
       \/ /\ Repo(p).slots # {}
          /\ IF proc[p].pass \in Repo(p).slots THEN GoTo(p, Opened(proc[p].inv.command))
             ELSE Become(p, Failed(proc[p], "repository_unlock_failed"))
       \/ Become(p, Failed(proc[p], "storage_object_io_failed"))
    /\ UNCHANGED <<repos, given, runs>>

(* create_repository: the put of the bootstrap object. *)
Create(p) ==
    /\ At(p, "create")
    /\ IF Repo(p).slots = {}
       THEN Write(p, [Repo(p) EXCEPT !.slots = {proc[p].pass}],
                  [proc[p] EXCEPT !.did = {"created"}, !.pc = "print"])
       ELSE Fail(p, "storage_object_already_exists")

(* add_repository_key_slot *)
AddKey(p) ==
    /\ At(p, "add")
    /\ Write(p, [Repo(p) EXCEPT !.slots = @ \cup {proc[p].new}],
             [proc[p] EXCEPT !.did = {"added"}, !.pc = "print"])

(* write_snapshot, of which the commit marker is the last write. *)
Commit(p) ==
    /\ At(p, "commit")
    /\ \/ \E id \in Ids \ {s.id : s \in Repo(p).snapshots}, t \in Instants :
             LET s == [id |-> id, created_at |-> t, tags |-> proc[p].inv.tags] IN
             Write(p, [Repo(p) EXCEPT !.snapshots = @ \cup {s}],
                   [proc[p] EXCEPT !.did = {s}, !.pc = "clock"])
       \/ \E error \in {"file_read_failed", "storage_object_already_exists"} : Fail(p, error)

(* backup: the time of completion. *)
ReadClock(p) ==
    /\ At(p, "clock")
    /\ GoTo(p, "print") \/ Become(p, Failed(proc[p], "system_clock_invalid"))
    /\ UNCHANGED <<repos, given, runs>>

(* load_repository_snapshots: what is visible now is listed. *)
Listed(p) == [proc[p] EXCEPT !.listed = Visible(Repo(p))]

(* The commands that load go on with what they make of it, or the store fails. *)
Load(p, commands, state) ==
    /\ At(p, "list") /\ proc[p].inv.command \in commands
    /\ Become(p, state) \/ Become(p, Failed(proc[p], "storage_object_io_failed"))
    /\ UNCHANGED <<repos, given, runs>>

ListSnapshots(p) == Load(p, {"snapshots"}, [Listed(p) EXCEPT !.pc = "print"])

(* ls and restore *)
Select(p) ==
    Load(p, {"ls", "restore"},
        LET selected == SelectSnapshot(Listed(p).listed, Selection(proc[p].inv)) IN
        IF selected = {} THEN Failed(Listed(p), "snapshot_not_found")
        ELSE [Listed(p) EXCEPT !.selected = selected,
                !.pc = IF proc[p].inv.command = "ls" THEN "entries" ELSE "restore"])

(* list_snapshot_entries *)
ListEntries(p) ==
    /\ At(p, "entries")
    /\ GoTo(p, "print") \/ Become(p, Failed(proc[p], "snapshot_path_not_found"))
    /\ UNCHANGED <<repos, given, runs>>

(* check_repository_with_options, which reads the clock at its end. *)
Check(p) ==
    /\ At(p, "list") /\ proc[p].inv.command = "check"
    /\ \/ GoTo(p, "print")
       \/ \E error \in {"storage_object_io_failed", "system_clock_invalid"} :
             Become(p, Failed(proc[p], error))
    /\ UNCHANGED <<repos, given, runs>>

(* forget: the plan. *)
PlanForget(p) ==
    Load(p, {"forget"},
        LET forgotten == PlanForgotten(proc[p].policy, Listed(p).listed) IN
        IF forgotten = {} THEN Failed(Listed(p), "forget_no_snapshots_matched")
        ELSE [Listed(p) EXCEPT !.chosen = forgotten, !.todo = forgotten,
                !.pc = IF proc[p].inv.dry_run THEN "print" ELSE "time"])

(* write_snapshot_forget_markers: the time of the markers. *)
MarkerTime(p) ==
    /\ At(p, "time")
    /\ GoTo(p, "mark") \/ Become(p, Failed(proc[p], "system_clock_invalid"))
    /\ UNCHANGED <<repos, given, runs>>

(* restore_snapshot_to_destination: as module Restore has it. *)
RestoreFiles(p) ==
    /\ At(p, "restore")
    /\ \/ \E warned \in BOOLEAN : Become(p, [proc[p] EXCEPT !.pc = "print", !.warned = warned])
       \/ \E error \in {"restore_destination_exists", "snapshot_path_not_found",
                        "restore_destination_write_failed"} : Become(p, Failed(proc[p], error))
    /\ UNCHANGED <<repos, given, runs>>

(* Mutant of Mark: the loop returns with its first marker. *)
MarkOne(p) ==
    LET s == CHOOSE s \in proc[p].todo : \A t \in proc[p].todo : s.id <= t.id IN
    /\ At(p, "mark")
    /\ Write(p, [Repo(p) EXCEPT !.forgotten = @ \cup {s.id}],
             [proc[p] EXCEPT !.did = {s}, !.pc = "print"])

(* write_snapshot_forget_markers, one marker.  The one that another process
   has written is the same only if it was written in the same second. *)
Mark(p) ==
    LET s == CHOOSE s \in proc[p].todo : \A t \in proc[p].todo : s.id <= t.id
        rest == proc[p].todo \ {s}
        state == [proc[p] EXCEPT !.todo = rest, !.pc = IF rest = {} THEN "print" ELSE "mark"] IN
    /\ At(p, "mark")
    /\ IF s.id \notin Repo(p).forgotten
       THEN Write(p, [Repo(p) EXCEPT !.forgotten = @ \cup {s.id}],
                  [state EXCEPT !.did = @ \cup {s}])
       ELSE \/ Become(p, state) /\ UNCHANGED <<repos, given, runs>>
            \/ Fail(p, "storage_object_already_exists")

(* What init and key add tell to be a passphrase of the repository. *)
Accepted(p) ==
    LET i == proc[p].inv
        Given(kind, text) == {[place |-> proc[p].place, kind |-> kind, text |-> text]} IN
    IF CodeOf(p) # 0 THEN {}
    ELSE IF i.command = "init"
    THEN IF i.env.password # None THEN Given("password", i.env.password[1])
         ELSE Given("file", Secrets[i.env.password_file[1]][1])
    ELSE IF i.command = "key add"
    THEN IF i.new_password_file # None THEN Given("file", Secrets[i.new_password_file[1]][1])
         ELSE IF i.env.new_password # None THEN Given("password", i.env.new_password[1])
         ELSE Given("file", Secrets[i.env.new_password_file[1]][1])
    ELSE {}

(* main: print! panics when the reader of the output has gone. *)
Finish(p) ==
    /\ At(p, "print")
    /\ \/ /\ Become(p, [proc[p] EXCEPT !.pc = "ended", !.out = Stdout(p), !.exit = CodeOf(p)])
          /\ given' = given \cup Accepted(p)
       \/ /\ \E n \in 0..(Len(Stdout(p)) - 1) :
                Become(p, [proc[p] EXCEPT !.pc = "ended", !.out = SubSeq(Stdout(p), 1, n),
                                          !.exit = Panicked])
          /\ UNCHANGED given
    /\ UNCHANGED <<repos, runs>>

(* The process is killed; nothing has been printed. *)
Kill(p) ==
    /\ proc[p].pc \notin {"idle", "ended"}
    /\ Become(p, [proc[p] EXCEPT !.pc = "ended", !.exit = Killed])
    /\ UNCHANGED <<repos, given, runs>>

Next ==
    \E p \in Procs :
        \/ \E i \in Invocations : Start(p, i, Prepare(i))
        \/ Open(p) \/ Create(p) \/ AddKey(p) \/ Commit(p) \/ ReadClock(p)
        \/ ListSnapshots(p) \/ Select(p) \/ ListEntries(p) \/ RestoreFiles(p) \/ Check(p)
        \/ PlanForget(p) \/ MarkerTime(p) \/ Mark(p) \/ Finish(p) \/ Kill(p)

Spec == Init /\ [][Next]_vars

-----------------------------------------------------------------------------
(* Properties *)

Ended(p) == At(p, "ended")
Command(p) == proc[p].inv.command

(* The command has done what it is for. *)
Achieved(p) ==
    Command(p) \in {"init", "key add", "backup", "forget"} =>
        /\ proc[p].place # ""
        /\ CASE Command(p) = "init"    -> proc[p].pass \in Repo(p).slots
             [] Command(p) = "key add" -> proc[p].new \in Repo(p).slots
             [] Command(p) = "backup"  -> \E s \in proc[p].did \cap Repo(p).snapshots :
                                             s.tags = proc[p].inv.tags
             [] Command(p) = "forget"  ->
                  \/ proc[p].inv.dry_run
                  \/ {s.id : s \in proc[p].chosen} \subseteq Repo(p).forgotten

(***************************************************************************)
(* A script can go by the exit code.  0 and 10: the command has done what  *)
(* it is for, and it stays done.  2, 3, 4, 7 and 9: nothing was written.   *)
(* (1, 5, 101 and a kill leave it open.)  After a forget with 0 or 7, of   *)
(* the snapshots it found only those are left that its policy keeps.       *)
(***************************************************************************)
ExitTellsEffect ==
    \A p \in Procs : Ended(p) =>
        /\ proc[p].exit \in {0, 10} => Achieved(p)
        /\ proc[p].exit \in {2, 3, 4, 7, 9} => proc[p].did = {}
        /\ Command(p) = "forget" /\ ~proc[p].inv.dry_run /\ proc[p].exit \in {0, 7} =>
              PlanForgotten(proc[p].policy, proc[p].listed \cap Visible(Repo(p))) = {}

(***************************************************************************)
(* Whatever part of its output is read, it is true: an event of a phase    *)
(* that writes (forget --dry-run excepted) and a completion are only seen  *)
(* when the repository has what they tell, also when the process ends      *)
(* otherwise than with 0.  A failure is told if and only if the command    *)
(* failed, unless the output was cut.                                      *)
(***************************************************************************)
OutputTellsEffect ==
    \A p \in Procs : Ended(p) =>
        LET out == {proc[p].out[k] : k \in DOMAIN proc[p].out} IN
        /\ out \cap {"text", "success", "write_commit", "write_forget_state", "command_completed"}
              # {} => Achieved(p)
        /\ out \cap {"failure", "command_failed"} # {} => proc[p].exit \notin {0, 10}
        /\ proc[p].exit \notin {Panicked, Killed} /\ proc[p].inv.mode = "jsonl" =>
              /\ proc[p].exit \in {0, 10} <=> "command_completed" \in out
              /\ proc[p].exit = 10 <=> "warning" \in out

UsesFile(i, path) ==
    \/ i.flags.config = Some(path)
    \/ i.flags.config = None /\ i.env.config = Some(path)
    \/ /\ i.flags.config = None /\ i.env.config = None
       /\ \/ path = "fileferry.toml"
          \/ path = ".fileferry.toml" /\ ConfigFiles["fileferry.toml"].status = "missing"

AsksProfile(i, file, profile) ==
    \/ i.flags.profile = Some(profile)
    \/ i.flags.profile = None /\ i.env.profile = Some(profile)
    \/ /\ i.flags.profile = None /\ i.env.profile = None
       /\ file.profile = Some(profile) \/ (file.profile = None /\ profile = "default")

(* The file has the url for the profile: in its section, or at the top for a
   section without one and for the default profile without a section. *)
HasUrl(file, profile, url) ==
    \/ profile \in DOMAIN file.profiles /\ file.profiles[profile].url = Some(url)
    \/ /\ file.root.url = Some(url)
       /\ IF profile \in DOMAIN file.profiles THEN file.profiles[profile].url = None
          ELSE profile = "default"

NamesPlace(i, place) ==
    \E url \in DOMAIN Urls :
        /\ Urls[url].place = place
        /\ \/ i.flags.repo = Some(url)
           \/ i.flags.repo = None /\ i.env.repository = Some(url)
           \/ /\ i.flags.repo = None /\ i.env.repository = None
              /\ \E path \in DOMAIN ConfigFiles, profile \in Profiles :
                    /\ UsesFile(i, path)
                    /\ AsksProfile(i, ConfigFiles[path], profile)
                    /\ HasUrl(ConfigFiles[path], profile, url)

(***************************************************************************)
(* Only the repository that was asked for is written to: by --repo, else   *)
(* the environment, else the profile asked for in the configuration file   *)
(* asked for; no missing profile or file makes a command fall back to      *)
(* another repository.  And only commands that write do: no listing, check *)
(* or dry run changes a repository.                                        *)
(***************************************************************************)
OnlyNamedRepository ==
    [][\A place \in DOMAIN repos : repos'[place] # repos[place] =>
          \E p \in Procs :
              /\ proc'[p] # proc[p]
              /\ NamesPlace(proc[p].inv, place)
              /\ Command(p) \in {"init", "key add", "backup", "forget"}
              /\ ~proc[p].inv.dry_run]_vars

(***************************************************************************)
(* A passphrase that init or key add accepted opens the repository when it *)
(* is given again the way it was given: the same variable, or the same     *)
(* file, with the line end an editor put there.                            *)
(***************************************************************************)
SecretsKeepOpening ==
    \A g \in given :
        LET again == [password |-> IF g.kind = "password" THEN Some(g.text) ELSE None,
                      password_file |-> Some("again")] IN
        Passphrase(again, [path \in {"again"} |-> Some(g.text)]).text \in repos[g.place].slots

(***************************************************************************)
(* A reader sees what was there when it began: the snapshot that ls or     *)
(* restore takes matches its selection and is not older than any matching  *)
(* one, unless that has been forgotten since; "not found" means that there *)
(* is none; and the first snapshot listed is the one --latest takes,       *)
(* whatever the clocks of the writers said.                                *)
(***************************************************************************)
ReadersSeeWhatWasThere ==
    \A p \in Procs : Ended(p) =>
        LET still == proc[p].began \cap Visible(Repo(p))
            wanted == Matching(Selection(proc[p].inv), still) IN
        /\ proc[p].selected # {} => \E s \in proc[p].selected :
              /\ proc[p].selected = {s} /\ s \in Matching(Selection(proc[p].inv), proc[p].listed)
              /\ \A t \in wanted : t = s \/ After(s, t)
        /\ proc[p].error = "snapshot_not_found" => wanted = {}
        /\ Command(p) = "snapshots" /\ proc[p].exit = 0 =>
              /\ still \subseteq proc[p].listed
              /\ proc[p].listed # {} =>
                    {Summaries(proc[p].listed)[1]} = SelectSnapshot(proc[p].listed, [by |-> "latest"])
=============================================================================
