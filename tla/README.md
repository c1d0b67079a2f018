# FileFerry: TLA+ models, model checking and proofs

FileFerry (`ferry`) makes encrypted, deduplicated snapshots of directory trees
in a repository that is a local directory or an S3-compatible bucket. There is
no server and no lock: every command is a process that reads and writes
immutable objects, and any number of commands may work on one repository at
once, be interrupted, and be repeated. What keeps a repository consistent is
the order of the writes and the contract of `put_if_absent`. That is what this
directory models.

Modules named `MC...` are instances for TLC, modules named `...Proofs` hold
theorems that `tlapm` checks, and `PROJECT.json` maps every definition to the
lines it models. Paths below are relative to `src/crates/`.

## The system

| Component | State it keeps | Operations | Hard behaviour |
|---|---|---|---|
| Backup pipeline, `fileferry-core` `write_snapshot` | entries, index entries, manifest body | walk, read, chunk, `exists`, `put_if_absent` of chunks, index, manifest, commit marker | overlapping runs, interruption between any two writes, files that change between walk and read |
| Source walker, `SourceWalker` | directories to list, entries | capture root, list a directory, capture a child, `ExclusionRule::matches` | the tree changes under it; several roots; globs |
| Discovery and forgetting, `read_committed_snapshot_manifests`, `write_snapshot_forget_markers` | forgotten ids, manifests, markers to write | list `forgets/`, list `commits/`, load manifests, plan, write markers | listings are not atomic, snapshots are not committed in the order of their times, a plan is applied one marker at a time |
| Retention policy, `fileferry-policy` | kept sets | `parse_spec`, `validate`, `plan`, `keep_periodic`, `civil_from_days` | bucket boundaries, ties, gaps, calendar arithmetic, malformed policies |
| Readers: check, content restore | chunk targets, indexes, contents | read marker, manifest, index, chunk | objects lost, garbled or misplaced before or while reading |
| Restore to a destination, `restore_snapshot_to_destination` | plan, warnings | safety checks, directories, files, links, times | check-then-write, kill and repeat, other programs in the destination |
| Local store, `fileferry-storage` `LocalStore` | temporary files, `NEXT_TEMP_ID` | `put_if_absent`, `delete`, `list_prefix` | crash at any system call, reuse of process ids, power loss, listings beside writers |
| Remote store, `PolicyObjectStore` around `S3Store` | permits, attempts | permit, attempt, timeout, backoff, get, put | a request outlives the timeout of its caller |
| Bootstrap and key slots | bootstrap object, slots | `create_repository`, `open_repository`, `add_repository_key_slot` | racing inits and adds |
| Command line, `fileferry-cli` | resolved configuration, output, exit code | resolve flags, environment and files; open; the commands; render; print; exit | errors after the effect, readers of the output that go away, fallbacks to another repository, other processes between listing and use |
| Cryptography, chunking, compression, most platform metadata, homepage, test kit | | | not modelled, see the end |

Interaction: the pipeline, discovery and bootstrap call the store only through
`ObjectStore` (`put_if_absent`, `get`, `exists`, `list_prefix`; nothing calls
`delete`). Commands share nothing but the repository. Both backends promise the
same thing, which module `ObjectStore` states, and the modules above the store
use it as one atomic step per call.

What makes the components correct:

- a commit marker leads only to complete snapshots, at all times;
- a snapshot is hidden only by a policy that does not keep it, whatever
  commits or lists at the same time, and the newest snapshot stays listed;
- a reader returns what was backed up or fails;
- a restore refused at any entry has changed nothing, one that passed its
  checks does not fail later, and nothing it was not asked to replace changes;
- an object appears once, whole, and every answer about it stays true;
- all successful inits and key adds are about one repository and their
  passphrases keep opening it;
- a walk leaves out nothing but what an exclusion pattern means, and `ls`,
  `snapshots` and `restore` agree on what there is;
- exit code and output tell what has been done, and only to the repository
  that was asked for.

## Modules

Two abstract specifications say what a user and a caller may rely on.

- `Catalog`: a repository is a growing set of published snapshots with their
  contents and a growing set of forgotten ones. `Backup` and `Forget`
  implement it.
- `ObjectStore`: the immutable write contract. A key goes from absent to one
  value in one step inside a call, and a call's answer (`created`,
  `already_present`, `conflict`) is true at an instant of the call.
  `LocalStore` implements it; `Lose` is what power loss may do to it.

Detailed specifications:

- `Backup`: `write_snapshot` in several processes (`fileferry-core/src/lib.rs`
  1028-1259). `run[r]` is the local state of one invocation, with one step per
  await: `WalkEntry`, `ReadFile`, `ChunkExists`, `PutChunk`, `AllRead`,
  `WriteIndex`, `WriteManifest`, `WriteCommit`; `Stop` is an error, a signal or
  a crash at any of them; `ChangeFile` is another program. An id is a keyed
  hash, so it is represented by what it hashes; a ciphertext is its plaintext
  and a fresh nonce, so that the same plaintext sealed by two runs has two
  byte strings. The history variable `overlapped` has the runs that were
  active together with another.
- `Forget`: all commands that list snapshots (1307-1420 and the CLI's
  `snapshots`, `forget`). A listing returns what was there when it began and
  any part of what was added while it ran. `Stamp` and `Commit` are the two
  moments of a backup that matter here; `SetClock` may set the clock back.
- `Retention`: the plan as rules over sets (`KeepLast`, `KeepPeriodic`,
  `KeepTags`), the buckets and `civil_from_days`. `RetentionLoop`: the loops of
  `plan` and `keep_periodic`, and a calendar that counts days, for comparison.
  `Policy`: policies as they are written, from a text (`parse_spec`) or from
  the flags of `forget`; `RetentionLoop` writes texts part by part.
- `Exclusion`: `ExclusionRule` character by character. `Matches` is what the
  code computes, from the pieces of a pattern between its slashes and stars and
  the first place where each fits (`Taken`). `Means` is how a glob is
  understood, from what the beginnings of a pattern can stand for (`StandFor`).
  `Walk`: `SourceWalker::walk` with these rules, and the path rules of
  `validate_snapshot_manifest`. The children of a listed directory are a set,
  visited in the order they are sorted to (`NextChild`).
- `Errors`: failure code to exit code, retryability and finding of a check,
  used by `Integrity` and `Cli`.
- `Integrity`: `check_repository_with_options` in its three modes,
  `restore_snapshot_contents` and discovery, over a store that loses, garbles
  and misplaces objects. What is found under a key is the key it was written
  under, `Junk` or `Absent`; `Opens` is what authentication and the id check
  accept. A reader that fails has the error and the object it blames.
- `Restore`: every system call of a restore, files and links and times, and
  what other programs do in between; the normalization of requested paths, and
  `ls` (`ListEntries`). The paths still to be done are a set, and `IsNext` says
  which is next: the `First` by kind, in the order of the writes (`WriteOrder`:
  directories, files, links) or of the times (`TimeOrder`: files, directories),
  and within a kind in the order of the manifest. `Given` is the setup of a behaviour.
- `LocalStore`: `put_if_absent` one system call at a time, the temporary names,
  process death, write-back of directory entries (`FlushEntry`), `PowerLoss`.
  `list_prefix` opens and reads one directory after the other (`OpenDir`,
  `ReadDir`); what is made or removed while a directory is read may be found
  or not. The order in which directories are read is left open.
- `RemoteStore`: `PolicyObjectStore::run` around `S3Store::put_if_absent`. A
  timeout moves the caller on and leaves the request in `flight`, to be
  executed at any later time, or refused.
- `Bootstrap`: init, open and key add, one step per store call; `Land` is a put
  that was given up and is executed later.
- `Config`: `resolve_config` over flags, environment and two configuration
  files, the place a repository URL names, and the passphrases with the line
  ends of password files.
- `Cli`: all commands as processes on several repositories. `Prepare` has
  everything that may fail before a repository is touched, in its order;
  effects are one step each, since the modules above take them apart; then
  `Finish` prints, to a reader that may be gone, and exits. `Kill` is a signal.
  The history `given` has the passphrases accepted, as they were given.

A definition `XMutated` that its comment calls a mutant of `X` is a plausible
bug in the code of `X`, and the property it is listed with in `PROJECT.json`
must catch it.

## Runs

Variables that never change (`setup`, `policy`, `changed`) let one run cover
several configurations; their values are constants.

| Run | Bounds | Shows |
|---|---|---|
| `Backup` | 3 runs, 1 file that is absent, empty, `xy` or `yx`, 2 seconds | committed snapshots are complete; snapshot ids are distinct; of runs in a chunk race one survives; a run alone never conflicts on a chunk; implements `Catalog` |
| `Forget` | 2 commands with different policies, 3 backups (one tagged), the seconds around midnight | `ForgottenByPolicy`, `ForgetReachesPolicy`, `LatestIsFresh`, implements `Catalog` |
| `RetentionLoop` | up to 3 snapshots from 8 times at bucket bounds and 3 ids, 13 policies; policy texts of up to 4 parts of 15 kinds; days to 2101-06 | loops keep what the rules say; `civil_from_days` is the calendar; an accepted text means exactly its rules (`SpecMeansRules`) |
| `LocalStore` | 2 callers in two processes or one, 1 key, 2 contents, 2 temporary ids, process death and power loss; 1 caller with 2 keys at different depths beside a listing | implements `ObjectStore`; no torn object; temporary names of live calls differ; `ListingIsComplete` |
| `RemoteStore` | 2 callers with 2 and 1 calls, 2 attempts; conditional create with 2 permits, fallback with 1 | answers stay true and there is one creator; every call returns |
| `Bootstrap` | 3 inits, 3 adds | runs agree on the repository and count no slot that is not there; nobody is locked out |
| `Integrity` | 2 snapshots sharing a chunk, 3 chunks, 2 files, 1 fault, any set of snapshots with changed files | exact restores, checks that vouch for what they read, hiding only what was forgotten, failures that blame a bad object with exit code 6 |
| `Restore` | 4 paths; 200 manifests, 6 requests, 25 destinations; kill and repeat; a busy destination | the six properties of the module |
| `Walk` | 9 paths in two trees; all patterns of up to 3 characters of `ab*/` and 12 longer ones; 5 trees that change up to 3 times; two roots | readers accept a walk exactly when it had one directory as source; a walk loses nothing; excluded paths are pruned |
| `Cli` | 2 processes that run 2 of 21 command lines; 2 local repositories and a bucket, new or with two snapshots whose ids and times are in opposite order; 2 readings of the clock, or none | exit code, output, configuration, selection and passphrases, below |
| `Backup_dedup_doc`, `Backup_discover_doc` | as `Backup`, smaller | two disagreements with the documents, below |

What the `Cli` run says. `ExitTellsEffect`: 0 and 10 mean that the command has
done what it is for; 2, 3, 4, 7 and 9 that nothing was written; after a forget
with 0 or 7 its policy is reached. `OutputTellsEffect`: no event or result is
printed that is not true of the repository, and a terminal event fits the exit
code. `OnlyNamedRepository`: what is written to is named by the flag, else the
environment, else the profile and file asked for. `SecretsKeepOpening`: the
passphrase a repository is opened with and the one `key add` adds are read by
different functions, which must agree. `ReadersSeeWhatWasThere`: selection by id, tag and time, beside forgets
and backups.

Why these bounds are enough to be interesting. Two chunks in both orders let
each of two runs upload what the other needs next; the third run comes after a
race, or is a third party in it. Two commands and three backups let a plan be
overtaken by a commit, a commit arrive with an older time than one already
planned over, and one forget hide part of another's plan. A process that dies
and one more call under the same process id reach the leftover temporary file.
A listing and two puts let an object be there before the listing, appear in a
directory not yet read, being read, or read already, and be deleted again; the
listing has no part in process death in its larger case (`fails`), which
changes nothing for it. Two attempts and a second call let a request of the
first attempt be executed during the second attempt, after the call, and during
the next call. One fault reaches every wrong object under every key; two
faults, exchanges of objects included, exceed what TLC finishes in minutes and
give a reader no new kind of wrong object. Names `ab` and `abab` are what
patterns with stars can overlap themselves on. Two command lines let each
command meet the effect, the failure and the death of each other one between
any two of its steps.

Fairness is assumed in `RemoteStore` only. Weak fairness of a caller's own
steps: the runtime polls a task that can go on, and its timers fire, so a
pending attempt is answered or times out. Strong fairness of `Acquire`: the
semaphore serves its waiters in order. Nothing is assumed of the service: it
may never answer. `EveryCallReturns` says that a call that waits for a permit
or for an answer comes to an end.

Deadlock is not checked: in all models the commands end and may leave nothing
to do.

## Proofs

Eight modules hold theorems; all are about every value of the constants that
satisfies the named `ASSUME`s, which TLC evaluates in the runs. Each proof has
the same layout: an invariant that is inductive, one lemma per action that
keeps it, and the property from the invariant. What the property lacks to be
inductive is always the same kind of thing, what a process in the middle of its
work knows, and what makes the proofs go through without locks is that stores
only grow: what holds of one process survives the steps of the others.

`BackupProofs`, for any number of runs, files, chunks, contents and seconds:

- `TypeCorrect`, `CommittedSnapshotsComplete`, `SnapshotsOfTheirOwn`.
  `CommittedComplete` is not inductive: nothing in it speaks of runs that have
  not committed. `Inv` adds, for the local state of each run, that every
  indexed chunk is stored (`IndexOK`), that every chunk of an entry is indexed
  or still queued (`EntriesOK`), and that a body past the index write has its
  own sealed index (`BodyOK`). The store only grows, so what holds of a run
  survives the steps of others (`RunOKGrows`). An index id is sealed once
  (`SealedOnce`), so two runs cannot both have sealed the index of one body,
  which gives distinct snapshot ids.
- `AloneNeverConflicts`: `Alone` says that two active runs are both in
  `overlapped` and that a run outside it that is about to put a chunk does not
  find it stored.
- `RacesHaveSurvivors`: as soon as a chunk is stored there is a run that stored
  one and has not failed on a chunk, since a run that stores a chunk is itself
  in no conflict (`Survivor`).
- `BackupImplementsCatalog`: besides `Inv`, that what a run has in its entries
  is what the file held at some time (`EntriesRead`). A commit maps to
  `Publish`, every other step to a stutter.

The same module holds the proofs of `Walk` and `Exclusion`, for any patterns,
roots and trees, any number of changes by other programs, and any names:

- `OneDirectoryIsAccepted`. `Tidy` says that no path is captured, left to visit
  or left to list twice, and that everything above a captured path is captured
  as a directory; it holds as long as one root has been captured (`OneRootInv`).
- `NothingIsLost`. `LossInv` says of every path that was there throughout, and
  that no rule matches at or above it, that it is captured, or that a directory
  above it is left to list, or a child at or above it left to visit. The roots
  that are done have nothing left, so all of theirs is captured.
- `ExclusionPrunes`. `PruneInv`: what is captured or queued has nothing at or
  above it that a rule matches, and what is left to visit nothing above it.
- `MatchesWhatIsMeant`, for every pattern and path: what `Matches` excludes the
  pattern means, and what the pattern means `Matches` excludes or `MayMiss` has.
  The two walk invariants speak of `Matches` and the properties of `Means`, so
  this is what connects them (`RulesMean`). In its proof, what the loop of
  `wildcard_match` has used up of a name is the least that the pattern up to
  there can stand for (`TakenIsLeast`), which makes taking the first place safe
  except for the literal at the end, and there only when it fits twice.
- The recursive functions are shown to exist (`Recursion`) and to have their
  properties by induction over sets of numbers (`Upwards`, `FromBelow`), which
  follow from the least element of a set of naturals (`WFMin`).
- Assumed: beginnings of paths are paths, and what is above something in the
  tree at the start is a directory (`WalkAssumption`).

`ForgetProofs`, for any number of backups and commands and any policies with
counts in `Nat`:

- `KeptAntitone`: what a policy keeps among some snapshots it keeps among any
  part of them that has it. This is the fact that makes forgetting safe
  without locks: a plan is made over a part of what is committed.
- `TypeCorrect`, `ForgetsFollowPolicies`, `ForgetsReachPolicies`,
  `ListingsAreFresh`, `ForgetImplementsCatalog`. `Inv` relates each command's
  markers, listing and remaining plan to `commits` and `Hidden`. `LatestIsFresh`
  needs that the newest committed snapshot is never hidden when every policy
  has a count (`NewestVisible`), which follows from `NewestKept`.
- `LoopsKeepByRule`, for the loops in `RetentionLoop`. `LoopInv` says that the
  snapshots a loop has passed are the newer ones, that it has kept of them what
  the rule keeps, and the rules before it theirs; a loop that ends early has
  filled its count, so the rule keeps none of the older ones.
- `CivilIsTheCalendar`, for every day from 1970-01-01 on: the step from one day
  to the next is taken in the arithmetic of `civil_from_days` and in the
  calendar, and they agree within a year, from year to year and from era to era
  (`CivilTomorrow`).
- `SpecIsRules`, for texts of any length. `ReadInv` says what the parts read so
  far come to, and that an error has been noted if and only if one of them does
  not fit those before it.

`BootstrapProofs`, for any number of inits and adds: `SuccessfulRunsAgree`,
`NobodyLockedOut`, `KeysAreOnlyAdded`. `Inv` says of each run what it read of the
bootstrap object and the slots (`RunOK`), and that a slot is stored, or on its
way, only when the run that adds it has ended, so that no run counts its own.

`LocalStoreProofs`, for any tasks, processes and reuse of process ids, and any
keys none of which is a prefix of another or begins with the directory of
temporary files (`object_key_for_*` makes no others):

- `TempNamesAreDistinct` and `ObjectsAreWhole`. `PutInv` says that two calls in
  progress never have one temporary name and what the temporary file of a call
  holds at each of its system calls.
- `LocalStoreImplementsContract`: the link of the temporary file is the step of
  the contract, power loss is `Lose`.
- `ListingsAreComplete`: `ListInv` follows each object that was there throughout:
  its directory is still to be read, is being read, or the object is found.

`RemoteStoreProofs`, for any clients, calls and attempts. `AnswersRemainTrue` is
proved under `CallersAgree`: with conditional create nothing else is assumed;
without it, callers must write the same bytes under a key, since the fallback
checks first and overwrites. The run has setups of both kinds. `PermitsConserved`
counts the calls that hold a permit.

`IntegrityProofs`, for any repository, any damage at any time, any commands:
`RestoresAreExact`, `HiddenAreForgotten`, `ChecksAreThorough`, `FailuresAreTold`.
What a reader has read decides (`RestoreKnows`, `MarkersKnown`, `PassedKnown`,
`VerifiedKnown`), since an object may be damaged as soon as it has been read. For
the share of a percent check the proof counts chunks by their rank (`Rank`).

`RestoreProofs`, for any manifest, selection and destination:

- `ChecksSuffice`, `RefusalsAreHarmless`, `SuccessMeansRestored`. `Alone` says of
  every entry where it stands: checked, made, written, or with its time applied.
  What the checks found stays true until an entry is written because a manifest
  has no entry below a file or a link, and directories come first.
- `RestoreDamagesNothing`, also with other programs in the destination, and
  `KilledRestoresRepeat`, with the invariant of one run as the start of the next
  (`RepeatInv`). `ListingsAgreeWithRestores` relates two separate computations of
  a subtree.
- Assumed of the constants: `Order` ranks the paths without repetition, parents
  of paths are paths, no destination begins with a half-written file
  (`RestoreAssumption`); paths of a manifest are normal (`NormalAssumption`: the
  walker makes no others); a setup in which commands are repeated has no other
  programs, no partial selection, and destinations that are trees
  (`RepeatAssumption`: it is what `KilledCanBeRepeated` is about).

`CliProofs`, for any processes, repositories, command lines, files and
environments:

- `ExitCodesAreTrue`, `OutputIsTrue`, `SecretsAreKept`, `ReadersAreUpToDate` and
  the action property `WritesGoWhereAsked`. `Inv` says of each process that it
  works with what its command line came to (`PreparedOK`), that its place in the
  program and its error belong to its command (`CommandOK`), what it has written
  (`DidOK`, `AchievedOK`), how far its plan is (`ForgetOK`), what it has seen
  (`ListedOK`) and what it printed (`OutOK`).
- `PrepareTells` and `ConfigNamesUrl` carry the configuration: they take
  `resolve_config` apart into what `OnlyNamedRepository` says of flags,
  environment, file and profile. `ExitCodesAreTrue` rests on the exit codes of
  the errors that may come after a write (`LateErrors`) and, for a forget, on
  `KeptAntitone`.
- Assumed: repositories at the start are finite and have one snapshot per id, a
  URL that is not bare names a repository (`CliAssumption`); command lines and
  files name only what is among the constants, and only `forget` and `restore`
  have `--dry-run` (`InvocationAssumption`).

Every invariant, action property and refinement of the runs that pass is stated
by one of these theorems. Only model-checked is `EveryCallReturns`: liveness
under fairness is out of the prover's reach.

## Where code and documents disagree

With a run:

- `Backup_dedup_doc`: when two backups upload the same chunk, the slower one
  fails with `ObjectAlreadyExists`, because each sealed it with its own nonce
  (`fileferry-core/src/lib.rs:1132`; `docs/repository-format.md:268` says races
  are handled by idempotent writes). No data is lost, and not all runs fail
  (`DedupRaceHasSurvivor`).
- `Backup_discover_doc`: a file that changes between walk and read gives a
  committed manifest that `validate_snapshot_manifest` rejects, which makes
  every later listing fail.

Without a run of their own; the models take these steps:

- The chunk index is put without an `exists` check, so a run that builds the
  same index as an earlier one (`index_conflict` in `Backup`) fails, although
  `docs/repository-format.md:14` calls writes retry-safe. It is also what keeps
  snapshot ids distinct.
- `LocalStore` syncs the file and not the directory, so a created object can be
  absent after power loss (`PowerLoss`), although
  `docs/repository-format.md:190` speaks of durably written objects.
- Discovery skips a marker that names a forgotten snapshot before it compares
  the marker with its key (`ReadCommit` in `Integrity`,
  `fileferry-core/src/lib.rs:1324`), although
  `docs/repository-format.md:215` says the two are validated.
- Two sources, or one that is a file, give entries that the validation of
  every reader rejects: the backup succeeds, and listings fail from then on
  (`OneDirectoryIsValid` states when).
- `forget --dry-run` prints the event of phase `write_forget_state` although
  it writes nothing (`ForgetPhases` in `Cli`).
- `wildcard_match` takes the first place where a literal fits: `*ab` does not
  match `abab`. A directory rule with `**`, such as `**/b/`, only matches at
  the depth that is its number of segments. `MayMiss` in `Exclusion` has
  exactly these cases; nothing is ever excluded too much. The CLI passes no
  exclusion rules at all (`fileferry-cli/src/lib.rs:1610`).
- A policy that only keeps tags may forget every snapshot. `parse_spec` trims
  tags, the flags of `forget` do not.
- An S3 repository can be initialized and not used: only `init` makes a remote
  store.
- A `--profile` without a configuration file is ignored.
- `ls` of a path whose directory has no entry of its own finds nothing, while
  `restore --path` takes it.

## Not modelled

- Key derivation, encryption and hashing: taken as ideal. An id stands for what
  it hashes, a ciphertext opens only under its own key and context.
- FastCDC boundaries and zstd, numeric code of libraries: a file is a sequence
  of chunks.
- Platform metadata beyond kind, time and link target.
- Symbolic links placed by other programs during a restore; other programs
  make files and directories, write and remove.
- `S3Store::delete`, which no command calls, and the paging of remote listings.
- Of the CLI, parsing by clap, completions, redaction and wording.
- The homepage and the test kit, which keep no state of the backup system.

One hazard has no property: an object whose directory entry was never synced
may be gone after power loss. `LocalStore` models the loss, and the contract it
implements has it as `Lose`.

## Plan

Done: the modules above, in the order `Backup`, `Forget` with `Retention`,
stores, `Bootstrap`, `Integrity`, `Restore`, `Walk` with `Exclusion`, `Policy`,
`Errors`, `Config` and `Cli`, and the proofs of all of them.

What a next step could be: the paging of remote listings, and symbolic links
that other programs place in the destination of a restore.
