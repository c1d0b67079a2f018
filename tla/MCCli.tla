------------------------------- MODULE MCCli -------------------------------
(***************************************************************************)
(* Instance of Cli: two local repositories and a bucket, one configuration *)
(* file with a profile, command lines that meet, each other and errors.    *)
(***************************************************************************)
EXTENDS Cli, TLC

MCUrls ==
    "/a" :> [form |-> "absolute", place |-> "a"] @@ "file:///b" :> [form |-> "file", place |-> "b"]
    @@ "s3://bucket" :> [form |-> "s3", place |-> "s3"] @@ "host" :> [form |-> "bare", place |-> ""]

Section(url) == [NoSection EXCEPT !.url = url]

MCConfigFiles ==
    "fileferry.toml" :> [NoFile EXCEPT !.status = "read", !.root = Section(Some("/a")),
                           !.profiles = "other" :> Section(Some("file:///b")) @@ "same" :> Section(None)]
    @@ ".fileferry.toml" :> [NoFile EXCEPT !.status = "read", !.root = Section(Some("file:///b"))]
    @@ "broken.toml" :> [NoFile EXCEPT !.status = "malformed"]

(* A password file as an editor leaves it, and none. *)
MCSecrets == "q" :> Some(<<"q", "\n">>) @@ "gone" :> None

Flags == [config |-> None, profile |-> None, repo |-> None, log_level |-> None, no_progress |-> FALSE]

Env == [config |-> None, profile |-> None, repository |-> None, log |-> None, s3 |-> FALSE,
        password |-> Some(<<"p">>), password_file |-> None,
        new_password |-> None, new_password_file |-> None]

Run(command) ==
    [command |-> command, flags |-> Flags, env |-> Env, mode |-> "jsonl", counts |-> <<>>,
     tags |-> {}, snapshot |-> None, tag |-> None, latest |-> FALSE, dry_run |-> FALSE,
     new_password_file |-> None]

Tag == [padded |-> FALSE, core |-> "t"]
Last(n) == "last" :> n

MCInvocations ==
    {[Run("init") EXCEPT !.flags.profile = Some("same")],
     [Run("init") EXCEPT !.env.password = None, !.env.password_file = Some("q")],
     [Run("init") EXCEPT !.flags.repo = Some("s3://bucket"), !.env.s3 = TRUE],
     [Run("init") EXCEPT !.flags.repo = Some("s3://bucket")],
     [Run("key add") EXCEPT !.new_password_file = Some("q")],
     [Run("key add") EXCEPT !.env.password = None, !.env.password_file = Some("q"),
                            !.env.new_password = Some(<<"r">>)],
     [Run("key add") EXCEPT !.env.new_password_file = Some("gone")],
     [Run("backup") EXCEPT !.tags = {Tag}],
     [Run("backup") EXCEPT !.env.profile = Some("other")],
     [Run("backup") EXCEPT !.flags.profile = Some("missing")],
     [Run("backup") EXCEPT !.flags.repo = Some("s3://bucket")],
     [Run("backup") EXCEPT !.env.config = Some("broken.toml")],
     [Run("snapshots") EXCEPT !.mode = "human"],
     [Run("ls") EXCEPT !.latest = TRUE, !.mode = "json"],
     [Run("restore") EXCEPT !.tag = Some(Tag)],
     [Run("restore") EXCEPT !.snapshot = Some(1), !.dry_run = TRUE],
     Run("check"),
     [Run("forget") EXCEPT !.counts = Last(1)],
     [Run("forget") EXCEPT !.counts = Last(1), !.dry_run = TRUE],
     [Run("forget") EXCEPT !.counts = Last(0)],
     [Run("version") EXCEPT !.env.repository = Some("host")]}

Symmetry == Permutations(Procs)

NoRepository == [slots |-> {}, snapshots |-> {}, forgotten |-> {}]

(* Ids in another order than the times. *)
InUse == [slots |-> {<<"p">>}, forgotten |-> {},
          snapshots |-> {[id |-> 1, created_at |-> 2, tags |-> {}],
                         [id |-> 2, created_at |-> 1, tags |-> {Tag}]}]

MCBeginnings ==
    {"a" :> a @@ "b" :> InUse @@ "s3" :> NoRepository : a \in {NoRepository, InUse}}
=============================================================================
