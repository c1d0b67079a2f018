------------------------------- MODULE Config -------------------------------
(***************************************************************************)
(* What a command works with: resolve_config over flags, environment and   *)
(* configuration files, the place a repository URL names, and the          *)
(* passphrases.  An Option is a sequence of at most one element.  Each     *)
(* operator returns either a record with its results and error = None, or  *)
(* one with the error.                                                     *)
(***************************************************************************)
EXTENDS Naturals, Sequences

CONSTANT Urls       \* URL -> [form, place]: how it is written, what it names

None == <<>>
Some(x) == <<x>>

(* Option::or, along a sequence of options. *)
FirstOf(options) ==
    LET given == {k \in DOMAIN options : options[k] # None} IN
    IF given = {} THEN None ELSE options[CHOOSE k \in given : \A j \in given : k <= j]

LogLevels == {"trace", "debug", "info", "warn", "error"}
ProgressModes == {"auto", "always", "never"}

(* FileConfig and ProfileConfig; status is what read_config meets. *)
NoSection == [url |-> None, log |-> None, progress |-> None]
NoFile == [status |-> "missing", profile |-> None, root |-> NoSection, profiles |-> [p \in {} |-> NoSection]]

Refused(error) == [error |-> Some(error), url |-> None, profile |-> None, log |-> None, progress |-> None]

(* Mutant of ProfileSection: a profile that is not there is passed over. *)
ProfileSectionLenient(file, profile) ==
    IF profile \in DOMAIN file.profiles THEN Some(file.profiles[profile]) ELSE Some(NoSection)

(* The section of the profile.  Only a file can lack the profile asked for:
   without one, and for the default profile, there need be no section. *)
ProfileSection(file, profile) ==
    IF profile \in DOMAIN file.profiles THEN Some(file.profiles[profile])
    ELSE IF file.status = "missing" \/ profile = "default" THEN Some(NoSection)
    ELSE None

(* resolve_config_with_env; configs has the file of every path. *)
ResolveConfig(flags, env, configs) ==
    LET Exists(path) == IF configs[path].status = "missing" THEN None ELSE Some(path)
        config_path == FirstOf(<<flags.config, env.config,
                                 Exists("fileferry.toml"), Exists(".fileferry.toml")>>)
        file == IF config_path = None THEN NoFile ELSE configs[config_path[1]]
        profile == FirstOf(<<flags.profile, env.profile, file.profile, Some("default")>>)
        section == ProfileSection(file, profile[1])
        Setting(given, key) == FirstOf(<<given, section[1][key], file.root[key]>>)
        url == Setting(FirstOf(<<flags.repo, env.repository>>), "url")
        log == FirstOf(<<Setting(FirstOf(<<flags.log_level, env.log>>), "log"), Some("info")>>)
        progress == IF flags.no_progress THEN Some("never")
                    ELSE FirstOf(<<Setting(None, "progress"), Some("auto")>>) IN
    IF config_path # None /\ file.status = "missing" THEN Refused("config_read_failed")
    ELSE IF file.status = "malformed" THEN Refused("config_parse_failed")
    ELSE IF section = None THEN Refused("config_profile_missing")
    ELSE IF url # None /\ Urls[url[1]].form = "bare" THEN Refused("config_repository_url_invalid")
    ELSE IF log[1] \notin LogLevels THEN Refused("config_log_level_invalid")
    ELSE IF progress[1] \notin ProgressModes THEN Refused("config_progress_invalid")
    ELSE [error |-> None, url |-> url, profile |-> profile, log |-> log, progress |-> progress]

(* s3_repository_config, parse_s3_repository_url: the url, then what the
   environment has to have besides. *)
S3Repository(form, s3_environment) ==
    IF form = "s3_invalid" THEN "repository_s3_url_invalid"
    ELSE IF ~s3_environment THEN "repository_s3_environment_missing" ELSE ""

(* local_repository_path *)
LocalPath(form) ==
    CASE form \in {"s3", "s3_invalid"} -> "repository_url_unsupported"
      [] form = "file_relative"        -> "repository_file_url_invalid"
      [] OTHER                         -> ""

(* local_repository, and init_repository_store: only init takes a bucket. *)
Repository(command, url, s3_environment) ==
    LET form == Urls[url[1]].form IN
    IF url = None THEN "repository_url_missing"
    ELSE IF command = "init" /\ form \in {"s3", "s3_invalid"}
    THEN S3Repository(form, s3_environment) ELSE LocalPath(form)

-----------------------------------------------------------------------------
(* Passphrases: sequences of characters, an Option where one may be absent *)

(* trim_end_matches *)
TrimEnd(text) ==
    LET Ends(n) == \A k \in (n + 1)..Len(text) : text[k] \in {"\r", "\n"} IN
    SubSeq(text, 1, CHOOSE n \in 0..Len(text) : Ends(n) /\ (n > 0 => ~Ends(n - 1)))

(* repository_passphrase; an unreadable file is an absent text in secrets. *)
Passphrase(env, secrets) ==
    IF env.password # None THEN [error |-> "", text |-> env.password[1]]
    ELSE IF env.password_file = None
    THEN [error |-> "repository_password_missing", text |-> <<>>]
    ELSE IF secrets[env.password_file[1]] = None
    THEN [error |-> "repository_password_file_read_failed", text |-> <<>>]
    ELSE [error |-> "", text |-> TrimEnd(secrets[env.password_file[1]][1])]

(* Mutant of NewPassphraseFile: the line end stays part of the passphrase. *)
NewPassphraseFileRaw(path, secrets) ==
    IF secrets[path] = None
    THEN [error |-> "repository_new_password_file_read_failed", text |-> <<>>]
    ELSE [error |-> "", text |-> secrets[path][1]]

(* read_new_password_file *)
NewPassphraseFile(path, secrets) ==
    IF secrets[path] = None
    THEN [error |-> "repository_new_password_file_read_failed", text |-> <<>>]
    ELSE [error |-> "", text |-> TrimEnd(secrets[path][1])]

(* new_repository_passphrase: the file of the flag, then the environment. *)
NewPassphrase(flag, env, secrets) ==
    IF flag # None THEN NewPassphraseFile(flag[1], secrets)
    ELSE IF env.new_password # None THEN [error |-> "", text |-> env.new_password[1]]
    ELSE IF env.new_password_file # None
    THEN NewPassphraseFile(env.new_password_file[1], secrets)
    ELSE [error |-> "repository_new_password_missing", text |-> <<>>]
=============================================================================
