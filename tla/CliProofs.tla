----------------------------- MODULE CliProofs -----------------------------
(***************************************************************************)
(* Proofs about Cli, for any number of processes, repositories, command    *)
(* lines and configuration files.  Key slots, snapshots and forgotten ids  *)
(* are only added, so what a process has done or found stays so, whatever  *)
(* the others do; and what it prints is put together from what it did.     *)
(***************************************************************************)
EXTENDS Cli, FiniteSetTheorems, FunctionTheorems, WellFoundedInduction, TLAPS

-----------------------------------------------------------------------------
(* The inductive invariant; u is the state of a process, R the repositories *)

Fields == {"pc", "inv", "place", "pass", "new", "policy", "error", "warned", "listed",
           "selected", "chosen", "todo", "did", "began", "out", "exit"}

Shape(u) == u = [f \in Fields |-> u[f]]

Running == {"open", "create", "add", "commit", "clock", "list", "entries", "restore",
            "time", "mark"}

(* The process has come to print, or has ended there. *)
Told(u) == u.pc = "print" \/ (u.pc = "ended" /\ u.exit # Killed)

CodeFor(u) == IF u.error # "" THEN ExitCode(u.error) ELSE IF u.warned THEN 10 ELSE 0

(* What a process works with is what its command line came to. *)
PreparedOK(u) ==
    LET ready == Prepare(u.inv) IN
    /\ u.inv \in Invocations
    /\ u.place = ready.place /\ u.pass = ready.pass
    /\ u.new = ready.new /\ u.policy = ready.policy
    /\ ready.error # "" => u.error = ready.error
    /\ u.pc \in Running => u.error = "" /\ u.inv.command # "version"
    /\ u.pc \in Running \cup {"print", "ended"}

(* Each place in the program belongs to its commands, and so does each error. *)
CommandOK(u) ==
    /\ u.pc = "create" => u.inv.command = "init"
    /\ u.pc = "add" => u.inv.command = "key add"
    /\ u.pc \in {"commit", "clock"} => u.inv.command = "backup"
    /\ u.pc = "entries" => u.inv.command = "ls"
    /\ u.pc = "restore" => u.inv.command = "restore"
    /\ u.pc \in {"time", "mark"} => u.inv.command = "forget" /\ ~u.inv.dry_run
    /\ u.warned \in BOOLEAN
    /\ u.warned => u.inv.command = "restore" /\ u.error = "" /\ u.pc \notin Running
    /\ u.error \in {"snapshot_not_found", "snapshot_path_not_found"} =>
          u.inv.command \in {"ls", "restore"}

(* The errors that may come after a write. *)
LateErrors == {"storage_object_io_failed", "system_clock_invalid",
               "storage_object_already_exists"}

DidOK(u) ==
    /\ u.pc \in Running \ {"clock", "mark"} => u.did = {}
    /\ u.error \notin LateErrors \cup {""} => u.did = {}

(* The command of u has done what it is for. *)
AchievedBy(u, R) ==
    u.inv.command \in {"init", "key add", "backup", "forget"} =>
        /\ u.place # ""
        /\ u.inv.command = "init" => u.pass \in R[u.place].slots
        /\ u.inv.command = "key add" => u.new \in R[u.place].slots
        /\ u.inv.command = "backup" =>
              \E s \in u.did \cap R[u.place].snapshots : s.tags = u.inv.tags
        /\ u.inv.command = "forget" =>
              u.inv.dry_run \/ {s.id : s \in u.chosen} \subseteq R[u.place].forgotten

AchievedOK(u, R) ==
    /\ Told(u) /\ u.error = "" => AchievedBy(u, R)
    /\ u.pc = "clock" => AchievedBy(u, R)

(* The plan of a forget, and how far it has come. *)
ForgetOK(u, R) ==
    /\ u.todo \subseteq u.chosen /\ u.chosen \subseteq u.listed
    /\ u.pc \in {"time", "mark"} => u.todo # {}
    /\ \/ u.pc \in {"time", "mark"}
       \/ Told(u) /\ u.error = "" /\ u.inv.command = "forget"
       => u.chosen = PlanForgotten(u.policy, u.listed)
    /\ \A s \in u.chosen \ u.todo : s.id \in R[u.place].forgotten
    /\ u.error = "forget_no_snapshots_matched" => PlanForgotten(u.policy, u.listed) = {}

(* The process has listed the snapshots, and goes by what it found. *)
HasListed(u) ==
    \/ u.pc \in {"entries", "restore", "time", "mark"}
    \/ u.selected # {}
    \/ u.error = "snapshot_not_found"
    \/ Told(u) /\ u.error = "" /\ u.inv.command = "snapshots"

ListedOK(u, R) ==
    /\ \A s \in u.listed \cup u.began : s \in R[u.place].snapshots
    /\ u.pc \in {"open", "create", "add", "commit", "clock", "list"} =>
          u.listed = {} /\ u.selected = {}
    /\ HasListed(u) => \A s \in u.began \ u.listed : s.id \in R[u.place].forgotten
    /\ u.selected # {} => u.selected = SelectSnapshot(u.listed, Selection(u.inv))
    /\ u.error = "snapshot_not_found" => Matching(Selection(u.inv), u.listed) = {}

(* A command that came to no repository has found nothing. *)
PlaceOK(u, R) ==
    \/ u.place \in DOMAIN R
    \/ u.place = "" /\ u.listed = {} /\ u.began = {}

(* What was printed, and the exit code. *)
Successes == {"text", "success", "write_commit", "write_forget_state", "command_completed"}
Failures == {"failure", "command_failed"}

OutOK(u) ==
    LET out == {u.out[k] : k \in DOMAIN u.out} IN
    /\ u.pc # "ended" \/ u.exit = Killed => out = {}
    /\ u.error # "" => out \cap (Successes \cup {"warning"}) = {}
    /\ u.error = "" => out \cap Failures = {}
    /\ u.pc = "ended" /\ u.exit \notin {Killed, Panicked} =>
          /\ u.exit = CodeFor(u)
          /\ u.inv.mode = "jsonl" =>
                /\ u.error = "" <=> "command_completed" \in out
                /\ u.error = "" /\ u.warned <=> "warning" \in out

StateOK(u, R) ==
    /\ Shape(u)
    /\ u.pc # "idle" =>
          /\ PreparedOK(u) /\ CommandOK(u) /\ DidOK(u) /\ OutOK(u)
          /\ AchievedOK(u, R) /\ ForgetOK(u, R) /\ ListedOK(u, R) /\ PlaceOK(u, R)

(* A passphrase opens the repository when it is given again. *)
Again(g) ==
    Passphrase([password |-> IF g.kind = "password" THEN Some(g.text) ELSE None,
                password_file |-> Some("again")],
               [path \in {"again"} |-> Some(g.text)]).text

GivenOK(G, R) == \A g \in G : g.place \in DOMAIN R /\ Again(g) \in R[g.place].slots

ReposOK(R) ==
    /\ \A place \in DOMAIN R : IsRepository(R[place])
    /\ \A url \in DOMAIN Urls : Urls[url].form # "bare" => Urls[url].place \in DOMAIN R \ {""}

Inv ==
    /\ ReposOK(repos)
    /\ proc = [p \in Procs |-> proc[p]]
    /\ \A p \in Procs : StateOK(proc[p], repos)
    /\ GivenOK(given, repos)

-----------------------------------------------------------------------------
(* States of a process *)

(* v is of the command of u, with the same output. *)
SameCall(u, v) ==
    /\ Shape(v)
    /\ v.inv = u.inv /\ v.place = u.place /\ v.pass = u.pass /\ v.new = u.new
    /\ v.policy = u.policy /\ v.began = u.began /\ v.out = u.out /\ v.exit = u.exit

(* v has found and planned what u has. *)
SameFound(u, v) ==
    /\ v.listed = u.listed /\ v.selected = u.selected
    /\ v.chosen = u.chosen /\ v.todo = u.todo

LEMMA MovedState ==
    ASSUME NEW u, Shape(u), NEW pc
    PROVE  LET v == [u EXCEPT !.pc = pc] IN
           /\ SameCall(u, v) /\ SameFound(u, v)
           /\ v.pc = pc /\ v.error = u.error /\ v.warned = u.warned /\ v.did = u.did
  BY DEF SameCall, SameFound, Shape, Fields

LEMMA FailedState ==
    ASSUME NEW u, Shape(u), NEW error
    PROVE  LET v == Failed(u, error) IN
           /\ SameCall(u, v) /\ SameFound(u, v)
           /\ v.pc = "print" /\ v.error = error /\ v.warned = u.warned /\ v.did = u.did
  BY DEF SameCall, SameFound, Shape, Fields, Failed

LEMMA FreshState ==
    /\ Shape(Fresh) /\ Fresh.pc = "idle"
    /\ Fresh.error = "" /\ Fresh.warned = FALSE /\ Fresh.listed = {} /\ Fresh.selected = {}
    /\ Fresh.chosen = {} /\ Fresh.todo = {} /\ Fresh.did = {} /\ Fresh.out = <<>>
    /\ Fresh.exit = NotRun
  BY DEF Shape, Fields, Fresh

(* Repositories only grow. *)
Grows(R, Q) ==
    /\ DOMAIN Q = DOMAIN R
    /\ \A place \in DOMAIN R : /\ R[place].slots \subseteq Q[place].slots
                               /\ R[place].snapshots \subseteq Q[place].snapshots
                               /\ R[place].forgotten \subseteq Q[place].forgotten

(* What a process knows and has done stays so when repositories grow. *)
LEMMA StateOKGrows ==
    ASSUME NEW u, NEW R, NEW Q, StateOK(u, R), Grows(R, Q)
    PROVE  StateOK(u, Q)
  <1> SUFFICES ASSUME u.pc # "idle"
               PROVE  /\ AchievedOK(u, Q) /\ ForgetOK(u, Q)
                      /\ ListedOK(u, Q) /\ PlaceOK(u, Q)
    BY DEF StateOK
  <1>1. AchievedOK(u, R) /\ ForgetOK(u, R) /\ ListedOK(u, R) /\ PlaceOK(u, R)
    BY DEF StateOK
  <1>2. PlaceOK(u, Q)
    BY <1>1 DEF PlaceOK, Grows
  <1>3. ASSUME AchievedBy(u, R) PROVE AchievedBy(u, Q)
    BY <1>1, <1>3 DEF PlaceOK, AchievedBy, Grows
  <1>4. ListedOK(u, Q)
    BY <1>1 DEF ListedOK, PlaceOK, Grows
  <1>5. ForgetOK(u, Q)
    BY <1>1 DEF ForgetOK, PlaceOK, Grows
  <1>6. QED
    BY <1>1, <1>2, <1>3, <1>4, <1>5 DEF AchievedOK

-----------------------------------------------------------------------------
(* Before the repository is touched *)

(* A non-empty set of numbers up to 5 has a least one. *)
LEMMA LeastOfFew ==
    ASSUME NEW S, S \subseteq {1, 2, 3, 4, 5}, S # {}
    PROVE  LET first == CHOOSE k \in S : \A j \in S : k <= j IN
           first \in S /\ \A j \in S : first <= j
  <1>1. \E k \in S : \A j \in S : k <= j
    <2>1. CASE 1 \in S
      BY <2>1
    <2>2. CASE 1 \notin S /\ 2 \in S
      BY <2>2
    <2>3. CASE 1 \notin S /\ 2 \notin S /\ 3 \in S
      BY <2>3
    <2>4. CASE 1 \notin S /\ 2 \notin S /\ 3 \notin S /\ 4 \in S
      BY <2>4
    <2>5. CASE 1 \notin S /\ 2 \notin S /\ 3 \notin S /\ 4 \notin S
      <3>1. S = {5}
        BY <2>5
      <3>2. QED
        BY <3>1
    <2>6. QED
      BY <2>1, <2>2, <2>3, <2>4, <2>5
  <1>2. QED
    BY <1>1

(* Option::or yields the first option that is there, and none if none is. *)
LEMMA FirstOfIs ==
    ASSUME NEW options, DOMAIN options \subseteq {1, 2, 3, 4, 5},
           NEW k \in DOMAIN options, options[k] # None,
           \A j \in DOMAIN options : j < k => options[j] = None
    PROVE  FirstOf(options) = options[k]
  <1> DEFINE some == {j \in DOMAIN options : options[j] # None}
             first == CHOOSE j \in some : \A l \in some : j <= l
  <1>1. FirstOf(options) = IF some = {} THEN None ELSE options[first]
    BY DEF FirstOf
  <1>2. k \in some /\ some \subseteq {1, 2, 3, 4, 5}
    OBVIOUS
  <1>3. first \in some /\ \A j \in some : first <= j
    <2> HIDE DEF some
    <2>1. QED
      BY <1>2, LeastOfFew
  <1> HIDE DEF first
  <1>4. first = k
    BY <1>2, <1>3
  <1> HIDE DEF some
  <1>5. QED
    BY <1>1, <1>2, <1>4

LEMMA FirstOfNone ==
    ASSUME NEW options, \A j \in DOMAIN options : options[j] = None
    PROVE  FirstOf(options) = None
  <1>1. {j \in DOMAIN options : options[j] # None} = {}
    OBVIOUS
  <1>2. QED
    BY <1>1, Zenon DEF FirstOf

(* Along two, three and four options. *)
LEMMA FirstOfTwo ==
    ASSUME NEW a, NEW b
    PROVE  FirstOf(<<a, b>>) =
              IF a # None THEN a ELSE b
  <1> DEFINE options == <<a, b>>
  <1>1. /\ DOMAIN options = {1, 2}
        /\ options[1] = a /\ options[2] = b
    OBVIOUS
  <1> HIDE DEF options
  <1>2. ASSUME a # None PROVE FirstOf(options) = a
    BY <1>1, <1>2, FirstOfIs
  <1>3. ASSUME a = None, b # None PROVE FirstOf(options) = b
    BY <1>1, <1>3, FirstOfIs
  <1>4. ASSUME a = None, b = None PROVE FirstOf(options) = None
    BY <1>1, <1>4, FirstOfNone
  <1>5. QED
    BY <1>2, <1>3, <1>4, Zenon DEF options

LEMMA FirstOfThree ==
    ASSUME NEW a, NEW b, NEW c
    PROVE  FirstOf(<<a, b, c>>) =
              IF a # None THEN a ELSE IF b # None THEN b ELSE c
  <1> DEFINE options == <<a, b, c>>
  <1>1. /\ DOMAIN options = {1, 2, 3}
        /\ options[1] = a /\ options[2] = b /\ options[3] = c
    OBVIOUS
  <1> HIDE DEF options
  <1>2. ASSUME a # None PROVE FirstOf(options) = a
    BY <1>1, <1>2, FirstOfIs
  <1>3. ASSUME a = None, b # None PROVE FirstOf(options) = b
    BY <1>1, <1>3, FirstOfIs
  <1>4. ASSUME a = None, b = None, c # None PROVE FirstOf(options) = c
    BY <1>1, <1>4, FirstOfIs
  <1>5. ASSUME a = None, b = None, c = None PROVE FirstOf(options) = None
    BY <1>1, <1>5, FirstOfNone
  <1>6. QED
    BY <1>2, <1>3, <1>4, <1>5, Zenon DEF options

LEMMA FirstOfFour ==
    ASSUME NEW a, NEW b, NEW c, NEW d
    PROVE  FirstOf(<<a, b, c, d>>) =
              IF a # None THEN a ELSE IF b # None THEN b ELSE IF c # None THEN c ELSE d
  <1> DEFINE options == <<a, b, c, d>>
  <1>1. /\ DOMAIN options = {1, 2, 3, 4}
        /\ options[1] = a /\ options[2] = b /\ options[3] = c /\ options[4] = d
    OBVIOUS
  <1> HIDE DEF options
  <1>2. ASSUME a # None PROVE FirstOf(options) = a
    BY <1>1, <1>2, FirstOfIs
  <1>3. ASSUME a = None, b # None PROVE FirstOf(options) = b
    BY <1>1, <1>3, FirstOfIs
  <1>4. ASSUME a = None, b = None, c # None PROVE FirstOf(options) = c
    BY <1>1, <1>4, FirstOfIs
  <1>5. ASSUME a = None, b = None, c = None, d # None PROVE FirstOf(options) = d
    BY <1>1, <1>5, FirstOfIs
  <1>6. ASSUME a = None, b = None, c = None, d = None PROVE FirstOf(options) = None
    BY <1>1, <1>6, FirstOfNone
  <1>7. QED
    BY <1>2, <1>3, <1>4, <1>5, <1>6, Zenon DEF options

(* The failure of five steps is one of theirs, and there is none when there
   is none in any. *)
LEMMA FirstFailureOfFive ==
    ASSUME NEW errors, DOMAIN errors = {1, 2, 3, 4, 5}
    PROVE  /\ FirstFailure(errors) = "" \/ \E k \in {1, 2, 3, 4, 5} : FirstFailure(errors) = errors[k]
           /\ FirstFailure(errors) = "" => \A k \in {1, 2, 3, 4, 5} : errors[k] = ""
  <1> DEFINE failed == {k \in DOMAIN errors : errors[k] # ""}
             first == CHOOSE k \in failed : \A j \in failed : k <= j
  <1>1. FirstFailure(errors) = IF failed = {} THEN "" ELSE errors[first]
    BY DEF FirstFailure
  <1>2. failed \subseteq {1, 2, 3, 4, 5}
    OBVIOUS
  <1>3. ASSUME failed # {} PROVE first \in failed
    <2> HIDE DEF failed
    <2>1. QED
      BY <1>2, <1>3, LeastOfFew
  <1>4. \A k \in {1, 2, 3, 4, 5} : k \in failed <=> errors[k] # ""
    OBVIOUS
  <1> HIDE DEF failed, first
  <1>5. QED
    BY <1>1, <1>2, <1>3, <1>4

(* The url is named by the flag, the environment or the file, as NamesPlace
   has it. *)
NamesUrl(i, url) ==
    \/ i.flags.repo = Some(url)
    \/ i.flags.repo = None /\ i.env.repository = Some(url)
    \/ /\ i.flags.repo = None /\ i.env.repository = None
       /\ \E path \in DOMAIN ConfigFiles, profile \in Profiles :
             /\ UsesFile(i, path)
             /\ AsksProfile(i, ConfigFiles[path], profile)
             /\ HasUrl(ConfigFiles[path], profile, url)

(* resolve_config: the url, if there is one, is the one named. *)
LEMMA ConfigNamesUrl ==
    ASSUME NEW i \in Invocations, ResolveConfig(i.flags, i.env, ConfigFiles).error = None
    PROVE  LET url == ResolveConfig(i.flags, i.env, ConfigFiles).url IN
           url # None => /\ url[1] \in DOMAIN Urls
                         /\ Urls[url[1]].form # "bare"
                         /\ NamesUrl(i, url[1])
  <1> DEFINE flags == i.flags
             env == i.env
             configs == ConfigFiles
             Exists(path) == IF configs[path].status = "missing" THEN None ELSE Some(path)
             config_path == FirstOf(<<flags.config, env.config,
                                      Exists("fileferry.toml"), Exists(".fileferry.toml")>>)
             file == IF config_path = None THEN NoFile ELSE configs[config_path[1]]
             profile == FirstOf(<<flags.profile, env.profile, file.profile, Some("default")>>)
             section == ProfileSection(file, profile[1])
             named == FirstOf(<<flags.repo, env.repository>>)
             url == FirstOf(<<named, section[1]["url"], file.root["url"]>>)
             config == ResolveConfig(flags, env, configs)
  <1>1. /\ config.error = None =>
              /\ config.url = url
              /\ ~(config_path # None /\ file.status = "missing")
              /\ section # None
              /\ url = None \/ Urls[url[1]].form # "bare"
    BY DEF ResolveConfig, Refused, Some, None
  <1>2. config_path = IF flags.config # None THEN flags.config
                      ELSE IF env.config # None THEN env.config
                      ELSE IF Exists("fileferry.toml") # None THEN Exists("fileferry.toml")
                      ELSE Exists(".fileferry.toml")
    BY FirstOfFour
  <1>3. profile = IF flags.profile # None THEN flags.profile
                  ELSE IF env.profile # None THEN env.profile
                  ELSE IF file.profile # None THEN file.profile ELSE Some("default")
    BY FirstOfFour
  <1>4. named = IF flags.repo # None THEN flags.repo ELSE env.repository
    BY FirstOfTwo
  <1>5. url = IF named # None THEN named ELSE IF section[1]["url"] # None THEN section[1]["url"]
              ELSE file.root["url"]
    <2> HIDE DEF named, section, file
    <2>1. QED
      BY FirstOfThree
  <1>6. /\ flags.repo \in Option(DOMAIN Urls) /\ env.repository \in Option(DOMAIN Urls)
        /\ flags.config \in Option(DOMAIN configs) /\ env.config \in Option(DOMAIN configs)
        /\ flags.profile \in Option(Profiles) /\ env.profile \in Option(Profiles)
        /\ {"fileferry.toml", ".fileferry.toml"} \subseteq DOMAIN configs
        /\ "default" \in Profiles
    BY InvocationAssumption
  <1>7. \A x : Some(x) # None /\ Some(x)[1] = x
    BY DEF Some, None
  <1>8. \A S, o : o \in Option(S) /\ o # None => o[1] \in S /\ o = Some(o[1])
    BY <1>7 DEF Option
  <1> SUFFICES ASSUME url # None
               PROVE  url[1] \in DOMAIN Urls /\ NamesUrl(i, url[1])
    <2>1. config.error = None
      OBVIOUS
    <2> HIDE DEF url, config_path, file, section
    <2>2. config.url = url /\ (url = None \/ Urls[url[1]].form # "bare")
      BY <1>1, <2>1
    <2>3. QED
      BY <2>2
  <1>9. CASE named # None
    <2>1. url = named
      BY <1>5, <1>9
    <2>2. \/ url = flags.repo
          \/ flags.repo = None /\ url = env.repository
      <3> HIDE DEF url, named
      <3>1. QED
        BY <1>4, <2>1
    <2> HIDE DEF url
    <2>3. QED
      BY <1>6, <1>8, <2>2 DEF NamesUrl
  <1>10. CASE named = None
    <2>1. flags.repo = None /\ env.repository = None
      BY <1>4, <1>10
    <2>2. url = IF section[1]["url"] # None THEN section[1]["url"] ELSE file.root["url"]
      BY <1>5, <1>10
    <2>3. config_path # None
      <3> SUFFICES ASSUME config_path = None PROVE FALSE
        OBVIOUS
      <3>1. file = NoFile
        OBVIOUS
      <3> HIDE DEF file, profile, url
      <3>2. section = Some(NoSection)
        BY <3>1 DEF ProfileSection, NoFile
      <3>3. section[1] = NoSection /\ file.root = NoSection
        BY <1>7, <3>1, <3>2 DEF NoFile
      <3> HIDE DEF section
      <3>4. url = None
        BY <2>2, <3>3 DEF NoSection
      <3>5. QED
        BY <3>4
    <2> DEFINE path == config_path[1]
    <2>4. /\ path \in DOMAIN configs
          /\ UsesFile(i, path)
      <3>1. Exists("fileferry.toml") = None =>
               configs["fileferry.toml"].status = "missing"
        BY <1>7
      <3>2. \/ config_path = flags.config
            \/ flags.config = None /\ config_path = env.config
            \/ /\ flags.config = None /\ env.config = None
               /\ \/ config_path = Some("fileferry.toml")
                  \/ /\ config_path = Some(".fileferry.toml")
                     /\ configs["fileferry.toml"].status = "missing"
        BY <1>2, <2>3, <3>1
      <3> HIDE DEF config_path
      <3>3. QED
        BY <1>6, <1>7, <1>8, <2>3, <3>2 DEF UsesFile
    <2>5. file = configs[path]
      BY <2>3
    <2>6. /\ file.profile \in Option(Profiles)
          /\ file.root.url \in Option(DOMAIN Urls)
          /\ \A p \in DOMAIN file.profiles : file.profiles[p].url \in Option(DOMAIN Urls)
      BY <2>4, <2>5, InvocationAssumption
    <2> HIDE DEF path, file
    <2>7. /\ profile # None /\ profile[1] \in Profiles
          /\ AsksProfile(i, file, profile[1])
      <3>1. \/ flags.profile # None /\ profile = flags.profile
            \/ flags.profile = None /\ env.profile # None /\ profile = env.profile
            \/ /\ flags.profile = None /\ env.profile = None
               /\ \/ file.profile # None /\ profile = file.profile
                  \/ file.profile = None /\ profile = Some("default")
        BY <1>3
      <3> HIDE DEF profile
      <3>2. QED
        BY <1>6, <1>7, <1>8, <2>6, <3>1 DEF AsksProfile
    <2> HIDE DEF profile
    <2>8. /\ url[1] \in DOMAIN Urls
          /\ HasUrl(file, profile[1], url[1])
      <3>1. CASE profile[1] \in DOMAIN file.profiles
        <4>1. section[1] = file.profiles[profile[1]]
          BY <1>7, <3>1 DEF ProfileSection
        <4> HIDE DEF section
        <4>2. url = IF file.profiles[profile[1]].url # None THEN file.profiles[profile[1]].url
                    ELSE file.root.url
          BY <2>2, <4>1
        <4> HIDE DEF url
        <4>3. QED
          BY <1>8, <2>6, <3>1, <4>2 DEF HasUrl
      <3>2. CASE profile[1] \notin DOMAIN file.profiles
        <4>1. file.status # "missing" /\ section # None
          BY <1>1, <2>3
        <4>2. profile[1] = "default" /\ section = Some(NoSection)
          BY <3>2, <4>1 DEF ProfileSection
        <4>3. section[1] = NoSection
          BY <1>7, <4>2
        <4> HIDE DEF section
        <4>4. url = file.root.url
          BY <2>2, <4>3 DEF NoSection
        <4> HIDE DEF url
        <4>5. QED
          BY <1>8, <2>6, <3>2, <4>2, <4>4 DEF HasUrl
      <3>3. QED
        BY <3>1, <3>2
    <2> HIDE DEF url
    <2>9. QED
      BY <2>1, <2>4, <2>5, <2>7, <2>8 DEF NamesUrl
  <1>11. QED
    BY <1>9, <1>10

EarlyErrors == ConfigErrors \cup PolicyErrors \cup RepositoryErrors \cup {"repository_url_unsupported"}

(* The errors of the single steps. *)
LEMMA ConfigErrorKinds ==
    ASSUME NEW flags, NEW env, NEW configs
    PROVE  LET error == ResolveConfig(flags, env, configs).error IN
           error = None \/ (error # None /\ error[1] \in ConfigErrors)
  <1>1. \A e : Refused(e).error = Some(e)
    BY DEF Refused
  <1>2. \A e : Some(e) # None /\ Some(e)[1] = e
    BY DEF Some, None
  <1>3. \/ ResolveConfig(flags, env, configs).error = None
        \/ \E e \in ConfigErrors : ResolveConfig(flags, env, configs).error = Some(e)
    BY <1>1 DEF ResolveConfig, ConfigErrors
  <1>4. QED
    BY <1>2, <1>3

LEMMA OtherErrorKinds ==
    /\ \A counts, tags : PolicyFromArgs(counts, tags).error \in PolicyErrors \cup {""}
    /\ \A command, url, s3 :
          Repository(command, url, s3) \in RepositoryErrors \cup {"repository_url_unsupported", ""}
    /\ \A env : Passphrase(env, Secrets).error \in RepositoryErrors \cup {""}
    /\ \A flag, env : NewPassphrase(flag, env, Secrets).error \in RepositoryErrors \cup {""}
  <1>1. ASSUME NEW counts, NEW tags
        PROVE  PolicyFromArgs(counts, tags).error \in PolicyErrors \cup {""}
    BY DEF PolicyFromArgs, PolicyErrors, Validate
  <1>2. ASSUME NEW command, NEW url, NEW s3
        PROVE  Repository(command, url, s3)
                  \in RepositoryErrors \cup {"repository_url_unsupported", ""}
    <2>1. \A form : /\ S3Repository(form, s3) \in RepositoryErrors \cup {""}
                    /\ LocalPath(form) \in RepositoryErrors \cup {"repository_url_unsupported", ""}
      BY DEF S3Repository, LocalPath, RepositoryErrors
    <2>2. QED
      BY <2>1 DEF Repository, RepositoryErrors
  <1>3. ASSUME NEW env
        PROVE  Passphrase(env, Secrets).error \in RepositoryErrors \cup {""}
    BY DEF Passphrase, RepositoryErrors
  <1>4. ASSUME NEW flag, NEW env
        PROVE  NewPassphrase(flag, env, Secrets).error \in RepositoryErrors \cup {""}
    <2>1. \A path : NewPassphraseFile(path, Secrets).error \in RepositoryErrors \cup {""}
      BY DEF NewPassphraseFile, RepositoryErrors
    <2>2. QED
      BY <2>1 DEF NewPassphrase, RepositoryErrors
  <1>5. QED
    BY <1>1, <1>2, <1>3, <1>4

(* None of them is empty. *)
LEMMA EarlyErrorsNotEmpty == "" \notin EarlyErrors
  BY DEF EarlyErrors, ConfigErrors, PolicyErrors, RepositoryErrors

(* What a command line comes to: an error, or all that the command needs. *)
LEMMA PrepareTells ==
    ASSUME NEW i \in Invocations
    PROVE  LET ready == Prepare(i)
               url == ResolveConfig(i.flags, i.env, ConfigFiles).url IN
           /\ ready.error \in EarlyErrors \cup {""}
           /\ ready.pass = Passphrase(i.env, Secrets).text
           /\ ready.new = NewPassphrase(i.new_password_file, i.env, Secrets).text
           /\ ready.policy = PolicyFromArgs(i.counts, i.tags).policy
           /\ ready.place = "" \/ (ready.error = "" /\ i.command # "version")
           /\ ready.error = "" /\ i.command # "version" =>
                 /\ ResolveConfig(i.flags, i.env, ConfigFiles).error = None
                 /\ url # None
                 /\ ready.place = Urls[url[1]].place
                 /\ Passphrase(i.env, Secrets).error = ""
           /\ ready.error = "" /\ i.command = "key add" =>
                 NewPassphrase(i.new_password_file, i.env, Secrets).error = ""
  <1> DEFINE config == ResolveConfig(i.flags, i.env, ConfigFiles)
             policy == PolicyFromArgs(i.counts, i.tags)
             url == Repository(i.command, config.url, i.env.s3)
             pass == Passphrase(i.env, Secrets)
             new == NewPassphrase(i.new_password_file, i.env, Secrets)
             a == IF config.error # None THEN config.error[1] ELSE ""
             b == IF i.command = "forget" THEN policy.error ELSE ""
             c == IF i.command # "version" /\ config.error = None THEN url ELSE ""
             d == IF i.command # "version" THEN pass.error ELSE ""
             e == IF i.command = "key add" THEN new.error ELSE ""
             errors == <<a, b, c, d, e>>
             error == FirstFailure(errors)
             place == IF error = "" /\ i.command # "version" THEN Urls[config.url[1]].place
                      ELSE ""
  <1>1. /\ Prepare(i).error = error /\ Prepare(i).place = place
        /\ Prepare(i).pass = pass.text /\ Prepare(i).new = new.text
        /\ Prepare(i).policy = policy.policy
    BY DEF Prepare
  <1>2. config.error = None \/ (config.error # None /\ config.error[1] \in ConfigErrors)
    BY ConfigErrorKinds
  <1>3. /\ policy.error \in PolicyErrors \cup {""}
        /\ url \in RepositoryErrors \cup {"repository_url_unsupported", ""}
        /\ pass.error \in RepositoryErrors \cup {""}
        /\ new.error \in RepositoryErrors \cup {""}
    BY OtherErrorKinds
  <1>4. url = "" => config.url # None
    BY DEF Repository
  <1> HIDE DEF config, policy, url, pass, new
  <1>5. {a, b, c, d, e} \subseteq EarlyErrors \cup {""}
    BY <1>2, <1>3 DEF EarlyErrors
  <1>6. a = "" => config.error = None
    BY <1>2 DEF ConfigErrors
  <1>7. c = "" /\ i.command # "version" /\ config.error = None => config.url # None
    BY <1>4
  <1>8. d = "" /\ i.command # "version" => pass.error = ""
    OBVIOUS
  <1>9. e = "" /\ i.command = "key add" => new.error = ""
    OBVIOUS
  <1> HIDE DEF a, b, c, d, e
  <1>10. /\ error \in {a, b, c, d, e, ""}
         /\ error = "" => a = "" /\ b = "" /\ c = "" /\ d = "" /\ e = ""
    <2>1. /\ DOMAIN errors = {1, 2, 3, 4, 5}
          /\ errors[1] = a /\ errors[2] = b /\ errors[3] = c
          /\ errors[4] = d /\ errors[5] = e
      OBVIOUS
    <2> HIDE DEF errors
    <2>2. /\ error = "" \/ \E k \in {1, 2, 3, 4, 5} : error = errors[k]
          /\ error = "" => \A k \in {1, 2, 3, 4, 5} : errors[k] = ""
      BY <2>1, FirstFailureOfFive
    <2> HIDE DEF error
    <2>3. QED
      BY <2>1, <2>2
  <1> HIDE DEF error
  <1>11. QED
    BY <1>1, <1>5, <1>6, <1>7, <1>8, <1>9, <1>10 DEF config, policy, pass, new

(* The place is a repository, and the one that was named. *)
LEMMA PrepareNames ==
    ASSUME NEW i \in Invocations, NEW R, ReposOK(R),
           Prepare(i).error = "", i.command # "version"
    PROVE  /\ Prepare(i).place \in DOMAIN R
           /\ Prepare(i).place # ""
           /\ NamesPlace(i, Prepare(i).place)
  <1> DEFINE url == ResolveConfig(i.flags, i.env, ConfigFiles).url
  <1>1. /\ ResolveConfig(i.flags, i.env, ConfigFiles).error = None
        /\ url # None /\ Prepare(i).place = Urls[url[1]].place
    BY PrepareTells
  <1>2. url[1] \in DOMAIN Urls /\ Urls[url[1]].form # "bare" /\ NamesUrl(i, url[1])
    BY <1>1, ConfigNamesUrl
  <1> HIDE DEF url
  <1>3. QED
    BY <1>1, <1>2 DEF ReposOK, NamesPlace, NamesUrl

IsPolicy(policy) == policy.last \in Nat /\ \A rule \in PeriodicRules : policy[rule] \in Nat

(* retention_policy_from_args: every rule has a count, 0 if it is absent. *)
LEMMA PreparePolicy ==
    ASSUME NEW i \in Invocations
    PROVE  IsPolicy(Prepare(i).policy)
  <1>1. Prepare(i).policy = PolicyFromArgs(i.counts, i.tags).policy
    BY PrepareTells
  <1>2. DOMAIN NoRule = {"last", "hourly", "daily", "weekly", "monthly", "yearly", "tags"}
    BY DEF NoRule
  <1>3. \A f \in DOMAIN NoRule \ {"tags"} : PolicyFromArgs(i.counts, i.tags).policy[f] \in Nat
    BY InvocationAssumption DEF PolicyFromArgs
  <1>4. QED
    BY <1>1, <1>2, <1>3 DEF IsPolicy, PeriodicRules

-----------------------------------------------------------------------------
(* Retention and selection *)

(* Fewer snapshots, fewer newer ones. *)
LEMMA NewerShrinks ==
    ASSUME NEW S, NEW T, T \subseteq S, IsFiniteSet(S), NEW s
    PROVE  /\ Newer(T, s) \subseteq Newer(S, s)
           /\ IsFiniteSet(Newer(S, s))
           /\ IsFiniteSet(Newer(T, s))
           /\ Cardinality(Newer(T, s)) \in Nat
           /\ Cardinality(Newer(S, s)) \in Nat
           /\ Cardinality(Newer(T, s)) <= Cardinality(Newer(S, s))
  <1>1. Newer(T, s) \subseteq Newer(S, s) /\ Newer(S, s) \subseteq S
    BY DEF Newer
  <1>2. IsFiniteSet(Newer(S, s))
    BY <1>1, FS_Subset
  <1>3. /\ IsFiniteSet(Newer(T, s))
        /\ Cardinality(Newer(T, s)) <= Cardinality(Newer(S, s))
    BY <1>1, <1>2, FS_Subset
  <1>4. QED
    BY <1>1, <1>2, <1>3, FS_CardinalityType

(* The buckets of a finite set of snapshots are finitely many. *)
LEMMA BucketsFinite ==
    ASSUME NEW S, IsFiniteSet(S), NEW rule
    PROVE  IsFiniteSet(Buckets(rule, S))
  <1> DEFINE f == [s \in S |-> Bucket(rule, s.created_at)]
  <1>1. f \in Surjection(S, Buckets(rule, S))
    BY DEF Buckets, Surjection
  <1>2. QED
    BY <1>1, FS_Surjection

(* Fewer snapshots, fewer buckets in use before a snapshot is reached. *)
LEMMA BucketsShrink ==
    ASSUME NEW S, NEW T, T \subseteq S, IsFiniteSet(S), NEW s, NEW rule
    PROVE  /\ Buckets(rule, Newer(T, s)) \subseteq Buckets(rule, Newer(S, s))
           /\ Cardinality(Buckets(rule, Newer(T, s))) \in Nat
           /\ Cardinality(Buckets(rule, Newer(S, s))) \in Nat
           /\ Cardinality(Buckets(rule, Newer(T, s)))
                 <= Cardinality(Buckets(rule, Newer(S, s)))
  <1>1. Buckets(rule, Newer(T, s)) \subseteq Buckets(rule, Newer(S, s))
    BY NewerShrinks DEF Buckets
  <1>2. IsFiniteSet(Buckets(rule, Newer(S, s)))
    BY NewerShrinks, BucketsFinite
  <1>3. IsFiniteSet(Buckets(rule, Newer(T, s)))
    BY NewerShrinks, BucketsFinite
  <1>4. Cardinality(Buckets(rule, Newer(T, s)))
           <= Cardinality(Buckets(rule, Newer(S, s)))
    BY <1>1, <1>2, FS_Subset
  <1>5. QED
    BY <1>1, <1>2, <1>3, <1>4, FS_CardinalityType

(***************************************************************************)
(* RetentionPolicy::plan: a snapshot the policy keeps among S is kept in   *)
(* every plan over a part of S that contains it.                           *)
(***************************************************************************)
LEMMA KeptAntitone ==
    ASSUME NEW p, IsPolicy(p), NEW S, IsFiniteSet(S), NEW T, T \subseteq S
    PROVE  Kept(p, S) \cap T \subseteq Kept(p, T)
  <1> SUFFICES ASSUME NEW s \in T, s \in Kept(p, S)
               PROVE  s \in Kept(p, T)
    OBVIOUS
  <1>0. \/ s \in KeepLast(S, p.last)
        \/ s \in KeepTags(S, p.tags)
        \/ s \in UNION {KeepPeriodic(S, p[rule], rule) : rule \in PeriodicRules}
    BY DEF Kept
  <1>1. CASE s \in KeepLast(S, p.last)
    <2>1. s \in KeepLast(T, p.last)
      BY <1>1, NewerShrinks DEF KeepLast, IsPolicy
    <2>2. QED
      BY <2>1 DEF Kept
  <1>2. CASE s \in KeepTags(S, p.tags)
    BY <1>2 DEF Kept, KeepTags
  <1>3. CASE s \in UNION {KeepPeriodic(S, p[rule], rule) : rule \in PeriodicRules}
    <2>1. PICK rule \in PeriodicRules : s \in KeepPeriodic(S, p[rule], rule)
      BY <1>3
    <2>2. p[rule] \in Nat
      BY DEF IsPolicy
    <2>3. s \in KeepPeriodic(T, p[rule], rule)
      BY <2>1, <2>2, BucketsShrink DEF KeepPeriodic
    <2>4. QED
      BY <2>3 DEF Kept
  <1>4. QED
    BY <1>0, <1>1, <1>2, <1>3

(* A non-empty finite set of snapshots has a newest one. *)
LEMMA NewestExists ==
    ASSUME NEW S, IsFiniteSet(S), S # {},
           \A s \in S : s.created_at \in Nat /\ s.id \in Nat
    PROVE  \E n \in S : Newer(S, n) = {}
  <1> DEFINE Counts == {Cardinality(Newer(S, s)) : s \in S}
  <1>1. \A s \in S : IsFiniteSet(Newer(S, s)) /\ Cardinality(Newer(S, s)) \in Nat
    BY NewerShrinks
  <1>2. Counts \subseteq Nat /\ Counts # {}
    BY <1>1
  <1>3. PICK k \in Counts : \A j \in Counts : <<j, k>> \notin OpToRel(<, Nat)
    <2> HIDE DEF Counts
    <2>1. QED
      BY <1>2, NatLessThanWellFounded, WFMin
  <1>4. \A j \in Counts : ~(j < k)
    BY <1>2, <1>3 DEF OpToRel
  <1>5. PICK n \in S : k = Cardinality(Newer(S, n))
    OBVIOUS
  <1>6. ASSUME NEW t \in Newer(S, n) PROVE FALSE
    <2>1. t \in S /\ t \notin Newer(S, t)
      BY DEF Newer, After
    <2>2. Newer(S, t) \subseteq Newer(S, n) \ {t}
      BY <2>1 DEF Newer, After
    <2>3. /\ IsFiniteSet(Newer(S, n) \ {t})
          /\ Cardinality(Newer(S, n) \ {t}) = Cardinality(Newer(S, n)) - 1
      BY <1>1, FS_RemoveElement
    <2>4. Cardinality(Newer(S, t)) <= Cardinality(Newer(S, n) \ {t})
      BY <2>2, <2>3, FS_Subset
    <2>5. Cardinality(Newer(S, t)) \in Counts
      BY <2>1
    <2>6. Cardinality(Newer(S, t)) \in Nat /\ Cardinality(Newer(S, n)) \in Nat
      BY <1>1, <2>1
    <2> HIDE DEF Counts
    <2>7. QED
      BY <1>4, <1>5, <2>3, <2>4, <2>5, <2>6
  <1>7. QED
    BY <1>6

(* select_snapshot: at most one snapshot, none only if none matches, and no
   matching one is after it. *)
LEMMA SelectsLatest ==
    ASSUME NEW S, IsFiniteSet(S), NEW selection,
           \A s \in S : s.created_at \in Nat /\ s.id \in Nat,
           \A s, t \in S : s.id = t.id => s = t
    PROVE  LET selected == SelectSnapshot(S, selection)
               found == Matching(selection, S) IN
           /\ selected \subseteq found
           /\ \A s, t \in selected : s = t
           /\ selected = {} => found = {}
           /\ \A s \in selected, t \in found : t = s \/ After(s, t)
  <1> DEFINE found == Matching(selection, S)
             selected == SelectSnapshot(S, selection)
  <1>1. found \subseteq S
    BY DEF Matching
  <1>2. selected = {s \in found : \A t \in found : ~After(t, s)}
    BY DEF SelectSnapshot
  <1> HIDE DEF found, selected
  <1>3. \A s \in selected, t \in found : t = s \/ After(s, t)
    BY <1>1, <1>2 DEF After
  <1>4. selected \subseteq found
    BY <1>2
  <1>5. \A s, t \in selected : s = t
    BY <1>2, <1>3
  <1>6. ASSUME found # {} PROVE selected # {}
    <2>1. IsFiniteSet(found)
      BY <1>1, FS_Subset
    <2>2. PICK n \in found : Newer(found, n) = {}
      BY <1>1, <1>6, <2>1, NewestExists
    <2>3. n \in selected
      BY <1>2, <2>2 DEF Newer
    <2>4. QED
      BY <2>3
  <1>7. QED
    BY <1>3, <1>4, <1>5, <1>6 DEF found, selected

(* snapshot_summaries: the first one printed is the one --latest takes. *)
LEMMA FirstIsLatest ==
    ASSUME NEW S, IsFiniteSet(S), S # {},
           \A s \in S : s.created_at \in Nat /\ s.id \in Nat,
           \A s, t \in S : s.id = t.id => s = t
    PROVE  {Summaries(S)[1]} = SelectSnapshot(S, [by |-> "latest"])
  <1>1. Cardinality(S) \in Nat /\ Cardinality(S) # 0
    BY FS_CardinalityType, FS_EmptySet
  <1>2. \A s \in S : {t \in S : t.created_at > s.created_at
                                 \/ (t.created_at = s.created_at /\ t.id > s.id)} = Newer(S, s)
    BY DEF Newer, After
  <1>3. Summaries(S)[1] = CHOOSE s \in S : Cardinality(Newer(S, s)) = 0
    <2>1. 1 \in 1..Cardinality(S) /\ 1 - 1 = 0
      BY <1>1
    <2>2. Summaries(S)[1] =
             CHOOSE s \in S : Cardinality({t \in S : t.created_at > s.created_at
                                    \/ (t.created_at = s.created_at /\ t.id > s.id)}) = 1 - 1
      BY <2>1 DEF Summaries
    <2>3. \A s \in S : Cardinality({t \in S : t.created_at > s.created_at
                                    \/ (t.created_at = s.created_at /\ t.id > s.id)})
                           = Cardinality(Newer(S, s))
      BY <1>2
    <2>4. QED
      BY <2>1, <2>2, <2>3
  <1>4. PICK n \in S : Newer(S, n) = {}
    BY NewestExists
  <1>5. \A s \in S : Cardinality(Newer(S, s)) = 0 <=> Newer(S, s) = {}
    <2>1. \A s \in S : IsFiniteSet(Newer(S, s))
      BY NewerShrinks
    <2>2. QED
      BY <2>1, FS_EmptySet
  <1>6. \A s \in S : Newer(S, s) = {} => s = n
    BY <1>4 DEF Newer, After
  <1>7. Summaries(S)[1] = n
    BY <1>3, <1>4, <1>5, <1>6
  <1>8. Matching([by |-> "latest"], S) = S
    BY DEF Matching
  <1>9. SelectSnapshot(S, [by |-> "latest"]) = {s \in S : Newer(S, s) = {}}
    BY <1>8 DEF SelectSnapshot, Newer
  <1>10. QED
    BY <1>4, <1>6, <1>7, <1>9

-----------------------------------------------------------------------------
(* Steps *)

(* The invariant survives a step that takes process p to a good state. *)
LEMMA OneProcSteps ==
    ASSUME Inv, NEW p \in Procs, NEW v, Become(p, v), StateOK(v, repos'),
           ReposOK(repos'), Grows(repos, repos'), GivenOK(given', repos')
    PROVE  Inv'
  <1>1. /\ proc' = [q \in Procs |-> proc'[q]]
        /\ proc'[p] = v
        /\ \A q \in Procs : q # p => proc'[q] = proc[q]
    BY DEF Become, Inv
  <1>2. ASSUME NEW q \in Procs PROVE StateOK(proc'[q], repos')
    <2>1. CASE q = p
      BY <1>1, <2>1
    <2>2. CASE q # p
      BY <1>1, <2>2, StateOKGrows DEF Inv
    <2>3. QED
      BY <2>1, <2>2
  <1>3. QED
    BY <1>1, <1>2 DEF Inv

(* A step that changes no repository. *)
LEMMA QuietStep ==
    ASSUME Inv, NEW p \in Procs, NEW v, Become(p, v), StateOK(v, repos),
           UNCHANGED <<repos, given>>
    PROVE  Inv'
  <1>1. Grows(repos, repos)
    BY DEF Grows
  <1>2. QED
    BY <1>1, OneProcSteps DEF Inv

(* A running command that moves on to v, having found what u has. *)
LEMMA MoveKeeps ==
    ASSUME NEW u, NEW v, NEW R, StateOK(u, R), u.pc \in Running,
           SameCall(u, v), v.error = "",
           v.pc \in Running \cup {"print"},
           v.pc \in Running \ {"clock", "mark"} => v.did = {},
           CommandOK(v), AchievedOK(v, R), ForgetOK(v, R), ListedOK(v, R), PlaceOK(v, R)
    PROVE  StateOK(v, R)
  <1>1. u.pc # "idle" /\ v.pc # "idle" /\ v.pc # "ended" /\ u.pc # "ended"
    BY DEF Running
  <1>2. PreparedOK(u) /\ OutOK(u) /\ u.error = ""
    BY <1>1 DEF StateOK, PreparedOK
  <1>3. PreparedOK(v)
    BY <1>2 DEF PreparedOK, SameCall
  <1>4. DidOK(v)
    BY DEF DidOK
  <1>5. OutOK(v)
    <2>1. {u.out[k] : k \in DOMAIN u.out} = {} /\ v.out = u.out
      BY <1>1, <1>2 DEF OutOK, SameCall
    <2>2. {v.out[k] : k \in DOMAIN v.out} = {}
      BY <2>1
    <2>3. QED
      BY <1>1, <2>2 DEF OutOK
  <1>6. QED
    BY <1>3, <1>4, <1>5 DEF StateOK, SameCall

(* A command that fails, be it with the write that is its last. *)
LEMMA FailKeeps ==
    ASSUME NEW u, NEW R, StateOK(u, R), u.pc \in Running \cup {"print"}, u.error = "", ~u.warned,
           NEW error, error # "", error \notin {"snapshot_not_found", "forget_no_snapshots_matched"},
           error = "snapshot_path_not_found" => u.inv.command \in {"ls", "restore"},
           u.did = {} \/ error \in LateErrors
    PROVE  StateOK(Failed(u, error), R)
  <1> DEFINE v == Failed(u, error)
  <1>1. /\ SameCall(u, v) /\ SameFound(u, v)
        /\ v.pc = "print" /\ v.error = error /\ v.warned = u.warned /\ v.did = u.did
    BY FailedState DEF StateOK
  <1> HIDE DEF v
  <1>2. u.pc # "idle" /\ u.pc # "ended"
    BY DEF Running
  <1>3. /\ PreparedOK(u) /\ CommandOK(u) /\ OutOK(u)
        /\ ForgetOK(u, R) /\ ListedOK(u, R) /\ PlaceOK(u, R)
    BY <1>2 DEF StateOK, PreparedOK
  <1>4. PreparedOK(v)
    BY <1>1, <1>3 DEF PreparedOK, SameCall, Running
  <1>5. CommandOK(v)
    BY <1>1, <1>3 DEF CommandOK, SameCall
  <1>6. DidOK(v)
    BY <1>1 DEF DidOK, Running
  <1>7. OutOK(v)
    <2>1. {u.out[k] : k \in DOMAIN u.out} = {} /\ v.out = u.out
      BY <1>1, <1>2, <1>3 DEF OutOK, SameCall
    <2>2. {v.out[k] : k \in DOMAIN v.out} = {}
      BY <2>1
    <2>3. QED
      BY <1>1, <2>2 DEF OutOK
  <1>8. AchievedOK(v, R)
    BY <1>1 DEF AchievedOK
  <1>9. ForgetOK(v, R)
    BY <1>1, <1>3 DEF ForgetOK, SameCall, SameFound
  <1>10. ListedOK(v, R)
    BY <1>1, <1>3 DEF ListedOK, HasListed, SameCall, SameFound
  <1>11. PlaceOK(v, R)
    BY <1>1, <1>3 DEF PlaceOK, SameCall, SameFound
  <1>12. QED
    BY <1>1, <1>4, <1>5, <1>6, <1>7, <1>8, <1>9, <1>10, <1>11 DEF StateOK, SameCall, v

(* What is known of a running command. *)
LEMMA RunningKnows ==
    ASSUME Inv, NEW p \in Procs, proc[p].pc \in Running
    PROVE  /\ StateOK(proc[p], repos) /\ Shape(proc[p])
           /\ PreparedOK(proc[p]) /\ CommandOK(proc[p]) /\ DidOK(proc[p])
           /\ AchievedOK(proc[p], repos) /\ ForgetOK(proc[p], repos)
           /\ ListedOK(proc[p], repos) /\ PlaceOK(proc[p], repos)
           /\ proc[p].error = "" /\ ~proc[p].warned
           /\ proc[p].inv \in Invocations
           /\ proc[p].place \in DOMAIN repos /\ proc[p].place # ""
           /\ IsRepository(repos[proc[p].place])
  <1>1. /\ StateOK(proc[p], repos) /\ ReposOK(repos)
        /\ proc[p].pc # "idle"
    BY DEF Inv, Running
  <1>2. /\ PreparedOK(proc[p]) /\ CommandOK(proc[p]) /\ DidOK(proc[p])
        /\ AchievedOK(proc[p], repos) /\ ForgetOK(proc[p], repos)
        /\ ListedOK(proc[p], repos) /\ PlaceOK(proc[p], repos) /\ Shape(proc[p])
    BY <1>1 DEF StateOK
  <1>3. /\ proc[p].error = "" /\ proc[p].inv \in Invocations
        /\ proc[p].place = Prepare(proc[p].inv).place
        /\ Prepare(proc[p].inv).error = "" /\ proc[p].inv.command # "version"
    BY <1>2 DEF PreparedOK
  <1>4. proc[p].place \in DOMAIN repos /\ proc[p].place # ""
    BY <1>1, <1>3, PrepareNames
  <1>5. ~proc[p].warned
    BY <1>2 DEF CommandOK
  <1>6. QED
    BY <1>1, <1>2, <1>3, <1>4, <1>5 DEF ReposOK

(* A running command that fails without a write. *)
LEMMA FailStep ==
    ASSUME Inv, NEW p \in Procs, proc[p].pc \in Running,
           NEW error, error # "", error \notin {"snapshot_not_found", "forget_no_snapshots_matched"},
           error = "snapshot_path_not_found" => proc[p].inv.command \in {"ls", "restore"},
           proc[p].did = {} \/ error \in LateErrors,
           Become(p, Failed(proc[p], error)), UNCHANGED <<repos, given>>
    PROVE  Inv'
  <1>1. StateOK(proc[p], repos) /\ proc[p].error = "" /\ ~proc[p].warned
    BY RunningKnows
  <1>2. StateOK(Failed(proc[p], error), repos)
    BY <1>1, FailKeeps
  <1>3. QED
    BY <1>2, QuietStep

(* The repositories when that of a running command becomes repo. *)
With(p, repo) == [repos EXCEPT ![proc[p].place] = repo]

Extends(repo, old) ==
    /\ IsRepository(repo)
    /\ old.slots \subseteq repo.slots
    /\ old.snapshots \subseteq repo.snapshots
    /\ old.forgotten \subseteq repo.forgotten

LEMMA WithGrows ==
    ASSUME Inv, NEW p \in Procs, proc[p].pc \in Running,
           NEW repo, Extends(repo, repos[proc[p].place])
    PROVE  /\ ReposOK(With(p, repo))
           /\ Grows(repos, With(p, repo))
           /\ With(p, repo)[proc[p].place] = repo
           /\ GivenOK(given, With(p, repo))
  <1> DEFINE place == proc[p].place
             Q == With(p, repo)
  <1>1. place \in DOMAIN repos
    BY RunningKnows
  <1>2. ReposOK(repos) /\ GivenOK(given, repos)
    BY DEF Inv
  <1>3. /\ DOMAIN Q = DOMAIN repos
        /\ Q[place] = repo
        /\ \A q \in DOMAIN repos : q # place => Q[q] = repos[q]
    BY <1>1, <1>2 DEF With, ReposOK
  <1> HIDE DEF Q, place
  <1>4. Grows(repos, Q)
    BY <1>3 DEF Grows, Extends, place
  <1>5. ReposOK(Q)
    BY <1>2, <1>3 DEF ReposOK, Extends
  <1>6. GivenOK(given, Q)
    BY <1>2, <1>4 DEF GivenOK, Grows
  <1>7. QED
    BY <1>3, <1>4, <1>5, <1>6 DEF Q, place

(* A write: done and reported, done and reported as failed, or not done. *)
LEMMA WriteKeeps ==
    ASSUME Inv, NEW p \in Procs, proc[p].pc \in Running,
           NEW repo, Extends(repo, repos[proc[p].place]),
           NEW done, StateOK(done, With(p, repo)),
           done.pc \in Running \cup {"print"}, done.error = "", ~done.warned,
           Write(p, repo, done)
    PROVE  Inv'
  <1> DEFINE io == "storage_object_io_failed"
  <1>1. /\ ReposOK(With(p, repo)) /\ Grows(repos, With(p, repo))
        /\ GivenOK(given, With(p, repo))
    BY WithGrows
  <1>2. io \in LateErrors /\ io # "" /\ io # "snapshot_path_not_found"
        /\ io \notin {"snapshot_not_found", "forget_no_snapshots_matched"}
    BY DEF LateErrors
  <1> HIDE DEF io
  <1>3. StateOK(Failed(done, io), With(p, repo))
    BY <1>2, FailKeeps
  <1>4. given' = given
    BY DEF Write
  <1>5. CASE repos' = With(p, repo) /\ (Become(p, done) \/ Become(p, Failed(done, io)))
    BY <1>1, <1>3, <1>4, <1>5, OneProcSteps
  <1>6. CASE Become(p, Failed(proc[p], io)) /\ UNCHANGED repos
    BY <1>2, <1>4, <1>6, FailStep
  <1>7. QED
    BY <1>5, <1>6 DEF Write, With, io

(* A running command that only moves on. *)
LEMMA GoToKeeps ==
    ASSUME Inv, NEW p \in Procs, proc[p].pc \in Running, UNCHANGED <<repos, given>>,
           NEW pc \in Running \cup {"print"}, GoTo(p, pc),
           pc \notin {"entries", "restore", "clock", "time"},
           pc = "create" => proc[p].inv.command = "init",
           pc = "add" => proc[p].inv.command = "key add",
           pc = "commit" => proc[p].inv.command = "backup",
           pc = "mark" => proc[p].pc = "time",
           pc \in Running \ {"mark"} => proc[p].pc = "open" /\ proc[p].did = {},
           pc = "print" => /\ AchievedBy(proc[p], repos)
                           /\ proc[p].inv.command \notin {"forget", "snapshots"}
    PROVE  Inv'
  <1> DEFINE u == proc[p]
             v == [u EXCEPT !.pc = pc]
  <1>1. /\ StateOK(u, repos) /\ Shape(u) /\ CommandOK(u) /\ ForgetOK(u, repos)
        /\ ListedOK(u, repos) /\ PlaceOK(u, repos) /\ u.error = "" /\ ~u.warned
    BY RunningKnows
  <1>2. /\ SameCall(u, v) /\ SameFound(u, v)
        /\ v.pc = pc /\ v.error = u.error /\ v.warned = u.warned /\ v.did = u.did
    BY <1>1, MovedState
  <1> HIDE DEF v, u
  <1>3. CommandOK(v)
    BY <1>1, <1>2 DEF CommandOK, SameCall, u
  <1>4. AchievedOK(v, repos)
    <2>1. AchievedBy(u, repos) => AchievedBy(v, repos)
      BY <1>2 DEF AchievedBy, SameCall, SameFound
    <2>2. QED
      BY <1>2, <2>1 DEF AchievedOK, Told, Running, u
  <1>5. ForgetOK(v, repos)
    BY <1>1, <1>2 DEF ForgetOK, SameCall, SameFound, Told, u, Running
  <1>6. ListedOK(v, repos)
    <2>1. HasListed(v) => HasListed(u)
      BY <1>1, <1>2 DEF HasListed, SameCall, SameFound, Told, u, Running
    <2>2. QED
      BY <1>1, <1>2, <2>1 DEF ListedOK, SameCall, SameFound, Running, u
  <1>7. PlaceOK(v, repos)
    BY <1>1, <1>2 DEF PlaceOK, SameCall, SameFound
  <1>8. StateOK(v, repos)
    BY <1>1, <1>2, <1>3, <1>4, <1>5, <1>6, <1>7, MoveKeeps DEF u
  <1>9. QED
    BY <1>8, QuietStep DEF GoTo, u, v

(* create_repository and open_repository. *)
LEMMA OpenKeeps ==
    ASSUME Inv, NEW p \in Procs, Open(p) PROVE Inv'
  <1>1. proc[p].pc = "open" /\ proc[p].pc \in Running /\ UNCHANGED <<repos, given>>
    BY DEF Open, At, Running
  <1>2. proc[p].did = {} /\ proc[p].place # ""
    BY <1>1, RunningKnows DEF DidOK, Open, At, Running
  <1>3. CASE proc[p].inv.command = "init" /\ GoTo(p, "create")
    BY <1>1, <1>2, <1>3, GoToKeeps DEF Running
  <1>4. CASE proc[p].pass \in Repo(p).slots /\ GoTo(p, Opened(proc[p].inv.command))
    <2>1. CASE proc[p].inv.command = "init"
      <3>1. AchievedBy(proc[p], repos)
        BY <1>2, <1>4, <2>1 DEF AchievedBy, Repo
      <3>2. GoTo(p, "print")
        BY <1>4, <2>1 DEF Opened
      <3>3. QED
        BY <1>1, <2>1, <3>1, <3>2, GoToKeeps DEF Running
    <2>2. CASE proc[p].inv.command = "key add"
      <3>1. GoTo(p, "add")
        BY <1>4, <2>2 DEF Opened
      <3>2. QED
        BY <1>1, <1>2, <2>2, <3>1, GoToKeeps DEF Running
    <2>3. CASE proc[p].inv.command = "backup"
      <3>1. GoTo(p, "commit")
        BY <1>4, <2>3 DEF Opened
      <3>2. QED
        BY <1>1, <1>2, <2>3, <3>1, GoToKeeps DEF Running
    <2>4. CASE proc[p].inv.command \notin {"init", "key add", "backup"}
      <3>1. GoTo(p, "list")
        BY <1>4, <2>4 DEF Opened
      <3>2. QED
        BY <1>1, <1>2, <2>4, <3>1, GoToKeeps DEF Running
    <2>5. QED
      BY <2>1, <2>2, <2>3, <2>4
  <1>5. CASE \E error \in {"repository_not_initialized", "repository_unlock_failed",
                           "storage_object_io_failed"} : Become(p, Failed(proc[p], error))
    BY <1>1, <1>2, <1>5, FailStep
  <1>6. QED
    BY <1>3, <1>4, <1>5 DEF Open

(* backup: the time of completion. *)
LEMMA ReadClockKeeps ==
    ASSUME Inv, NEW p \in Procs, ReadClock(p) PROVE Inv'
  <1>1. proc[p].pc = "clock" /\ proc[p].pc \in Running /\ UNCHANGED <<repos, given>>
    BY DEF ReadClock, At, Running
  <1>2. AchievedBy(proc[p], repos) /\ proc[p].inv.command = "backup"
    BY <1>1, RunningKnows DEF AchievedOK, CommandOK
  <1>3. CASE GoTo(p, "print")
    BY <1>1, <1>2, <1>3, GoToKeeps DEF Running
  <1>4. CASE \E error \in {"system_clock_invalid"} : Become(p, Failed(proc[p], error))
    BY <1>1, <1>4, FailStep DEF LateErrors
  <1>5. QED
    BY <1>3, <1>4 DEF ReadClock

(* Commands that are for none of the effects have done what they are for. *)
LEMMA ReadersAchieve ==
    ASSUME NEW u, u.inv.command \notin {"init", "key add", "backup", "forget"}, NEW R
    PROVE  AchievedBy(u, R)
  BY DEF AchievedBy

(* list_snapshot_entries *)
LEMMA ListEntriesKeeps ==
    ASSUME Inv, NEW p \in Procs, ListEntries(p) PROVE Inv'
  <1>1. proc[p].pc = "entries" /\ proc[p].pc \in Running /\ UNCHANGED <<repos, given>>
    BY DEF ListEntries, At, Running
  <1>2. proc[p].inv.command = "ls" /\ proc[p].did = {}
    BY <1>1, RunningKnows DEF CommandOK, DidOK
  <1>3. CASE GoTo(p, "print")
    BY <1>1, <1>2, <1>3, GoToKeeps, ReadersAchieve DEF Running
  <1>4. CASE \E error \in {"snapshot_path_not_found"} : Become(p, Failed(proc[p], error))
    BY <1>1, <1>2, <1>4, FailStep
  <1>5. QED
    BY <1>3, <1>4 DEF ListEntries

(* check_repository_with_options *)
LEMMA CheckKeeps ==
    ASSUME Inv, NEW p \in Procs, Check(p) PROVE Inv'
  <1>1. /\ proc[p].pc = "list" /\ proc[p].pc \in Running /\ UNCHANGED <<repos, given>>
        /\ proc[p].inv.command = "check"
    BY DEF Check, At, Running
  <1>2. proc[p].did = {}
    BY <1>1, RunningKnows DEF DidOK
  <1>3. CASE GoTo(p, "print")
    BY <1>1, <1>2, <1>3, GoToKeeps, ReadersAchieve DEF Running
  <1>4. CASE \E error \in {"storage_object_io_failed", "system_clock_invalid"} :
                 Become(p, Failed(proc[p], error))
    BY <1>1, <1>2, <1>4, FailStep
  <1>5. QED
    BY <1>3, <1>4 DEF Check

(* write_snapshot_forget_markers: the time of the markers. *)
LEMMA MarkerTimeKeeps ==
    ASSUME Inv, NEW p \in Procs, MarkerTime(p) PROVE Inv'
  <1>1. proc[p].pc = "time" /\ proc[p].pc \in Running /\ UNCHANGED <<repos, given>>
    BY DEF MarkerTime, At, Running
  <1>2. CASE GoTo(p, "mark")
    BY <1>1, <1>2, GoToKeeps DEF Running
  <1>3. CASE \E error \in {"system_clock_invalid"} : Become(p, Failed(proc[p], error))
    BY <1>1, <1>3, FailStep DEF LateErrors
  <1>4. QED
    BY <1>2, <1>3 DEF MarkerTime

(* A repository with other slots, snapshots or forgotten ids. *)
LEMMA RepoUpdated ==
    ASSUME NEW repo, IsRepository(repo), NEW S
    PROVE  /\ [repo EXCEPT !.slots = S] =
                 [slots |-> S, snapshots |-> repo.snapshots, forgotten |-> repo.forgotten]
           /\ [repo EXCEPT !.snapshots = S] =
                 [slots |-> repo.slots, snapshots |-> S, forgotten |-> repo.forgotten]
           /\ [repo EXCEPT !.forgotten = S] =
                 [slots |-> repo.slots, snapshots |-> repo.snapshots, forgotten |-> S]
  <1> DEFINE a == repo.slots
             b == repo.snapshots
             c == repo.forgotten
             r == [slots |-> a, snapshots |-> b, forgotten |-> c]
  <1>1. repo = r
    BY DEF IsRepository
  <1> HIDE DEF a, b, c
  <1>2. /\ [r EXCEPT !.slots = S] = [slots |-> S, snapshots |-> b, forgotten |-> c]
        /\ [r EXCEPT !.snapshots = S] = [slots |-> a, snapshots |-> S, forgotten |-> c]
        /\ [r EXCEPT !.forgotten = S] = [slots |-> a, snapshots |-> b, forgotten |-> S]
    OBVIOUS
  <1> HIDE DEF r
  <1>3. /\ [repo EXCEPT !.slots = S] = [slots |-> S, snapshots |-> b, forgotten |-> c]
        /\ [repo EXCEPT !.snapshots = S] = [slots |-> a, snapshots |-> S, forgotten |-> c]
        /\ [repo EXCEPT !.forgotten = S] = [slots |-> a, snapshots |-> b, forgotten |-> S]
    BY <1>1, <1>2, Zenon
  <1>4. QED
    BY <1>3 DEF a, b, c

(* A repository that has gained slots or forgotten ids. *)
LEMMA RepoExtended ==
    ASSUME NEW old, IsRepository(old), NEW repo,
           repo = [slots |-> repo.slots, snapshots |-> repo.snapshots, forgotten |-> repo.forgotten],
           repo.snapshots = old.snapshots,
           old.slots \subseteq repo.slots, old.forgotten \subseteq repo.forgotten
    PROVE  Extends(repo, old)
  BY DEF Extends, IsRepository

(* A command that has written what it is for. *)
LEMMA DoneKeeps ==
    ASSUME NEW u, NEW R, StateOK(u, R), u.pc \in {"create", "add", "commit"},
           u.inv.command \notin {"forget", "snapshots"},
           NEW did, NEW pc \in {"print", "clock"}, pc = "clock" => u.inv.command = "backup",
           NEW v, v = [u EXCEPT !.did = did, !.pc = pc],
           AchievedBy(v, R)
    PROVE  /\ StateOK(v, R)
           /\ v.pc \in Running \cup {"print"} /\ v.error = "" /\ ~v.warned
  <1>1. /\ Shape(u) /\ CommandOK(u) /\ ForgetOK(u, R) /\ PreparedOK(u)
        /\ ListedOK(u, R) /\ PlaceOK(u, R) /\ u.error = "" /\ ~u.warned
    BY DEF StateOK, CommandOK, PreparedOK, Running
  <1>2. /\ SameCall(u, v) /\ SameFound(u, v)
        /\ v.pc = pc /\ v.error = u.error /\ v.warned = u.warned /\ v.did = did
    BY <1>1 DEF SameCall, SameFound, Shape, Fields
  <1>3. CommandOK(v)
    BY <1>1, <1>2 DEF CommandOK, SameCall
  <1>4. AchievedOK(v, R)
    BY DEF AchievedOK
  <1>5. ForgetOK(v, R)
    BY <1>1, <1>2 DEF ForgetOK, SameCall, SameFound, Told
  <1>6. ListedOK(v, R)
    <2>1. HasListed(v) => HasListed(u)
      BY <1>1, <1>2 DEF HasListed, SameCall, SameFound, Told
    <2>2. QED
      BY <1>1, <1>2, <2>1 DEF ListedOK, SameCall, SameFound
  <1>7. PlaceOK(v, R)
    BY <1>1, <1>2 DEF PlaceOK, SameCall, SameFound
  <1>8. StateOK(v, R)
    BY <1>1, <1>2, <1>3, <1>4, <1>5, <1>6, <1>7, MoveKeeps DEF Running
  <1>9. QED
    BY <1>1, <1>2, <1>8 DEF Running

(* create_repository: the put of the bootstrap object. *)
LEMMA CreateKeeps ==
    ASSUME Inv, NEW p \in Procs, Create(p) PROVE Inv'
  <1> DEFINE u == proc[p]
             repo == [Repo(p) EXCEPT !.slots = {u.pass}]
             v == [u EXCEPT !.did = {"created"}, !.pc = "print"]
  <1>1. u.pc = "create" /\ u.pc \in Running
    BY DEF Create, At, Running
  <1>2. /\ StateOK(u, repos) /\ Shape(u) /\ u.inv.command = "init" /\ u.did = {}
        /\ u.place \in DOMAIN repos /\ u.place # "" /\ IsRepository(Repo(p))
    BY <1>1, RunningKnows DEF CommandOK, DidOK, Repo
  <1>3. CASE Repo(p).slots = {}
    <2>1. Extends(repo, Repo(p)) /\ repo.slots = {u.pass}
      <3>1. repo = [slots |-> {u.pass}, snapshots |-> Repo(p).snapshots,
                    forgotten |-> Repo(p).forgotten]
        BY <1>2, RepoUpdated, Zenon
      <3> HIDE DEF repo
      <3>2. /\ repo = [slots |-> repo.slots, snapshots |-> repo.snapshots,
                        forgotten |-> repo.forgotten]
            /\ repo.slots = {u.pass} /\ repo.snapshots = Repo(p).snapshots
            /\ repo.forgotten = Repo(p).forgotten
        BY <3>1
      <3>3. QED
        BY <1>2, <1>3, <3>2, RepoExtended
    <2>2. Write(p, repo, v)
      BY <1>3 DEF Create
    <2> HIDE DEF repo
    <2>3. StateOK(u, With(p, repo)) /\ With(p, repo)[u.place] = repo
      BY <1>1, <1>2, <2>1, WithGrows, StateOKGrows DEF Repo
    <2>4. AchievedBy(v, With(p, repo))
      <3>1. v.inv = u.inv /\ v.place = u.place /\ v.pass = u.pass
        BY <1>2 DEF Shape, Fields
      <3> HIDE DEF v
      <3>2. QED
        BY <1>2, <2>1, <2>3, <3>1 DEF AchievedBy
    <2>5. /\ StateOK(v, With(p, repo))
          /\ v.pc \in Running \cup {"print"} /\ v.error = "" /\ ~v.warned
      BY <1>1, <1>2, <2>3, <2>4, DoneKeeps
    <2> HIDE DEF v
    <2>6. QED
      BY <1>1, <2>1, <2>2, <2>5, WriteKeeps DEF Repo
  <1>4. CASE Repo(p).slots # {}
    <2>1. \E error \in {"storage_object_already_exists"} :
              Become(p, Failed(u, error)) /\ UNCHANGED <<repos, given>>
      BY <1>4 DEF Create, Fail
    <2>2. QED
      BY <1>1, <1>2, <2>1, FailStep
  <1>5. QED
    BY <1>3, <1>4

(* add_repository_key_slot *)
LEMMA AddKeyKeeps ==
    ASSUME Inv, NEW p \in Procs, AddKey(p) PROVE Inv'
  <1> DEFINE u == proc[p]
             repo == [Repo(p) EXCEPT !.slots = @ \cup {u.new}]
             v == [u EXCEPT !.did = {"added"}, !.pc = "print"]
  <1>1. u.pc = "add" /\ u.pc \in Running
    BY DEF AddKey, At, Running
  <1>2. /\ StateOK(u, repos) /\ Shape(u) /\ u.inv.command = "key add" /\ u.did = {}
        /\ u.place \in DOMAIN repos /\ u.place # "" /\ IsRepository(Repo(p))
    BY <1>1, RunningKnows DEF CommandOK, DidOK, Repo
  <1>3. Extends(repo, Repo(p)) /\ u.new \in repo.slots
    <2>1. repo = [slots |-> Repo(p).slots \cup {u.new}, snapshots |-> Repo(p).snapshots,
                  forgotten |-> Repo(p).forgotten]
      BY <1>2, RepoUpdated, Zenon
    <2> HIDE DEF repo
    <2>2. /\ repo = [slots |-> repo.slots, snapshots |-> repo.snapshots,
                      forgotten |-> repo.forgotten]
          /\ repo.slots = Repo(p).slots \cup {u.new} /\ repo.snapshots = Repo(p).snapshots
          /\ repo.forgotten = Repo(p).forgotten
      BY <2>1
    <2>3. QED
      BY <1>2, <2>2, RepoExtended
  <1>4. Write(p, repo, v)
    BY DEF AddKey
  <1> HIDE DEF repo
  <1>5. StateOK(u, With(p, repo)) /\ With(p, repo)[u.place] = repo
    BY <1>1, <1>2, <1>3, WithGrows, StateOKGrows DEF Repo
  <1>6. AchievedBy(v, With(p, repo))
    <2>1. v.inv = u.inv /\ v.place = u.place /\ v.new = u.new
      BY <1>2 DEF Shape, Fields
    <2> HIDE DEF v
    <2>2. QED
      BY <1>2, <1>3, <1>5, <2>1 DEF AchievedBy
  <1>7. /\ StateOK(v, With(p, repo))
        /\ v.pc \in Running \cup {"print"} /\ v.error = "" /\ ~v.warned
    BY <1>1, <1>2, <1>5, <1>6, DoneKeeps
  <1> HIDE DEF v
  <1>8. QED
    BY <1>1, <1>3, <1>4, <1>7, WriteKeeps DEF Repo

(* write_snapshot: the commit marker. *)
LEMMA CommitKeeps ==
    ASSUME Inv, NEW p \in Procs, Commit(p) PROVE Inv'
  <1> DEFINE u == proc[p]
  <1>1. u.pc = "commit" /\ u.pc \in Running
    BY DEF Commit, At, Running
  <1>2. /\ StateOK(u, repos) /\ Shape(u) /\ u.inv.command = "backup" /\ u.did = {}
        /\ u.place \in DOMAIN repos /\ u.place # "" /\ IsRepository(Repo(p))
    BY <1>1, RunningKnows DEF CommandOK, DidOK, Repo
  <1>3. CASE \E error \in {"file_read_failed", "storage_object_already_exists"} : Fail(p, error)
    BY <1>1, <1>2, <1>3, FailStep DEF Fail
  <1>4. ASSUME NEW id \in Ids \ {s.id : s \in Repo(p).snapshots}, NEW t \in Instants,
               LET s == [id |-> id, created_at |-> t, tags |-> u.inv.tags] IN
               Write(p, [Repo(p) EXCEPT !.snapshots = @ \cup {s}],
                     [u EXCEPT !.did = {s}, !.pc = "clock"])
        PROVE  Inv'
    <2> DEFINE s == [id |-> id, created_at |-> t, tags |-> u.inv.tags]
               repo == [Repo(p) EXCEPT !.snapshots = @ \cup {s}]
               v == [u EXCEPT !.did = {s}, !.pc = "clock"]
    <2>1. s.id = id /\ s.created_at = t /\ s.tags = u.inv.tags
      OBVIOUS
    <2>2. Write(p, repo, v)
      BY <1>4
    <2> HIDE DEF s
    <2>3. Extends(repo, Repo(p)) /\ s \in repo.snapshots
      <3>1. /\ repo.snapshots = Repo(p).snapshots \cup {s}
            /\ repo.slots = Repo(p).slots /\ repo.forgotten = Repo(p).forgotten
            /\ repo = [slots |-> repo.slots, snapshots |-> repo.snapshots,
                       forgotten |-> repo.forgotten]
        <4>1. repo = [slots |-> Repo(p).slots, snapshots |-> Repo(p).snapshots \cup {s},
                      forgotten |-> Repo(p).forgotten]
          BY <1>2, RepoUpdated, Zenon
        <4> HIDE DEF repo
        <4>2. QED
          BY <4>1
      <3> HIDE DEF repo
      <3>2. IsFiniteSet(repo.snapshots)
        <4>1. IsFiniteSet(Repo(p).snapshots)
          BY <1>2 DEF IsRepository
        <4>2. QED
          BY <3>1, <4>1, FS_AddElement
      <3>3. \A q \in Repo(p).snapshots : q.id # id
        BY <1>4
      <3>4. IsRepository(repo)
        BY <1>2, <2>1, <3>1, <3>2, <3>3 DEF IsRepository
      <3>5. QED
        BY <3>1, <3>4 DEF Extends
    <2> HIDE DEF repo
    <2>4. StateOK(u, With(p, repo)) /\ With(p, repo)[u.place] = repo
      BY <1>1, <1>2, <2>3, WithGrows, StateOKGrows DEF Repo
    <2>5. AchievedBy(v, With(p, repo))
      <3>1. v.inv = u.inv /\ v.place = u.place /\ v.did = {s}
        BY <1>2 DEF Shape, Fields
      <3> HIDE DEF v
      <3>2. QED
        BY <1>2, <2>1, <2>3, <2>4, <3>1 DEF AchievedBy
    <2>6. /\ StateOK(v, With(p, repo))
          /\ v.pc \in Running \cup {"print"} /\ v.error = "" /\ ~v.warned
      BY <1>1, <1>2, <2>4, <2>5, DoneKeeps
    <2> HIDE DEF v
    <2>7. QED
      BY <1>1, <2>2, <2>3, <2>6, WriteKeeps DEF Repo
  <1>5. QED
    BY <1>3, <1>4 DEF Commit

(* A command that has loaded the snapshots, and goes by them to state v. *)
LEMMA LoadKeeps ==
    ASSUME Inv, NEW p \in Procs, proc[p].pc = "list", UNCHANGED <<repos, given>>,
           NEW v, Become(p, v), SameCall(proc[p], v),
           v.listed = Visible(Repo(p)), v.did = {},
           v.pc \in {"print", "entries", "restore", "time"}, v.pc # "print" => v.error = "",
           v.selected # {} => v.selected = SelectSnapshot(v.listed, Selection(v.inv)),
           v.error = "snapshot_not_found" => Matching(Selection(v.inv), v.listed) = {},
           CommandOK(v), AchievedOK(v, repos), ForgetOK(v, repos)
    PROVE  Inv'
  <1> DEFINE u == proc[p]
  <1>1. u.pc \in Running
    BY DEF Running
  <1>2. /\ StateOK(u, repos) /\ PreparedOK(u) /\ ListedOK(u, repos)
        /\ u.place \in DOMAIN repos /\ u.error = ""
    BY <1>1, RunningKnows
  <1>3. OutOK(u)
    BY <1>2 DEF StateOK
  <1> HIDE DEF u
  <1>4. SameCall(u, v) /\ u.pc = "list" /\ v.listed = Visible(repos[u.place])
    BY DEF u, Repo
  <1>5. PreparedOK(v)
    BY <1>2, <1>4 DEF PreparedOK, SameCall, Running
  <1>6. DidOK(v)
    BY DEF DidOK
  <1>7. OutOK(v)
    <2>1. {u.out[k] : k \in DOMAIN u.out} = {} /\ v.out = u.out
      BY <1>3, <1>4 DEF OutOK, SameCall
    <2>2. {v.out[k] : k \in DOMAIN v.out} = {}
      BY <2>1
    <2>3. QED
      BY <2>2 DEF OutOK
  <1>8. ListedOK(v, repos)
    <2>1. /\ v.place = u.place /\ v.began = u.began
          /\ \A s \in u.began : s \in repos[u.place].snapshots
      BY <1>2, <1>4 DEF SameCall, ListedOK
    <2>2. \A s \in v.listed \cup v.began : s \in repos[v.place].snapshots
      BY <1>4, <2>1 DEF Visible
    <2>3. \A s \in v.began \ v.listed : s.id \in repos[v.place].forgotten
      BY <1>4, <2>1 DEF Visible
    <2>4. QED
      BY <2>2, <2>3 DEF ListedOK
  <1>9. PlaceOK(v, repos)
    BY <1>2, <1>4 DEF PlaceOK, SameCall
  <1>10. StateOK(v, repos)
    BY <1>4, <1>5, <1>6, <1>7, <1>8, <1>9 DEF StateOK, SameCall
  <1>11. QED
    BY <1>10, QuietStep

(* What a command is when it is about to load. *)
LEMMA AboutToLoad ==
    ASSUME Inv, NEW p \in Procs, proc[p].pc = "list"
    PROVE  /\ Shape(proc[p]) /\ PreparedOK(proc[p]) /\ CommandOK(proc[p])
           /\ proc[p].error = "" /\ proc[p].warned = FALSE /\ proc[p].did = {}
           /\ proc[p].selected = {} /\ proc[p].chosen = {} /\ proc[p].todo = {}
           /\ proc[p].place # ""
           /\ IsFiniteSet(Visible(Repo(p)))
           /\ \A s \in Visible(Repo(p)) : s.id \in Nat /\ s.created_at \in Nat
           /\ \A s, t \in Visible(Repo(p)) : s.id = t.id => s = t
  <1>1. proc[p].pc \in Running
    BY DEF Running
  <1>2. /\ Shape(proc[p]) /\ PreparedOK(proc[p]) /\ CommandOK(proc[p]) /\ DidOK(proc[p])
        /\ ForgetOK(proc[p], repos) /\ ListedOK(proc[p], repos)
        /\ proc[p].error = "" /\ ~proc[p].warned /\ proc[p].place # ""
        /\ IsRepository(Repo(p))
    BY <1>1, RunningKnows DEF Repo
  <1>3. /\ proc[p].did = {} /\ proc[p].selected = {} /\ proc[p].listed = {}
        /\ proc[p].warned = FALSE
    BY <1>1, <1>2 DEF DidOK, ListedOK, CommandOK
  <1>4. proc[p].chosen = {} /\ proc[p].todo = {}
    BY <1>2, <1>3 DEF ForgetOK
  <1>5. Visible(Repo(p)) \subseteq Repo(p).snapshots
    BY DEF Visible
  <1>6. IsFiniteSet(Visible(Repo(p)))
    BY <1>2, <1>5, FS_Subset DEF IsRepository
  <1>7. QED
    BY <1>2, <1>3, <1>4, <1>5, <1>6, CliAssumption DEF IsRepository

(* A store that fails while the snapshots are loaded. *)
LEMMA LoadFails ==
    ASSUME Inv, NEW p \in Procs, proc[p].pc = "list", UNCHANGED <<repos, given>>,
           Become(p, Failed(proc[p], "storage_object_io_failed"))
    PROVE  Inv'
  <1>1. \E error \in {"storage_object_io_failed"} : Become(p, Failed(proc[p], error))
    OBVIOUS
  <1>2. proc[p].pc \in Running /\ proc[p].did = {}
    BY AboutToLoad DEF Running
  <1>3. QED
    BY <1>1, <1>2, FailStep

(* snapshots *)
LEMMA ListSnapshotsKeeps ==
    ASSUME Inv, NEW p \in Procs, ListSnapshots(p) PROVE Inv'
  <1> DEFINE u == proc[p]
             v == [Listed(p) EXCEPT !.pc = "print"]
  <1>1. /\ u.pc = "list" /\ u.inv.command = "snapshots" /\ UNCHANGED <<repos, given>>
        /\ Become(p, v) \/ Become(p, Failed(u, "storage_object_io_failed"))
    BY DEF ListSnapshots, Load, At
  <1>2. CASE Become(p, v)
    <2>1. /\ Shape(u) /\ CommandOK(u) /\ u.error = "" /\ u.warned = FALSE /\ u.did = {}
          /\ u.selected = {} /\ u.chosen = {} /\ u.todo = {}
      BY <1>1, AboutToLoad
    <2>2. /\ SameCall(u, v) /\ v.pc = "print" /\ v.listed = Visible(Repo(p))
          /\ v.error = "" /\ v.warned = FALSE /\ v.did = {}
          /\ v.selected = {} /\ v.chosen = {} /\ v.todo = {}
      BY <2>1 DEF SameCall, Listed, Shape, Fields
    <2> HIDE DEF v
    <2>3. CommandOK(v)
      BY <1>1, <2>2 DEF CommandOK
    <2>4. AchievedOK(v, repos)
      BY <1>1, <2>2, ReadersAchieve DEF AchievedOK, SameCall
    <2>5. ForgetOK(v, repos)
      BY <1>1, <2>2 DEF ForgetOK, SameCall
    <2>6. QED
      BY <1>1, <1>2, <2>2, <2>3, <2>4, <2>5, LoadKeeps
  <1>3. CASE Become(p, Failed(u, "storage_object_io_failed"))
    BY <1>1, <1>3, LoadFails
  <1>4. QED
    BY <1>1, <1>2, <1>3

(* ls and restore: the snapshot is selected. *)
LEMMA SelectKeeps ==
    ASSUME Inv, NEW p \in Procs, Select(p) PROVE Inv'
  <1> DEFINE u == proc[p]
             visible == Visible(Repo(p))
             selected == SelectSnapshot(visible, Selection(u.inv))
             none == Failed(Listed(p), "snapshot_not_found")
             v == [Listed(p) EXCEPT !.selected = selected,
                      !.pc = IF u.inv.command = "ls" THEN "entries" ELSE "restore"]
  <1>1. /\ u.pc = "list" /\ u.inv.command \in {"ls", "restore"} /\ UNCHANGED <<repos, given>>
    BY DEF Select, Load, At
  <1>2. /\ Shape(u) /\ CommandOK(u) /\ u.error = "" /\ u.warned = FALSE /\ u.did = {}
        /\ u.selected = {} /\ u.chosen = {} /\ u.todo = {}
    BY <1>1, AboutToLoad
  <1>3. Listed(p).listed = visible
    BY <1>2 DEF Listed, Shape, Fields
  <1>4. \/ selected = {} /\ Become(p, none)
        \/ selected # {} /\ Become(p, v)
        \/ Become(p, Failed(u, "storage_object_io_failed"))
    BY <1>3 DEF Select, Load
  <1>5. CASE selected = {} /\ Become(p, none)
    <2>1. Matching(Selection(u.inv), visible) = {}
      BY <1>1, <1>5, AboutToLoad, SelectsLatest
    <2>2. /\ SameCall(u, none) /\ none.pc = "print" /\ none.listed = visible
          /\ none.error = "snapshot_not_found" /\ none.warned = FALSE /\ none.did = {}
          /\ none.selected = {} /\ none.chosen = {} /\ none.todo = {}
      BY <1>2 DEF SameCall, Listed, Shape, Fields, Failed
    <2> HIDE DEF none, visible
    <2>3. CommandOK(none)
      BY <1>1, <2>2 DEF CommandOK, SameCall
    <2>4. AchievedOK(none, repos)
      BY <2>2 DEF AchievedOK
    <2>5. ForgetOK(none, repos)
      BY <2>2 DEF ForgetOK
    <2>6. none.inv = u.inv
      BY <2>2 DEF SameCall
    <2>7. QED
      BY <1>1, <1>5, <2>1, <2>2, <2>3, <2>4, <2>5, <2>6, LoadKeeps DEF visible
  <1>6. CASE selected # {} /\ Become(p, v)
    <2>1. /\ SameCall(u, v) /\ v.pc = IF u.inv.command = "ls" THEN "entries" ELSE "restore"
          /\ v.listed = visible /\ v.error = "" /\ v.warned = FALSE /\ v.did = {}
          /\ v.selected = selected /\ v.chosen = {} /\ v.todo = {}
      <3> HIDE DEF selected, visible
      <3>1. QED
        BY <1>2, <1>3 DEF SameCall, Listed, Shape, Fields
    <2> HIDE DEF v, visible
    <2>2. v.inv = u.inv
      BY <2>1 DEF SameCall
    <2>3. CommandOK(v)
      BY <1>1, <2>1, <2>2 DEF CommandOK
    <2>4. AchievedOK(v, repos)
      BY <1>1, <2>1 DEF AchievedOK, Told
    <2>5. ForgetOK(v, repos)
      BY <1>1, <2>1, <2>2 DEF ForgetOK, Told
    <2>6. QED
      BY <1>1, <1>6, <2>1, <2>2, <2>3, <2>4, <2>5, LoadKeeps DEF visible
  <1>7. CASE Become(p, Failed(u, "storage_object_io_failed"))
    BY <1>1, <1>7, LoadFails
  <1>8. QED
    BY <1>4, <1>5, <1>6, <1>7

(* forget: the plan. *)
LEMMA PlanForgetKeeps ==
    ASSUME Inv, NEW p \in Procs, PlanForget(p) PROVE Inv'
  <1> DEFINE u == proc[p]
             visible == Visible(Repo(p))
             forgotten == PlanForgotten(u.policy, visible)
             none == Failed(Listed(p), "forget_no_snapshots_matched")
             v == [Listed(p) EXCEPT !.chosen = forgotten, !.todo = forgotten,
                      !.pc = IF u.inv.dry_run THEN "print" ELSE "time"]
  <1>1. /\ u.pc = "list" /\ u.inv.command = "forget" /\ UNCHANGED <<repos, given>>
    BY DEF PlanForget, Load, At
  <1>2. /\ Shape(u) /\ CommandOK(u) /\ u.error = "" /\ u.warned = FALSE /\ u.did = {}
        /\ u.selected = {} /\ u.chosen = {} /\ u.todo = {} /\ u.place # ""
    BY <1>1, AboutToLoad
  <1>3. Listed(p).listed = visible
    BY <1>2 DEF Listed, Shape, Fields
  <1>4. \/ forgotten = {} /\ Become(p, none)
        \/ forgotten # {} /\ Become(p, v)
        \/ Become(p, Failed(u, "storage_object_io_failed"))
    BY <1>3 DEF PlanForget, Load
  <1>5. forgotten \subseteq visible
    BY DEF PlanForgotten
  <1>6. CASE forgotten = {} /\ Become(p, none)
    <2>1. /\ SameCall(u, none) /\ none.pc = "print" /\ none.listed = visible
          /\ none.error = "forget_no_snapshots_matched" /\ none.warned = FALSE /\ none.did = {}
          /\ none.selected = {} /\ none.chosen = {} /\ none.todo = {}
      BY <1>2 DEF SameCall, Listed, Shape, Fields, Failed
    <2>2. PlanForgotten(u.policy, visible) = {} /\ none.policy = u.policy
      BY <1>6, <2>1 DEF SameCall
    <2> HIDE DEF none, visible
    <2>3. CommandOK(none)
      BY <1>1, <2>1 DEF CommandOK, SameCall
    <2>4. AchievedOK(none, repos)
      BY <2>1 DEF AchievedOK
    <2>5. ForgetOK(none, repos)
      BY <2>1, <2>2 DEF ForgetOK
    <2>6. QED
      BY <1>1, <1>6, <2>1, <2>3, <2>4, <2>5, LoadKeeps DEF visible
  <1>7. CASE forgotten # {} /\ Become(p, v)
    <2> DEFINE pc == IF u.inv.dry_run THEN "print" ELSE "time"
    <2>1. /\ SameCall(u, v) /\ v.pc = pc
          /\ v.listed = visible /\ v.error = "" /\ v.warned = FALSE /\ v.did = {}
          /\ v.selected = {} /\ v.chosen = forgotten /\ v.todo = forgotten
      <3> HIDE DEF forgotten, visible
      <3>1. QED
        BY <1>2, <1>3 DEF SameCall, Listed, Shape, Fields
    <2>2. v.inv = u.inv /\ v.policy = u.policy /\ v.place = u.place
      BY <2>1 DEF SameCall
    <2> HIDE DEF v, visible
    <2>3. CommandOK(v)
      BY <1>1, <2>1, <2>2 DEF CommandOK
    <2>4. AchievedOK(v, repos)
      BY <1>1, <1>2, <2>1, <2>2 DEF AchievedOK, AchievedBy, Told
    <2>5. ForgetOK(v, repos)
      BY <1>1, <1>5, <1>7, <2>1, <2>2 DEF ForgetOK
    <2>6. QED
      BY <1>1, <1>7, <2>1, <2>3, <2>4, <2>5, LoadKeeps DEF visible
  <1>8. CASE Become(p, Failed(u, "storage_object_io_failed"))
    BY <1>1, <1>8, LoadFails
  <1>9. QED
    BY <1>4, <1>6, <1>7, <1>8

(* restore_snapshot_to_destination *)
LEMMA RestoreFilesKeeps ==
    ASSUME Inv, NEW p \in Procs, RestoreFiles(p) PROVE Inv'
  <1> DEFINE u == proc[p]
  <1>1. u.pc = "restore" /\ u.pc \in Running /\ UNCHANGED <<repos, given>>
    BY DEF RestoreFiles, At, Running
  <1>2. /\ StateOK(u, repos) /\ Shape(u) /\ u.inv.command = "restore" /\ u.did = {}
        /\ CommandOK(u) /\ ForgetOK(u, repos) /\ ListedOK(u, repos) /\ PlaceOK(u, repos)
        /\ u.error = ""
    BY <1>1, RunningKnows DEF CommandOK, DidOK
  <1>3. ASSUME NEW warned \in BOOLEAN,
               Become(p, [u EXCEPT !.pc = "print", !.warned = warned])
        PROVE  Inv'
    <2> DEFINE v == [u EXCEPT !.pc = "print", !.warned = warned]
    <2>1. /\ SameCall(u, v) /\ SameFound(u, v)
          /\ v.pc = "print" /\ v.error = u.error /\ v.warned = warned /\ v.did = u.did
      BY <1>2 DEF SameCall, SameFound, Shape, Fields
    <2>2. Become(p, v)
      BY <1>3
    <2> HIDE DEF v, u
    <2>3. CommandOK(v)
      BY <1>2, <2>1 DEF CommandOK, SameCall, Running
    <2>4. AchievedOK(v, repos)
      BY <1>2, <2>1, ReadersAchieve DEF AchievedOK, SameCall
    <2>5. ForgetOK(v, repos)
      BY <1>2, <2>1 DEF ForgetOK, SameCall, SameFound
    <2>6. ListedOK(v, repos)
      <3>1. HasListed(u)
        BY <1>1 DEF HasListed
      <3>2. QED
        BY <1>2, <2>1, <3>1 DEF ListedOK, SameCall, SameFound
    <2>7. PlaceOK(v, repos)
      BY <1>2, <2>1 DEF PlaceOK, SameCall, SameFound
    <2>8. StateOK(v, repos)
      BY <1>1, <1>2, <2>1, <2>3, <2>4, <2>5, <2>6, <2>7, MoveKeeps DEF Running
    <2>9. QED
      BY <1>1, <2>2, <2>8, QuietStep
  <1>4. CASE \E error \in {"restore_destination_exists", "snapshot_path_not_found",
                           "restore_destination_write_failed"} : Become(p, Failed(u, error))
    BY <1>1, <1>2, <1>4, FailStep
  <1>5. QED
    BY <1>3, <1>4 DEF RestoreFiles

(* A non-empty set of snapshots has one with the least id. *)
LEMMA LeastIdExists ==
    ASSUME NEW S, S # {}, \A s \in S : s.id \in Nat
    PROVE  LET s == CHOOSE s \in S : \A t \in S : s.id <= t.id IN s \in S
  <1> DEFINE ids == {s.id : s \in S}
  <1>1. ids \subseteq Nat /\ ids # {}
    OBVIOUS
  <1>2. PICK k \in ids : \A j \in ids : <<j, k>> \notin OpToRel(<, Nat)
    <2> HIDE DEF ids
    <2>1. QED
      BY <1>1, NatLessThanWellFounded, WFMin
  <1>3. \A j \in ids : ~(j < k)
    BY <1>1, <1>2 DEF OpToRel
  <1>4. PICK s \in S : k = s.id
    OBVIOUS
  <1>5. \A t \in S : s.id <= t.id
    BY <1>3, <1>4
  <1>6. QED
    BY <1>5

(* There is a marker to write. *)
LEMMA MarksOneLeft ==
    ASSUME Inv, NEW p \in Procs, Mark(p)
    PROVE  LET s == CHOOSE s \in proc[p].todo : \A t \in proc[p].todo : s.id <= t.id IN
           s \in proc[p].todo
  <1>1. proc[p].pc = "mark" /\ proc[p].pc \in Running
    BY DEF Mark, At, Running
  <1>2. /\ IsRepository(repos[proc[p].place])
        /\ ForgetOK(proc[p], repos) /\ ListedOK(proc[p], repos)
    BY <1>1, RunningKnows
  <1>3. proc[p].todo # {}
    BY <1>1, <1>2 DEF ForgetOK
  <1>4. \A t \in proc[p].todo : t.id \in Nat
    BY <1>2, CliAssumption DEF ForgetOK, ListedOK, IsRepository
  <1>5. QED
    BY <1>3, <1>4, LeastIdExists

(* The state after a marker: v has s no longer to do, and s is forgotten. *)
LEMMA MarkedKeeps ==
    ASSUME NEW u, NEW R, StateOK(u, R), u.pc = "mark", u.place # "", NEW s \in u.todo,
           s.id \in R[u.place].forgotten,
           NEW v, SameCall(u, v), v.todo = u.todo \ {s},
           v.pc = IF v.todo = {} THEN "print" ELSE "mark",
           v.error = u.error, v.warned = u.warned,
           v.listed = u.listed, v.selected = u.selected, v.chosen = u.chosen
    PROVE  /\ StateOK(v, R)
           /\ v.pc \in Running \cup {"print"} /\ v.error = "" /\ ~v.warned
  <1>1. /\ CommandOK(u) /\ ForgetOK(u, R) /\ ListedOK(u, R) /\ PlaceOK(u, R)
        /\ PreparedOK(u)
    BY DEF StateOK
  <1>2. u.error = "" /\ ~u.warned /\ u.inv.command = "forget" /\ ~u.inv.dry_run
    BY <1>1 DEF CommandOK, PreparedOK, Running
  <1>3. v.inv = u.inv /\ v.place = u.place /\ v.policy = u.policy /\ v.began = u.began
    BY DEF SameCall
  <1>4. CommandOK(v)
    BY <1>1, <1>2, <1>3 DEF CommandOK
  <1>5. /\ v.todo \subseteq v.chosen /\ v.chosen \subseteq v.listed
        /\ \A t \in v.chosen \ v.todo : t.id \in R[v.place].forgotten
        /\ v.chosen = PlanForgotten(v.policy, v.listed)
    BY <1>1, <1>3 DEF ForgetOK
  <1>6. AchievedOK(v, R)
    BY <1>2, <1>3, <1>5 DEF AchievedOK, AchievedBy, Told
  <1>7. ForgetOK(v, R)
    BY <1>2, <1>5 DEF ForgetOK
  <1>8. ListedOK(v, R)
    <2>1. HasListed(u)
      BY DEF HasListed
    <2>2. QED
      BY <1>1, <1>2, <1>3, <2>1 DEF ListedOK
  <1>9. PlaceOK(v, R)
    BY <1>1, <1>3 DEF PlaceOK
  <1>10. StateOK(v, R)
    BY <1>2, <1>4, <1>6, <1>7, <1>8, <1>9, MoveKeeps DEF Running
  <1>11. QED
    BY <1>2, <1>10 DEF Running

(* write_snapshot_forget_markers: one marker. *)
LEMMA MarkKeeps ==
    ASSUME Inv, NEW p \in Procs, Mark(p) PROVE Inv'
  <1> DEFINE u == proc[p]
             s == CHOOSE s \in u.todo : \A t \in u.todo : s.id <= t.id
             rest == u.todo \ {s}
             state == [u EXCEPT !.todo = rest, !.pc = IF rest = {} THEN "print" ELSE "mark"]
             repo == [Repo(p) EXCEPT !.forgotten = @ \cup {s.id}]
             done == [state EXCEPT !.did = @ \cup {s}]
  <1>1. u.pc = "mark" /\ u.pc \in Running
    BY DEF Mark, At, Running
  <1>2. /\ StateOK(u, repos) /\ Shape(u)
        /\ u.place \in DOMAIN repos /\ u.place # "" /\ IsRepository(Repo(p))
    BY <1>1, RunningKnows DEF Repo
  <1>3. \/ s.id \notin Repo(p).forgotten /\ Write(p, repo, done)
        \/ /\ s.id \in Repo(p).forgotten /\ UNCHANGED <<repos, given>>
           /\ \/ Become(p, state)
              \/ \E error \in {"storage_object_already_exists"} : Become(p, Failed(u, error))
    BY DEF Mark, Fail
  <1>4. s \in u.todo
    BY MarksOneLeft
  <1> HIDE DEF s
  <1>5. /\ SameCall(u, state) /\ SameCall(u, done)
        /\ \A v \in {state, done} :
              /\ v.todo = rest /\ v.pc = (IF rest = {} THEN "print" ELSE "mark")
              /\ v.error = u.error /\ v.warned = u.warned
              /\ v.listed = u.listed /\ v.selected = u.selected /\ v.chosen = u.chosen
    <2> HIDE DEF rest
    <2>1. QED
      BY <1>2 DEF SameCall, Shape, Fields
  <1>6. CASE s.id \notin Repo(p).forgotten /\ Write(p, repo, done)
    <2>1. Extends(repo, Repo(p)) /\ s.id \in repo.forgotten
      <3>1. repo = [slots |-> Repo(p).slots, snapshots |-> Repo(p).snapshots,
                    forgotten |-> Repo(p).forgotten \cup {s.id}]
        BY <1>2, RepoUpdated, Zenon
      <3> HIDE DEF repo
      <3>2. /\ repo = [slots |-> repo.slots, snapshots |-> repo.snapshots,
                        forgotten |-> repo.forgotten]
            /\ repo.slots = Repo(p).slots /\ repo.snapshots = Repo(p).snapshots
            /\ repo.forgotten = Repo(p).forgotten \cup {s.id}
        BY <3>1
      <3>3. QED
        BY <1>2, <3>2, RepoExtended
    <2> HIDE DEF repo, done, state
    <2>2. StateOK(u, With(p, repo)) /\ With(p, repo)[u.place] = repo
      BY <1>1, <1>2, <2>1, WithGrows, StateOKGrows DEF Repo
    <2>3. /\ StateOK(done, With(p, repo))
          /\ done.pc \in Running \cup {"print"} /\ done.error = "" /\ ~done.warned
      <3>1. /\ SameCall(u, done) /\ done.todo = u.todo \ {s}
            /\ done.pc = (IF done.todo = {} THEN "print" ELSE "mark")
            /\ done.error = u.error /\ done.warned = u.warned
            /\ done.listed = u.listed /\ done.selected = u.selected /\ done.chosen = u.chosen
        BY <1>5
      <3>2. s.id \in With(p, repo)[u.place].forgotten
        BY <2>1, <2>2
      <3> DEFINE Q == With(p, repo)
      <3>3. u.pc = "mark" /\ u.place # "" /\ StateOK(u, Q) /\ s.id \in Q[u.place].forgotten
        BY <1>1, <1>2, <2>2, <3>2
      <3> HIDE DEF Q, u, rest
      <3>4. StateOK(done, Q) /\ done.pc \in Running \cup {"print"} /\ done.error = "" /\ ~done.warned
        BY <1>4, <3>1, <3>3, MarkedKeeps
      <3>5. QED
        BY <3>4 DEF Q
    <2>4. QED
      BY <1>1, <1>6, <2>1, <2>3, WriteKeeps DEF Repo
  <1>7. CASE s.id \in Repo(p).forgotten /\ UNCHANGED <<repos, given>> /\ Become(p, state)
    <2> HIDE DEF done, state
    <2>1. StateOK(state, repos)
      BY <1>1, <1>2, <1>4, <1>5, <1>7, MarkedKeeps DEF Repo
    <2>2. QED
      BY <1>7, <2>1, QuietStep
  <1>8. CASE /\ UNCHANGED <<repos, given>>
             /\ \E error \in {"storage_object_already_exists"} : Become(p, Failed(u, error))
    BY <1>1, <1>8, FailStep DEF LateErrors
  <1>9. QED
    BY <1>3, <1>6, <1>7, <1>8

(* The process is killed. *)
LEMMA KillKeeps ==
    ASSUME Inv, NEW p \in Procs, Kill(p) PROVE Inv'
  <1> DEFINE u == proc[p]
             v == [u EXCEPT !.pc = "ended", !.exit = Killed]
  <1>1. /\ u.pc \notin {"idle", "ended"} /\ StateOK(u, repos) /\ Become(p, v)
        /\ UNCHANGED <<repos, given>>
    BY DEF Kill, Inv
  <1>2. /\ PreparedOK(u) /\ CommandOK(u) /\ DidOK(u) /\ OutOK(u) /\ Shape(u)
        /\ AchievedOK(u, repos) /\ ForgetOK(u, repos) /\ ListedOK(u, repos) /\ PlaceOK(u, repos)
    BY <1>1 DEF StateOK
  <1>3. /\ Shape(v) /\ SameFound(u, v)
        /\ v.inv = u.inv /\ v.place = u.place /\ v.pass = u.pass /\ v.new = u.new
        /\ v.policy = u.policy /\ v.began = u.began /\ v.out = u.out
        /\ v.pc = "ended" /\ v.error = u.error /\ v.warned = u.warned /\ v.did = u.did
        /\ v.exit = Killed
    BY <1>2 DEF SameFound, Shape, Fields
  <1> HIDE DEF v, u
  <1>4. ~Told(v)
    BY <1>3 DEF Told
  <1>5. PreparedOK(v)
    BY <1>1, <1>2, <1>3 DEF PreparedOK, Running
  <1>6. CommandOK(v)
    BY <1>2, <1>3 DEF CommandOK, Running
  <1>7. DidOK(v)
    BY <1>2, <1>3 DEF DidOK, Running
  <1>8. OutOK(v)
    <2>1. {u.out[k] : k \in DOMAIN u.out} = {}
      BY <1>1, <1>2 DEF OutOK
    <2>2. {v.out[k] : k \in DOMAIN v.out} = {}
      BY <1>3, <2>1
    <2>3. QED
      BY <1>3, <2>2 DEF OutOK
  <1>9. AchievedOK(v, repos)
    BY <1>3, <1>4 DEF AchievedOK
  <1>10. ForgetOK(v, repos)
    BY <1>2, <1>3, <1>4 DEF ForgetOK, SameFound
  <1>11. ListedOK(v, repos)
    <2>1. HasListed(v) => HasListed(u)
      BY <1>3, <1>4 DEF HasListed, SameFound
    <2>2. QED
      BY <1>2, <1>3, <2>1 DEF ListedOK, SameFound
  <1>12. PlaceOK(v, repos)
    BY <1>2, <1>3 DEF PlaceOK, SameFound
  <1>13. StateOK(v, repos)
    BY <1>3, <1>5, <1>6, <1>7, <1>8, <1>9, <1>10, <1>11, <1>12 DEF StateOK
  <1>14. QED
    BY <1>1, <1>13, QuietStep DEF u

LEMMA NothingPrinted == DOMAIN <<>> = {}
  <1>1. <<>> \in Seq({}) /\ Len(<<>>) = 0
    OBVIOUS
  <1>2. \A s \in Seq({}) : DOMAIN s = 1..Len(s)
    OBVIOUS
  <1>3. DOMAIN <<>> = 1..0
    BY <1>1, <1>2
  <1>4. QED
    BY <1>3

(* main, run: a command begins, and may fail before it opens the repository. *)
Begins(v, i, R) ==
    LET ready == Prepare(i) IN
    /\ Shape(v) /\ v.inv = i /\ v.place = ready.place /\ v.pass = ready.pass
    /\ v.new = ready.new /\ v.policy = ready.policy /\ v.warned = FALSE /\ v.listed = {}
    /\ v.selected = {} /\ v.chosen = {} /\ v.todo = {} /\ v.did = {} /\ v.out = <<>>
    /\ v.began = IF ready.place = "" THEN {} ELSE Visible(R[ready.place])
    /\ ready.error # "" => v.error = ready.error
    /\ \/ /\ v.error = ""
          /\ v.pc = IF i.command = "version" THEN "print" ELSE "open"
       \/ /\ v.error # "" /\ v.pc = "print"
          /\ v.error \notin {"snapshot_not_found", "snapshot_path_not_found",
                             "forget_no_snapshots_matched"}

LEMMA BeginsWell ==
    ASSUME NEW i \in Invocations, NEW R, ReposOK(R), NEW v, Begins(v, i, R)
    PROVE  StateOK(v, R)
  <1> DEFINE ready == Prepare(i)
  <1>1. PreparedOK(v)
    BY DEF PreparedOK, Running, Begins
  <1>2. CommandOK(v)
    BY DEF CommandOK, Begins
  <1>3. DidOK(v)
    BY DEF DidOK, Begins
  <1>4. OutOK(v)
    <2>1. DOMAIN v.out = {}
      BY NothingPrinted DEF Begins
    <2>2. QED
      BY <2>1 DEF OutOK, Begins
  <1>5. AchievedOK(v, R)
    BY ReadersAchieve DEF AchievedOK, Told, Begins
  <1>6. ForgetOK(v, R)
    BY DEF ForgetOK, Told, Begins
  <1>7. PlaceOK(v, R)
    <2>1. CASE ready.place = ""
      BY <2>1 DEF PlaceOK, Begins
    <2>2. CASE ready.place # ""
      <3>1. ready.error = "" /\ i.command # "version"
        BY <2>2, PrepareTells
      <3>2. QED
        BY <3>1, PrepareNames DEF PlaceOK, Begins
    <2>3. QED
      BY <2>1, <2>2
  <1>8. ListedOK(v, R)
    BY DEF ListedOK, HasListed, Told, Visible, Begins
  <1>9. QED
    BY <1>1, <1>2, <1>3, <1>4, <1>5, <1>6, <1>7, <1>8 DEF StateOK, Begins

LEMMA StartKeeps ==
    ASSUME Inv, NEW p \in Procs, NEW i \in Invocations, Start(p, i, Prepare(i)) PROVE Inv'
  <1> DEFINE ready == Prepare(i)
             pc == IF i.command = "version" THEN "print" ELSE "open"
             began == IF ready.place = "" THEN {} ELSE Visible(repos[ready.place])
             state == [Fresh EXCEPT !.pc = pc, !.inv = i, !.place = ready.place,
                          !.pass = ready.pass, !.new = ready.new, !.policy = ready.policy,
                          !.began = began]
  <1>1. /\ UNCHANGED <<repos, given>>
        /\ \/ ready.error # "" /\ Become(p, Failed(state, ready.error))
           \/ ready.error = "" /\ Become(p, state)
           \/ /\ ready.error = ""
              /\ \E error \in {"repository_runtime_failed", "system_clock_invalid"} :
                    Become(p, Failed(state, error))
    BY DEF Start
  <1>2. ready.error \in EarlyErrors \cup {""}
    BY PrepareTells
  <1>3. ReposOK(repos)
    BY DEF Inv
  <1> HIDE DEF ready, pc, began
  <1>4. /\ Shape(state) /\ state.pc = pc /\ state.inv = i /\ state.place = ready.place
        /\ state.pass = ready.pass /\ state.new = ready.new /\ state.policy = ready.policy
        /\ state.warned = FALSE /\ state.listed = {} /\ state.selected = {}
        /\ state.chosen = {} /\ state.todo = {} /\ state.did = {} /\ state.out = <<>>
        /\ state.began = began /\ state.error = ""
    BY FreshState DEF Shape, Fields
  <1> HIDE DEF state
  <1>5. ASSUME ready.error = "" PROVE StateOK(state, repos)
    <2>1. Begins(state, i, repos)
      BY <1>4, <1>5 DEF Begins, ready, pc, began
    <2>2. QED
      BY <1>3, <2>1, BeginsWell
  <1>6. ASSUME NEW error, error # "",
               error \notin {"snapshot_not_found", "snapshot_path_not_found",
                             "forget_no_snapshots_matched"},
               ready.error # "" => error = ready.error
        PROVE  StateOK(Failed(state, error), repos)
    <2> DEFINE v == Failed(state, error)
    <2>1. /\ SameCall(state, v) /\ SameFound(state, v)
          /\ v.pc = "print" /\ v.error = error /\ v.warned = state.warned /\ v.did = state.did
      BY <1>4, FailedState
    <2> HIDE DEF v
    <2>2. QED
      <3>1. /\ Shape(v) /\ v.inv = i /\ v.place = ready.place
            /\ v.pass = ready.pass /\ v.new = ready.new /\ v.policy = ready.policy
            /\ v.warned = FALSE /\ v.listed = {} /\ v.selected = {}
            /\ v.chosen = {} /\ v.todo = {} /\ v.did = {} /\ v.out = <<>>
            /\ v.began = began /\ v.error = error /\ v.pc = "print"
        BY <1>4, <2>1 DEF SameCall, SameFound
      <3>2. Begins(v, i, repos)
        BY <1>6, <3>1 DEF Begins, began, ready
      <3>3. QED
        BY <1>3, <3>2, BeginsWell DEF v
  <1>7. CASE ready.error # "" /\ Become(p, Failed(state, ready.error))
    <2>1. ready.error \notin {"snapshot_not_found", "snapshot_path_not_found",
                              "forget_no_snapshots_matched"}
      BY <1>2 DEF EarlyErrors, ConfigErrors, PolicyErrors, RepositoryErrors
    <2>2. StateOK(Failed(state, ready.error), repos)
      BY <1>6, <1>7, <2>1
    <2>3. QED
      BY <1>1, <1>7, <2>2, QuietStep
  <1>8. CASE ready.error = "" /\ Become(p, state)
    BY <1>1, <1>5, <1>8, QuietStep
  <1>9. CASE /\ ready.error = ""
             /\ \E error \in {"repository_runtime_failed", "system_clock_invalid"} :
                   Become(p, Failed(state, error))
    <2>1. PICK error \in {"repository_runtime_failed", "system_clock_invalid"} :
              Become(p, Failed(state, error))
      BY <1>9
    <2>2. StateOK(Failed(state, error), repos)
      BY <1>6, <1>9
    <2>3. QED
      BY <1>1, <2>1, <2>2, QuietStep
  <1>10. QED
    BY <1>1, <1>7, <1>8, <1>9

-----------------------------------------------------------------------------
(* What is printed *)

Parts(s) == {s[k] : k \in DOMAIN s}

Words == Successes \cup Failures \cup
         {"warning", "command_started", "walk_sources", "plan_chunks", "write_chunks",
          "write_index", "write_manifest", "complete", "load_manifest", "read_chunks",
          "write_entries", "apply_metadata", "verify", "load_commits", "verify_metadata",
          "verify_indexes", "read_data", "load_snapshots", "evaluate_policy"}

(* What is joined has the words of both. *)
LEMMA PartsOfJoin ==
    ASSUME NEW s \in Seq(Words), NEW t \in Seq(Words)
    PROVE  s \o t \in Seq(Words) /\ Parts(s \o t) = Parts(s) \cup Parts(t)
  <1>1. /\ s \o t \in Seq(Words)
        /\ DOMAIN s = 1..Len(s) /\ DOMAIN t = 1..Len(t)
        /\ DOMAIN (s \o t) = 1..Len(s) + Len(t)
        /\ Len(s) \in Nat /\ Len(t) \in Nat
    OBVIOUS
  <1>2. \A k \in 1..Len(s) : (s \o t)[k] = s[k]
    OBVIOUS
  <1>3. \A k \in 1..Len(t) : (s \o t)[Len(s) + k] = t[k]
    OBVIOUS
  <1>4. \A k \in 1..Len(s) + Len(t) :
           k \in 1..Len(s) \/ (k - Len(s) \in 1..Len(t) /\ k = Len(s) + (k - Len(s)))
    BY <1>1
  <1>5. \A k \in 1..Len(t) : Len(s) + k \in 1..Len(s) + Len(t)
    BY <1>1
  <1>6. \A k \in 1..Len(s) : k \in 1..Len(s) + Len(t)
    BY <1>1
  <1>7. ASSUME NEW x \in Parts(s \o t) PROVE x \in Parts(s) \cup Parts(t)
    <2>1. PICK k \in 1..Len(s) + Len(t) : x = (s \o t)[k]
      BY <1>1 DEF Parts
    <2>2. CASE k \in 1..Len(s)
      BY <1>1, <1>2, <2>1, <2>2 DEF Parts
    <2>3. CASE k - Len(s) \in 1..Len(t) /\ k = Len(s) + (k - Len(s))
      <3>1. x = t[k - Len(s)]
        BY <1>3, <2>1, <2>3
      <3>2. QED
        BY <1>1, <2>3, <3>1 DEF Parts
    <2>4. QED
      BY <1>4, <2>2, <2>3
  <1>8. Parts(s) \subseteq Parts(s \o t)
    BY <1>1, <1>2, <1>6 DEF Parts
  <1>9. Parts(t) \subseteq Parts(s \o t)
    BY <1>1, <1>3, <1>5 DEF Parts
  <1>10. QED
    BY <1>1, <1>7, <1>8, <1>9

(* What is cut has no other words. *)
LEMMA PartsOfCut ==
    ASSUME NEW s \in Seq(Words), NEW n \in 0..(Len(s) - 1)
    PROVE  Parts(SubSeq(s, 1, n)) \subseteq Parts(s)
  BY DEF Parts

LEMMA PartsOfOne ==
    ASSUME NEW x \in Words
    PROVE  <<x>> \in Seq(Words) /\ Parts(<<x>>) = {x}
  <1>1. <<x>> \in Seq(Words)
    OBVIOUS
  <1>2. Parts(<<x>>) = {x}
    BY DEF Parts
  <1>3. QED
    BY <1>1, <1>2

(* The events of the phases: none of them is that of the end, and only a
   restore warns. *)
LEMMA PhasesSay ==
    ASSUME NEW p, proc[p].warned \in BOOLEAN,
           proc[p].warned => proc[p].inv.command = "restore"
    PROVE  /\ Phases(p) \in Seq(Words)
           /\ Parts(Phases(p)) \cap (Failures \cup {"command_completed"}) = {}
           /\ "warning" \in Parts(Phases(p)) <=> proc[p].warned
  <1> DEFINE Quiet(s) == /\ s \in Seq(Words)
                         /\ Parts(s) \cap (Failures \cup {"command_completed", "warning"}) = {}
  <1>1. Quiet(BackupPhases)
    <2>1. BackupPhases \in Seq(Words)
      BY DEF BackupPhases, Words, Successes
    <2>2. Parts(BackupPhases) \cap (Failures \cup {"command_completed", "warning"}) = {}
      BY DEF BackupPhases, Parts, Failures
    <2>3. QED
      BY <2>1, <2>2
  <1>2. Quiet(CheckPhases)
    <2>1. CheckPhases \in Seq(Words)
      BY DEF CheckPhases, Words
    <2>2. Parts(CheckPhases) \cap (Failures \cup {"command_completed", "warning"}) = {}
      BY DEF CheckPhases, Parts, Failures
    <2>3. QED
      BY <2>1, <2>2
  <1>3. Quiet(ForgetPhases)
    <2>1. ForgetPhases \in Seq(Words)
      BY DEF ForgetPhases, Words, Successes
    <2>2. Parts(ForgetPhases) \cap (Failures \cup {"command_completed", "warning"}) = {}
      BY DEF ForgetPhases, Parts, Failures
    <2>3. QED
      BY <2>1, <2>2
  <1>4. Quiet(<<>>) /\ Parts(<<>>) = {}
    BY NothingPrinted DEF Parts
  <1>5. /\ RestorePhases(proc[p].warned) \in Seq(Words)
        /\ Parts(RestorePhases(proc[p].warned)) \cap (Failures \cup {"command_completed"}) = {}
        /\ "warning" \in Parts(RestorePhases(proc[p].warned)) <=> proc[p].warned
    <2> DEFINE done == <<"load_manifest", "read_chunks", "write_entries", "apply_metadata",
                         "verify", "complete">>
               end == IF proc[p].warned THEN <<"warning">> ELSE <<>>
    <2>1. done \in Seq(Words)
      BY DEF Words
    <2>2. Parts(done) \cap (Failures \cup {"command_completed", "warning"}) = {}
      BY DEF Parts, Failures
    <2>3. /\ end \in Seq(Words)
          /\ Parts(end) = IF proc[p].warned THEN {"warning"} ELSE {}
      <3>1. "warning" \in Words
        BY DEF Words
      <3>2. QED
        BY <1>4, <3>1, PartsOfOne
    <2>4. RestorePhases(proc[p].warned) = done \o end
      BY DEF RestorePhases
    <2> HIDE DEF done, end
    <2>5. done \o end \in Seq(Words) /\ Parts(done \o end) = Parts(done) \cup Parts(end)
      BY <2>1, <2>3, PartsOfJoin
    <2>6. QED
      BY <2>2, <2>3, <2>4, <2>5 DEF Failures
  <1>6. proc[p].inv.command # "restore" => Quiet(Phases(p))
    <2> HIDE DEF Quiet
    <2>1. QED
      BY <1>1, <1>2, <1>3, <1>4 DEF Phases
  <1>7. proc[p].inv.command = "restore" => Phases(p) = RestorePhases(proc[p].warned)
    BY DEF Phases
  <1>8. QED
    BY <1>5, <1>6, <1>7

(* What is printed tells how the command of u ended. *)
Fits(u, out) ==
    /\ out \in Seq(Words)
    /\ u.error # "" => Parts(out) \cap (Successes \cup {"warning"}) = {}
    /\ u.error = "" => Parts(out) \cap Failures = {}
    /\ u.inv.mode = "jsonl" =>
          /\ u.error = "" <=> "command_completed" \in Parts(out)
          /\ u.error = "" /\ u.warned <=> "warning" \in Parts(out)

(* emit_command, render_error_output *)
LEMMA StdoutSays ==
    ASSUME NEW p, proc[p].inv.mode \in {"human", "json", "jsonl"},
           proc[p].warned \in BOOLEAN, proc[p].warned => proc[p].inv.command = "restore"
    PROVE  Fits(proc[p], Stdout(p))
  <1> DEFINE mode == proc[p].inv.mode
             start == <<"command_started">>
             end == <<"command_completed">>
             phases == Phases(p)
  <1>1. {"text", "success", "failure", "command_started", "command_completed",
         "command_failed"} \subseteq Words
    BY DEF Words, Successes, Failures
  <1>2. /\ phases \in Seq(Words)
        /\ Parts(phases) \cap (Failures \cup {"command_completed"}) = {}
        /\ "warning" \in Parts(phases) <=> proc[p].warned
    BY PhasesSay
  <1>3. CASE proc[p].error # ""
    <2>1. Stdout(p) = RenderError(mode, phases)
      BY <1>3 DEF Stdout
    <2>2. CASE mode = "human"
      <3>1. Stdout(p) = <<>>
        BY <2>1, <2>2 DEF RenderError
      <3>2. Parts(<<>>) = {} /\ <<>> \in Seq(Words)
        BY NothingPrinted DEF Parts
      <3>3. QED
        BY <1>3, <2>2, <3>1, <3>2 DEF Fits
    <2>3. CASE mode = "json"
      <3>1. Stdout(p) = <<"failure">>
        BY <2>1, <2>3 DEF RenderError
      <3>2. Parts(<<"failure">>) = {"failure"} /\ <<"failure">> \in Seq(Words)
        BY <1>1, PartsOfOne
      <3>3. QED
        BY <1>3, <2>3, <3>1, <3>2 DEF Successes, Fits
    <2>4. CASE mode = "jsonl"
      <3>1. Stdout(p) = <<"command_started", "command_failed">>
        BY <2>1, <2>4 DEF RenderError
      <3>2. <<"command_started", "command_failed">> \in Seq(Words)
        BY DEF Words, Failures
      <3>3. Parts(<<"command_started", "command_failed">>) = {"command_started", "command_failed"}
        BY DEF Parts
      <3>4. Parts(Stdout(p)) = {"command_started", "command_failed"} /\ Stdout(p) \in Seq(Words)
        BY <3>1, <3>2, <3>3
      <3>5. Parts(Stdout(p)) \cap (Successes \cup {"warning"}) = {}
        BY <3>4 DEF Successes
      <3>6. "command_completed" \in Successes
        BY DEF Successes
      <3>7. QED
        BY <1>3, <3>4, <3>5, <3>6 DEF Fits
    <2>5. QED
      BY <2>2, <2>3, <2>4
  <1>4. CASE proc[p].error = ""
    <2>1. Stdout(p) = Emit(mode, phases)
      BY <1>4 DEF Stdout
    <2>2. CASE mode = "human"
      <3>1. Stdout(p) = <<"text">>
        BY <2>1, <2>2 DEF Emit
      <3>2. Parts(<<"text">>) = {"text"} /\ <<"text">> \in Seq(Words)
        BY <1>1, PartsOfOne
      <3>3. QED
        BY <1>4, <2>2, <3>1, <3>2 DEF Failures, Fits
    <2>3. CASE mode = "json"
      <3>1. Stdout(p) = <<"success">>
        BY <2>1, <2>3 DEF Emit
      <3>2. Parts(<<"success">>) = {"success"} /\ <<"success">> \in Seq(Words)
        BY <1>1, PartsOfOne
      <3>3. QED
        BY <1>4, <2>3, <3>1, <3>2 DEF Failures, Fits
    <2>4. CASE mode = "jsonl"
      <3>1. Stdout(p) = start \o phases \o end
        BY <2>1, <2>4 DEF Emit
      <3>2. /\ start \in Seq(Words) /\ Parts(start) = {"command_started"}
            /\ end \in Seq(Words) /\ Parts(end) = {"command_completed"}
        BY <1>1, PartsOfOne
      <3> HIDE DEF start, end, phases
      <3>3. start \o phases \in Seq(Words) /\ Parts(start \o phases) = Parts(start) \cup Parts(phases)
        BY <1>2, <3>2, PartsOfJoin
      <3>4. /\ start \o phases \o end \in Seq(Words)
            /\ Parts(start \o phases \o end) = Parts(start \o phases) \cup Parts(end)
        BY <3>2, <3>3, PartsOfJoin
      <3>5. /\ Stdout(p) \in Seq(Words)
            /\ Parts(Stdout(p)) = {"command_started", "command_completed"} \cup Parts(phases)
        BY <3>1, <3>2, <3>3, <3>4
      <3>6. QED
        BY <1>2, <1>4, <2>4, <3>5 DEF Failures, Fits
    <2>5. QED
      BY <2>2, <2>3, <2>4
  <1>5. QED
    BY <1>3, <1>4

(* CliError::exit_code: no failure ends with 0, 10 or the code of a kill. *)
LEMMA ExitCodes ==
    ASSUME NEW error
    PROVE  ExitCode(error) \in {1, 2, 3, 4, 5, 6, 7, 9}
  BY DEF ExitCode

LEMMA CodesFor ==
    ASSUME NEW u
    PROVE  /\ CodeFor(u) \notin {Killed, Panicked}
           /\ CodeFor(u) \in {0, 10} <=> u.error = ""
  <1>1. CASE u.error # ""
    <2>1. CodeFor(u) = ExitCode(u.error)
      BY <1>1 DEF CodeFor
    <2>2. ExitCode(u.error) \in {1, 2, 3, 4, 5, 6, 7, 9}
      BY ExitCodes
    <2>3. CodeFor(u) \notin {0, 10, 101, 137}
      BY <2>1, <2>2
    <2>4. QED
      BY <1>1, <2>3 DEF Killed, Panicked
  <1>2. CASE u.error = ""
    <2>1. CodeFor(u) \in {0, 10}
      BY <1>2 DEF CodeFor
    <2>2. CodeFor(u) \notin {Killed, Panicked}
      BY <2>1 DEF Killed, Panicked
    <2>3. QED
      BY <1>2, <2>1, <2>2
  <1>3. QED
    BY <1>1, <1>2

(* A passphrase that is given again. *)
LEMMA GivenAgain ==
    ASSUME NEW g
    PROVE  /\ g.kind = "password" => Again(g) = g.text
           /\ g.kind = "file" => Again(g) = TrimEnd(g.text)
  <1> DEFINE env == [password |-> IF g.kind = "password" THEN Some(g.text) ELSE None,
                     password_file |-> Some("again")]
             secrets == [path \in {"again"} |-> Some(g.text)]
  <1>1. Again(g) = Passphrase(env, secrets).text
    BY DEF Again
  <1>2. \A x : Some(x) # None /\ Some(x)[1] = x
    BY DEF Some, None
  <1>3. /\ env.password = IF g.kind = "password" THEN Some(g.text) ELSE None
        /\ env.password_file = Some("again")
        /\ secrets["again"] = Some(g.text)
    OBVIOUS
  <1> HIDE DEF env, secrets
  <1>4. ASSUME g.kind = "password" PROVE Passphrase(env, secrets).text = g.text
    BY <1>2, <1>3, <1>4 DEF Passphrase
  <1>5. ASSUME g.kind = "file" PROVE Passphrase(env, secrets).text = TrimEnd(g.text)
    <2>1. /\ env.password = None /\ env.password_file # None
          /\ env.password_file[1] = "again" /\ secrets["again"] # None
          /\ secrets["again"][1] = g.text
      BY <1>2, <1>3, <1>5
    <2>2. QED
      BY <2>1 DEF Passphrase
  <1>6. QED
    BY <1>1, <1>4, <1>5

(* repository_passphrase and read_new_password_file trim alike, so that what
   init and key add tell to be a passphrase is one when it is given again. *)
LEMMA AcceptedOpens ==
    ASSUME NEW p, StateOK(proc[p], repos), proc[p].pc = "print"
    PROVE  GivenOK(Accepted(p), repos)
  <1> DEFINE u == proc[p]
             i == proc[p].inv
  <1>1. /\ PreparedOK(u) /\ AchievedOK(u, repos) /\ PlaceOK(u, repos)
        /\ CodeOf(p) = CodeFor(u)
    BY DEF StateOK, CodeOf, CodeFor
  <1> SUFFICES ASSUME NEW g \in Accepted(p)
               PROVE  g.place \in DOMAIN repos /\ Again(g) \in repos[g.place].slots
    BY DEF GivenOK
  <1>2. CodeFor(u) = 0 /\ i.command \in {"init", "key add"}
    BY <1>1 DEF Accepted
  <1>3. u.error = "" /\ AchievedBy(u, repos)
    <2>1. u.error = ""
      BY <1>2, CodesFor
    <2>2. QED
      BY <1>1, <2>1 DEF AchievedOK, Told
  <1>4. u.place # "" /\ u.place \in DOMAIN repos
    BY <1>1, <1>2, <1>3 DEF AchievedBy, PlaceOK
  <1>5. /\ i \in Invocations /\ Prepare(i).error = "" /\ i.command # "version"
        /\ u.pass = Prepare(i).pass /\ u.new = Prepare(i).new
    BY <1>1, <1>2, <1>3 DEF PreparedOK
  <1> DEFINE pass == Passphrase(i.env, Secrets)
             new == NewPassphrase(i.new_password_file, i.env, Secrets)
  <1>6. /\ u.pass = pass.text /\ pass.error = ""
        /\ u.new = new.text
        /\ i.command = "key add" => new.error = ""
    BY <1>5, PrepareTells
  <1>7. CASE i.command = "init"
    <2>1. u.pass \in repos[u.place].slots
      BY <1>3, <1>7 DEF AchievedBy
    <2>2. CASE i.env.password # None
      <3>1. g = [place |-> u.place, kind |-> "password", text |-> i.env.password[1]]
        BY <1>1, <1>2, <1>7, <2>2 DEF Accepted
      <3>2. pass.text = i.env.password[1]
        BY <2>2 DEF Passphrase
      <3>3. g.kind = "password" /\ g.text = i.env.password[1] /\ g.place = u.place
        BY <3>1
      <3>4. Again(g) = u.pass
        BY <1>6, <3>2, <3>3, GivenAgain
      <3>5. QED
        BY <1>4, <2>1, <3>3, <3>4
    <2>3. CASE i.env.password = None
      <3> DEFINE text == Secrets[i.env.password_file[1]][1]
      <3>1. g = [place |-> u.place, kind |-> "file", text |-> text]
        BY <1>1, <1>2, <1>7, <2>3 DEF Accepted
      <3>2. pass.text = TrimEnd(text)
        BY <1>6, <2>3 DEF Passphrase
      <3> HIDE DEF text
      <3>3. g.kind = "file" /\ g.text = text /\ g.place = u.place
        BY <3>1
      <3>4. Again(g) = u.pass
        BY <1>6, <3>2, <3>3, GivenAgain
      <3>5. QED
        BY <1>4, <2>1, <3>3, <3>4
    <2>4. QED
      BY <2>2, <2>3
  <1>8. CASE i.command = "key add"
    <2>1. u.new \in repos[u.place].slots /\ new.error = ""
      BY <1>3, <1>6, <1>8 DEF AchievedBy
    <2>2. \A path : NewPassphraseFile(path, Secrets).error = "" =>
             NewPassphraseFile(path, Secrets).text = TrimEnd(Secrets[path][1])
      BY DEF NewPassphraseFile
    <2>3. \/ \E path : /\ g = [place |-> u.place, kind |-> "file", text |-> Secrets[path][1]]
                       /\ new = NewPassphraseFile(path, Secrets)
          \/ /\ g = [place |-> u.place, kind |-> "password", text |-> i.env.new_password[1]]
             /\ new.text = i.env.new_password[1]
      <3>1. CASE i.new_password_file # None
        <4>1. g = [place |-> u.place, kind |-> "file", text |-> Secrets[i.new_password_file[1]][1]]
          BY <1>1, <1>2, <1>8, <3>1 DEF Accepted
        <4>2. new = NewPassphraseFile(i.new_password_file[1], Secrets)
          BY <3>1 DEF NewPassphrase
        <4>3. QED
          BY <4>1, <4>2
      <3>2. CASE i.new_password_file = None /\ i.env.new_password # None
        <4>1. g = [place |-> u.place, kind |-> "password", text |-> i.env.new_password[1]]
          BY <1>1, <1>2, <1>8, <3>2 DEF Accepted
        <4>2. new.text = i.env.new_password[1]
          BY <3>2 DEF NewPassphrase
        <4>3. QED
          BY <4>1, <4>2
      <3>3. CASE i.new_password_file = None /\ i.env.new_password = None
        <4>1. g = [place |-> u.place, kind |-> "file",
                   text |-> Secrets[i.env.new_password_file[1]][1]]
          BY <1>1, <1>2, <1>8, <3>3 DEF Accepted
        <4>2. new = NewPassphraseFile(i.env.new_password_file[1], Secrets)
          BY <2>1, <3>3 DEF NewPassphrase
        <4>3. QED
          BY <4>1, <4>2
      <3>4. QED
        BY <3>1, <3>2, <3>3
    <2> HIDE DEF new
    <2>4. /\ g.place = u.place
          /\ \/ g.kind = "file" /\ new.text = TrimEnd(g.text)
             \/ g.kind = "password" /\ new.text = g.text
      <3> HIDE DEF u, i
      <3>1. ASSUME NEW path, g = [place |-> u.place, kind |-> "file", text |-> Secrets[path][1]],
                   new = NewPassphraseFile(path, Secrets)
            PROVE  g.place = u.place /\ g.kind = "file" /\ new.text = TrimEnd(g.text)
        <4>1. g.place = u.place /\ g.kind = "file" /\ g.text = Secrets[path][1]
          BY <3>1
        <4>2. new.text = TrimEnd(Secrets[path][1])
          BY <2>1, <2>2, <3>1
        <4>3. QED
          BY <4>1, <4>2
      <3>2. ASSUME g = [place |-> u.place, kind |-> "password", text |-> i.env.new_password[1]],
                   new.text = i.env.new_password[1]
            PROVE  g.place = u.place /\ g.kind = "password" /\ new.text = g.text
        BY <3>2
      <3>3. QED
        BY <2>3, <3>1, <3>2
    <2>5. Again(g) = u.new
      BY <1>6, <2>4, GivenAgain
    <2>6. QED
      BY <1>4, <2>1, <2>4, <2>5
  <1>9. QED
    BY <1>2, <1>7, <1>8

(* A process that has printed knows what it knew. *)
LEMMA PrintedKeeps ==
    ASSUME NEW u, NEW R, StateOK(u, R), u.pc = "print", NEW out, NEW exit,
           NEW v, v = [u EXCEPT !.pc = "ended", !.out = out, !.exit = exit], OutOK(v)
    PROVE  StateOK(v, R)
  <1>1. /\ PreparedOK(u) /\ CommandOK(u) /\ DidOK(u) /\ Shape(u)
        /\ AchievedOK(u, R) /\ ForgetOK(u, R) /\ ListedOK(u, R) /\ PlaceOK(u, R)
    BY DEF StateOK
  <1>2. /\ Shape(v) /\ SameFound(u, v)
        /\ v.inv = u.inv /\ v.place = u.place /\ v.pass = u.pass /\ v.new = u.new
        /\ v.policy = u.policy /\ v.began = u.began
        /\ v.pc = "ended" /\ v.error = u.error /\ v.warned = u.warned /\ v.did = u.did
    BY <1>1 DEF SameFound, Shape, Fields
  <1>3. Told(u)
    BY DEF Told
  <1>4. PreparedOK(v)
    BY <1>1, <1>2 DEF PreparedOK, Running
  <1>5. CommandOK(v)
    BY <1>1, <1>2 DEF CommandOK, Running
  <1>6. DidOK(v)
    BY <1>1, <1>2 DEF DidOK, Running
  <1>7. AchievedOK(v, R)
    <2>1. AchievedBy(u, R) => AchievedBy(v, R)
      BY <1>2 DEF AchievedBy, SameFound
    <2>2. QED
      BY <1>1, <1>2, <1>3, <2>1 DEF AchievedOK
  <1>8. ForgetOK(v, R)
    BY <1>1, <1>2, <1>3 DEF ForgetOK, SameFound
  <1>9. ListedOK(v, R)
    <2>1. HasListed(v) => HasListed(u)
      BY <1>2, <1>3 DEF HasListed, SameFound
    <2>2. QED
      BY <1>1, <1>2, <2>1 DEF ListedOK, SameFound
  <1>10. PlaceOK(v, R)
    BY <1>1, <1>2 DEF PlaceOK, SameFound
  <1>11. QED
    BY <1>2, <1>4, <1>5, <1>6, <1>7, <1>8, <1>9, <1>10 DEF StateOK

(* main: all of the output is printed, or a part of it. *)
LEMMA FinishKeeps ==
    ASSUME Inv, NEW p \in Procs, Finish(p) PROVE Inv'
  <1> DEFINE u == proc[p]
             out == Stdout(p)
             all == [u EXCEPT !.pc = "ended", !.out = out, !.exit = CodeOf(p)]
             Cut(n) == [u EXCEPT !.pc = "ended", !.out = SubSeq(out, 1, n), !.exit = Panicked]
  <1>1. u.pc = "print" /\ StateOK(u, repos) /\ repos' = repos
    BY DEF Finish, At, Inv
  <1>2. PreparedOK(u) /\ CommandOK(u) /\ Shape(u)
    BY <1>1 DEF StateOK
  <1>3. /\ u.inv.mode \in {"human", "json", "jsonl"} /\ u.warned \in BOOLEAN
        /\ u.warned => u.inv.command = "restore"
    BY <1>2, InvocationAssumption DEF PreparedOK, CommandOK
  <1>4. Fits(u, out)
    BY <1>3, StdoutSays
  <1>5. CodeOf(p) = CodeFor(u)
    BY DEF CodeOf, CodeFor
  <1> HIDE DEF out, u
  <1>6. CASE Become(p, all) /\ given' = given \cup Accepted(p)
    <2>1. /\ all.pc = "ended" /\ all.out = out /\ all.exit = CodeFor(u)
          /\ all.error = u.error /\ all.inv = u.inv /\ all.warned = u.warned
      BY <1>2, <1>5 DEF Shape, Fields
    <2>2. CodeFor(all) = CodeFor(u) /\ CodeFor(u) \notin {Killed, Panicked}
      <3> HIDE DEF all
      <3>1. CodeFor(all) = CodeFor(u)
        BY <2>1, Zenon DEF CodeFor
      <3>2. QED
        BY <3>1, CodesFor
    <2>3. OutOK(all)
      <3>1. {all.out[k] : k \in DOMAIN all.out} = Parts(out)
        BY <2>1 DEF Parts
      <3> HIDE DEF all
      <3>2. QED
        BY <1>4, <2>1, <2>2, <3>1 DEF OutOK, Fits
    <2>4. StateOK(all, repos)
      BY <1>1, <2>3, PrintedKeeps
    <2>5. GivenOK(given', repos)
      <3>1. GivenOK(Accepted(p), repos)
        BY <1>1, AcceptedOpens DEF u
      <3>2. QED
        BY <1>6, <3>1 DEF Inv, GivenOK
    <2>6. Grows(repos, repos') /\ ReposOK(repos')
      BY <1>1 DEF Grows, Inv
    <2> HIDE DEF all
    <2>7. QED
      BY <1>1, <1>6, <2>4, <2>5, <2>6, OneProcSteps
  <1>7. ASSUME NEW n \in 0..(Len(out) - 1), Become(p, Cut(n)), UNCHANGED given
        PROVE  Inv'
    <2> DEFINE v == Cut(n)
    <2>1. /\ v.pc = "ended" /\ v.out = SubSeq(out, 1, n) /\ v.exit = Panicked
          /\ v.error = u.error /\ v.inv = u.inv /\ v.warned = u.warned
      BY <1>2 DEF Shape, Fields
    <2>2. Parts(SubSeq(out, 1, n)) \subseteq Parts(out)
      BY <1>4, PartsOfCut DEF Fits
    <2>3. OutOK(v)
      <3>1. {v.out[k] : k \in DOMAIN v.out} \subseteq Parts(out)
        BY <2>1, <2>2 DEF Parts
      <3>2. v.exit # Killed /\ v.exit = Panicked
        BY <2>1 DEF Killed, Panicked
      <3> HIDE DEF v
      <3>3. QED
        BY <1>4, <2>1, <3>1, <3>2 DEF OutOK, Fits
    <2>4. StateOK(v, repos)
      BY <1>1, <2>3, PrintedKeeps
    <2> HIDE DEF v
    <2>5. Become(p, v)
      BY <1>7 DEF v
    <2>6. QED
      BY <1>1, <1>7, <2>4, <2>5, QuietStep
  <1>8. QED
    BY <1>6, <1>7 DEF Finish, out, u

-----------------------------------------------------------------------------
(* The invariant *)

LEMMA InitInv ==
    ASSUME Init PROVE Inv
  <1>1. ReposOK(repos)
    BY CliAssumption DEF Init, ReposOK
  <1>2. ASSUME NEW p \in Procs PROVE StateOK(proc[p], repos)
    <2>1. proc[p] = Fresh
      BY DEF Init
    <2>2. QED
      BY <2>1, FreshState DEF StateOK
  <1>3. proc = [p \in Procs |-> proc[p]] /\ GivenOK(given, repos)
    BY DEF Init, GivenOK
  <1>4. QED
    BY <1>1, <1>2, <1>3 DEF Inv

LEMMA NextInv ==
    ASSUME Inv, [Next]_vars PROVE Inv'
  <1>1. CASE UNCHANGED vars
    BY <1>1 DEF vars, Inv
  <1>2. ASSUME NEW p \in Procs,
               \/ \E i \in Invocations : Start(p, i, Prepare(i))
               \/ Open(p) \/ Create(p) \/ AddKey(p) \/ Commit(p) \/ ReadClock(p)
               \/ ListSnapshots(p) \/ Select(p) \/ ListEntries(p) \/ RestoreFiles(p) \/ Check(p)
               \/ PlanForget(p) \/ MarkerTime(p) \/ Mark(p) \/ Finish(p) \/ Kill(p)
        PROVE  Inv'
    BY <1>2, StartKeeps, OpenKeeps, CreateKeeps, AddKeyKeeps, CommitKeeps, ReadClockKeeps,
       ListSnapshotsKeeps, SelectKeeps, ListEntriesKeeps, RestoreFilesKeeps, CheckKeeps,
       PlanForgetKeeps, MarkerTimeKeeps, MarkKeeps, FinishKeeps, KillKeeps
  <1>3. QED
    BY <1>1, <1>2 DEF Next

(* The invariant holds in every state that is reached. *)
LEMMA InvAlways == Spec => []Inv
  BY InitInv, NextInv, PTL DEF Spec

-----------------------------------------------------------------------------
(* Theorems *)

(* What is known of a command that has ended. *)
LEMMA EndedKnows ==
    ASSUME Inv, NEW p \in Procs, Ended(p)
    PROVE  LET u == proc[p] IN
           /\ PreparedOK(u) /\ CommandOK(u) /\ DidOK(u) /\ OutOK(u)
           /\ AchievedOK(u, repos) /\ ForgetOK(u, repos)
           /\ ListedOK(u, repos) /\ PlaceOK(u, repos)
           /\ u.pc = "ended"
  BY DEF Inv, StateOK, Ended, At

LEMMA AchievedIs ==
    ASSUME NEW p, AchievedBy(proc[p], repos)
    PROVE  Achieved(p)
  BY DEF AchievedBy, Achieved, Command, Repo

(* A command that ended with a code of its own. *)
LEMMA EndedWithCode ==
    ASSUME Inv, NEW p \in Procs, Ended(p), proc[p].exit \notin {Killed, Panicked}
    PROVE  /\ proc[p].exit = CodeFor(proc[p])
           /\ proc[p].exit \in {0, 10} <=> proc[p].error = ""
           /\ proc[p].error # "" => proc[p].exit = ExitCode(proc[p].error)
           /\ proc[p].error = "" => Achieved(p)
           /\ Told(proc[p])
  <1> DEFINE u == proc[p]
  <1>1. OutOK(u) /\ AchievedOK(u, repos) /\ u.pc = "ended"
    BY EndedKnows
  <1>2. u.exit = CodeFor(u) /\ Told(u)
    BY <1>1 DEF OutOK, Told
  <1>3. CodeFor(u) \in {0, 10} <=> u.error = ""
    BY CodesFor
  <1>4. u.error # "" => CodeFor(u) = ExitCode(u.error)
    BY DEF CodeFor
  <1>5. u.error = "" => Achieved(p)
    BY <1>1, <1>2, AchievedIs DEF AchievedOK
  <1>6. QED
    BY <1>2, <1>3, <1>4, <1>5

(* CliError::exit_code of the errors that may come after a write, and of
   those that tell that nothing was found. *)
LEMMA CodesOfErrors ==
    ASSUME NEW error
    PROVE  /\ error \in LateErrors => ExitCode(error) \in {1, 5}
           /\ ExitCode(error) = 7 => error \in {"snapshot_not_found", "snapshot_path_not_found",
                                                "forget_no_snapshots_matched"}
  <1>1. error = "system_clock_invalid" => ExitCode(error) = 1
    BY DEF ExitCode, ConfigErrors, PolicyErrors, RepositoryErrors, RequestErrors, SourceErrors,
           TransientStorageErrors, DestinationErrors, IntegrityErrors, MissingErrors,
           ObjectErrors, ForgetMarkerErrors, KeySlotErrors
  <1>2. error \in {"storage_object_io_failed", "storage_object_already_exists"} =>
           ExitCode(error) = 5
    BY DEF ExitCode, ConfigErrors, PolicyErrors, RepositoryErrors, RequestErrors, SourceErrors,
           TransientStorageErrors, DestinationErrors, IntegrityErrors, MissingErrors,
           ObjectErrors, ForgetMarkerErrors, KeySlotErrors
  <1>3. ExitCode(error) = 7 => error \in {"snapshot_not_found", "snapshot_path_not_found",
                                          "forget_no_snapshots_matched"}
    BY DEF ExitCode
  <1>4. QED
    BY <1>1, <1>2, <1>3 DEF LateErrors

(* What a command has listed is finite, as the repository is. *)
LEMMA ListedFinite ==
    ASSUME Inv, NEW p \in Procs, Ended(p)
    PROVE  /\ IsFiniteSet(proc[p].listed)
           /\ \A s \in proc[p].listed : s.id \in Nat /\ s.created_at \in Nat
           /\ \A s, t \in proc[p].listed : s.id = t.id => s = t
  <1> DEFINE u == proc[p]
  <1>1. ListedOK(u, repos) /\ PlaceOK(u, repos)
    BY EndedKnows
  <1>2. CASE u.place \in DOMAIN repos
    <2>1. IsRepository(repos[u.place]) /\ u.listed \subseteq repos[u.place].snapshots
      BY <1>1, <1>2 DEF Inv, ReposOK, ListedOK
    <2>2. IsFiniteSet(u.listed)
      BY <2>1, FS_Subset DEF IsRepository
    <2>3. QED
      BY <2>1, <2>2, CliAssumption DEF IsRepository
  <1>3. CASE u.place \notin DOMAIN repos
    <2>1. u.listed = {}
      BY <1>1, <1>3 DEF PlaceOK
    <2>2. QED
      BY <2>1, FS_EmptySet
  <1>4. QED
    BY <1>2, <1>3

(* After a plan all of whose snapshots are forgotten, the policy forgets none
   of those that are left. *)
LEMMA NothingLeftToForget ==
    ASSUME NEW policy, IsPolicy(policy), NEW S, IsFiniteSet(S), NEW T, T \subseteq S,
           PlanForgotten(policy, S) \cap T = {}
    PROVE  PlanForgotten(policy, T) = {}
  <1>1. Kept(policy, S) \cap T \subseteq Kept(policy, T)
    BY KeptAntitone
  <1>2. QED
    BY <1>1 DEF PlanForgotten

(***************************************************************************)
(* A script can go by the exit code of ferry, for any processes that work  *)
(* on the same repositories: see ExitTellsEffect.                          *)
(***************************************************************************)
THEOREM ExitCodesAreTrue == Spec => []ExitTellsEffect
  <1>1. ASSUME Inv PROVE ExitTellsEffect
    <2> SUFFICES ASSUME NEW p \in Procs, Ended(p)
                 PROVE  /\ proc[p].exit \in {0, 10} => Achieved(p)
                        /\ proc[p].exit \in {2, 3, 4, 7, 9} => proc[p].did = {}
                        /\ Command(p) = "forget" /\ ~proc[p].inv.dry_run /\ proc[p].exit \in {0, 7} =>
                              PlanForgotten(proc[p].policy, proc[p].listed \cap Visible(Repo(p))) = {}
      BY <1>1 DEF ExitTellsEffect
    <2> DEFINE u == proc[p]
               visible == Visible(Repo(p))
    <2>1. /\ PreparedOK(u) /\ CommandOK(u) /\ DidOK(u)
          /\ AchievedOK(u, repos) /\ ForgetOK(u, repos) /\ u.pc = "ended"
      BY <1>1, EndedKnows
    <2>2. u.exit \in {0, 10, 2, 3, 4, 7, 9} => u.exit \notin {Killed, Panicked}
      BY DEF Killed, Panicked
    <2>3. u.exit \in {0, 10} => Achieved(p)
      BY <1>1, <2>2, EndedWithCode
    <2>4. ASSUME u.exit \in {2, 3, 4, 7, 9} PROVE u.did = {}
      <3>1. u.exit \notin {Killed, Panicked} /\ u.exit \notin {0, 10}
        BY <2>2, <2>4
      <3>2. u.error # "" /\ ExitCode(u.error) = u.exit
        BY <1>1, <3>1, EndedWithCode
      <3>3. u.error \notin LateErrors
        <4>1. u.error \in LateErrors => ExitCode(u.error) \in {1, 5}
          BY CodesOfErrors
        <4>2. \A code \in {2, 3, 4, 7, 9} : code \notin {1, 5}
          OBVIOUS
        <4>3. QED
          BY <2>4, <3>2, <4>1, <4>2, Zenon
      <3>4. QED
        BY <2>1, <3>2, <3>3 DEF DidOK
    <2>5. ASSUME u.inv.command = "forget", ~u.inv.dry_run, u.exit \in {0, 7}
          PROVE  PlanForgotten(u.policy, u.listed \cap visible) = {}
      <3>1. u.exit \notin {Killed, Panicked}
        BY <2>2, <2>5
      <3>2. PlanForgotten(u.policy, u.listed) \cap visible = {}
        <4>1. CASE u.exit = 0
          <5>1. u.error = "" /\ Told(u) /\ AchievedBy(u, repos)
            BY <1>1, <2>1, <3>1, <4>1, EndedWithCode DEF AchievedOK
          <5>2. /\ u.chosen = PlanForgotten(u.policy, u.listed)
                /\ {s.id : s \in u.chosen} \subseteq Repo(p).forgotten
            BY <2>1, <2>5, <5>1 DEF ForgetOK, AchievedBy, Repo
          <5>3. QED
            BY <5>2 DEF Visible
        <4>2. CASE u.exit = 7
          <5>1. u.error # "" /\ ExitCode(u.error) = 7
            <6>1. u.exit \notin {0, 10}
              BY <4>2
            <6>2. QED
              BY <1>1, <3>1, <4>2, <6>1, EndedWithCode
          <5>2. u.error = "forget_no_snapshots_matched"
            BY <2>1, <2>5, <5>1, CodesOfErrors DEF CommandOK
          <5>3. QED
            BY <2>1, <5>2 DEF ForgetOK
        <4>3. QED
          BY <2>5, <4>1, <4>2
      <3>3. IsPolicy(u.policy)
        BY <2>1, PreparePolicy DEF PreparedOK
      <3>4. IsFiniteSet(u.listed)
        BY <1>1, ListedFinite
      <3> HIDE DEF u, visible
      <3>5. PlanForgotten(u.policy, u.listed) \cap (u.listed \cap visible) = {}
        BY <3>2
      <3>6. QED
        BY <3>3, <3>4, <3>5, NothingLeftToForget
    <2>6. QED
      BY <2>3, <2>4, <2>5 DEF Command
  <1>2. QED
    BY <1>1, InvAlways, PTL

(***************************************************************************)
(* Whatever part of its output is read, it is true: see OutputTellsEffect. *)
(***************************************************************************)
THEOREM OutputIsTrue == Spec => []OutputTellsEffect
  <1>1. ASSUME Inv PROVE OutputTellsEffect
    <2> SUFFICES ASSUME NEW p \in Procs, Ended(p)
                 PROVE  LET out == {proc[p].out[k] : k \in DOMAIN proc[p].out} IN
                        /\ out \cap Successes # {} => Achieved(p)
                        /\ out \cap Failures # {} => proc[p].exit \notin {0, 10}
                        /\ proc[p].exit \notin {Panicked, Killed} /\ proc[p].inv.mode = "jsonl" =>
                              /\ proc[p].exit \in {0, 10} <=> "command_completed" \in out
                              /\ proc[p].exit = 10 <=> "warning" \in out
      BY <1>1 DEF OutputTellsEffect, Successes, Failures
    <2> DEFINE u == proc[p]
               out == {u.out[k] : k \in DOMAIN u.out}
    <2>1. OutOK(u) /\ CommandOK(u) /\ AchievedOK(u, repos) /\ u.pc = "ended"
      BY <1>1, EndedKnows
    <2>2. /\ u.exit = Killed => out = {}
          /\ u.error # "" => out \cap (Successes \cup {"warning"}) = {}
          /\ u.error = "" => out \cap Failures = {}
          /\ u.exit \notin {Killed, Panicked} /\ u.inv.mode = "jsonl" =>
                /\ u.error = "" <=> "command_completed" \in out
                /\ u.error = "" /\ u.warned <=> "warning" \in out
      BY <2>1, Zenon DEF OutOK
    <2> HIDE DEF out
    <2>3. ASSUME out \cap Successes # {} PROVE Achieved(p)
      <3>1. u.error = "" /\ u.exit # Killed
        BY <2>2, <2>3
      <3>2. AchievedBy(u, repos)
        BY <2>1, <3>1 DEF AchievedOK, Told
      <3>3. QED
        BY <3>2, AchievedIs
    <2>4. ASSUME out \cap Failures # {} PROVE u.exit \notin {0, 10}
      <3>1. u.error # ""
        BY <2>2, <2>4
      <3>2. u.exit \in {0, 10} => u.exit \notin {Killed, Panicked}
        BY DEF Killed, Panicked
      <3>3. QED
        BY <1>1, <3>1, <3>2, EndedWithCode
    <2>5. ASSUME u.exit \notin {Panicked, Killed}, u.inv.mode = "jsonl"
          PROVE  /\ u.exit \in {0, 10} <=> "command_completed" \in out
                 /\ u.exit = 10 <=> "warning" \in out
      <3>1. /\ u.error = "" <=> "command_completed" \in out
            /\ u.error = "" /\ u.warned <=> "warning" \in out
        BY <2>2, <2>5
      <3>2. u.exit = CodeFor(u) /\ (u.exit \in {0, 10} <=> u.error = "")
        BY <1>1, <2>5, EndedWithCode
      <3>3. CASE u.error # ""
        <4>1. u.exit # 10
          BY <3>2, <3>3
        <4>2. QED
          BY <3>1, <3>2, <3>3, <4>1
      <3>4. CASE u.error = "" /\ u.warned
        <4>1. u.exit = 10
          BY <3>2, <3>4 DEF CodeFor
        <4>2. QED
          BY <3>1, <3>2, <3>4, <4>1
      <3>5. CASE u.error = "" /\ ~u.warned
        <4>1. u.exit = 0
          BY <3>2, <3>5 DEF CodeFor
        <4>2. u.exit # 10
          BY <4>1
        <4>3. QED
          BY <3>1, <3>2, <3>5, <4>2
      <3>6. QED
        BY <3>3, <3>4, <3>5
    <2>6. QED
      BY <2>3, <2>4, <2>5 DEF out
  <1>2. QED
    BY <1>1, InvAlways, PTL

(***************************************************************************)
(* A passphrase that init or key add accepted opens the repository when it *)
(* is given again, whatever has been written since: see                    *)
(* SecretsKeepOpening.                                                     *)
(***************************************************************************)
THEOREM SecretsAreKept == Spec => []SecretsKeepOpening
  <1>1. ASSUME Inv PROVE SecretsKeepOpening
    <2>1. \A g \in given : Again(g) \in repos[g.place].slots
      BY <1>1 DEF Inv, GivenOK
    <2>2. QED
      BY <2>1 DEF SecretsKeepOpening, Again
  <1>2. QED
    BY <1>1, InvAlways, PTL

(* Fewer snapshots, fewer that match. *)
LEMMA MatchingShrinks ==
    ASSUME NEW S, NEW T, T \subseteq S, NEW selection
    PROVE  Matching(selection, T) \subseteq Matching(selection, S)
  BY DEF Matching

(***************************************************************************)
(* select_snapshot, snapshot_summaries: a reader sees what was there when  *)
(* it began and has not been forgotten since: see ReadersSeeWhatWasThere.  *)
(***************************************************************************)
THEOREM ReadersAreUpToDate == Spec => []ReadersSeeWhatWasThere
  <1>1. ASSUME Inv PROVE ReadersSeeWhatWasThere
    <2> DEFINE Still(p) == proc[p].began \cap Visible(Repo(p))
               Wanted(p) == Matching(Selection(proc[p].inv), Still(p))
    <2>1. ASSUME NEW p \in Procs, Ended(p)
          PROVE  /\ proc[p].selected # {} => \E s \in proc[p].selected :
                       /\ proc[p].selected = {s}
                       /\ s \in Matching(Selection(proc[p].inv), proc[p].listed)
                       /\ \A t \in Wanted(p) : t = s \/ After(s, t)
                 /\ proc[p].error = "snapshot_not_found" => Wanted(p) = {}
                 /\ Command(p) = "snapshots" /\ proc[p].exit = 0 =>
                       /\ Still(p) \subseteq proc[p].listed
                       /\ proc[p].listed # {} =>
                             {Summaries(proc[p].listed)[1]}
                                = SelectSnapshot(proc[p].listed, [by |-> "latest"])
      <3> DEFINE u == proc[p]
                 selection == Selection(u.inv)
                 found == Matching(selection, u.listed)
      <3>1. ListedOK(u, repos) /\ u.pc = "ended"
        BY <1>1, <2>1, EndedKnows
      <3>2. /\ IsFiniteSet(u.listed)
            /\ \A s \in u.listed : s.id \in Nat /\ s.created_at \in Nat
            /\ \A s, t \in u.listed : s.id = t.id => s = t
        BY <1>1, <2>1, ListedFinite
      <3>3. ASSUME HasListed(u) PROVE Still(p) \subseteq u.listed
        BY <3>1, <3>3 DEF ListedOK, Visible, Repo
      <3>4. ASSUME HasListed(u) PROVE Wanted(p) \subseteq found
        <4> HIDE DEF Still, u, selection
        <4>1. QED
          BY <3>3, <3>4, MatchingShrinks DEF selection, u
      <3>5. ASSUME u.selected # {}
            PROVE  \E s \in u.selected : /\ u.selected = {s} /\ s \in found
                                         /\ \A t \in Wanted(p) : t = s \/ After(s, t)
        <4>1. Wanted(p) \subseteq found /\ u.selected = SelectSnapshot(u.listed, selection)
          BY <3>1, <3>4, <3>5 DEF HasListed, ListedOK
        <4> HIDE DEF selection, u, Wanted
        <4>2. /\ u.selected \subseteq found
              /\ \A s, t \in u.selected : s = t
              /\ \A s \in u.selected, t \in found : t = s \/ After(s, t)
          BY <3>2, <4>1, SelectsLatest
        <4> HIDE DEF found
        <4>3. QED
          BY <3>5, <4>1, <4>2
      <3>6. ASSUME u.error = "snapshot_not_found" PROVE Wanted(p) = {}
        <4>1. Wanted(p) \subseteq found /\ found = {}
          BY <3>1, <3>4, <3>6 DEF HasListed, ListedOK
        <4> HIDE DEF found, Wanted
        <4>2. QED
          BY <4>1
      <3>7. ASSUME u.inv.command = "snapshots", u.exit = 0
            PROVE  /\ Still(p) \subseteq u.listed
                   /\ u.listed # {} =>
                         {Summaries(u.listed)[1]} = SelectSnapshot(u.listed, [by |-> "latest"])
        <4>1. u.exit \notin {Killed, Panicked} /\ u.exit \in {0, 10}
          BY <3>7 DEF Killed, Panicked
        <4>2. HasListed(u)
          BY <1>1, <2>1, <3>7, <4>1, EndedWithCode DEF HasListed
        <4> HIDE DEF u
        <4>3. u.listed # {} =>
                 {Summaries(u.listed)[1]} = SelectSnapshot(u.listed, [by |-> "latest"])
          BY <3>2, FirstIsLatest
        <4>4. QED
          BY <3>3, <4>2, <4>3
      <3> HIDE DEF Still, Wanted
      <3>8. QED
        BY <3>5, <3>6, <3>7 DEF Command
    <2>2. QED
      BY <2>1 DEF ReadersSeeWhatWasThere
  <1>2. QED
    BY <1>1, InvAlways, PTL

(* What a step that changes the repository at a place has to be. *)
Named(p, place) ==
    /\ proc'[p] # proc[p]
    /\ NamesPlace(proc[p].inv, place)
    /\ Command(p) \in {"init", "key add", "backup", "forget"}
    /\ ~proc[p].inv.dry_run

LEMMA WriteNames ==
    ASSUME Inv, NEW p \in Procs, proc[p].pc \in {"create", "add", "commit", "mark"},
           NEW repo, NEW done, Write(p, repo, done),
           SameCall(proc[p], done), done # proc[p],
           NEW place \in DOMAIN repos, repos'[place] # repos[place]
    PROVE  Named(p, place)
  <1> DEFINE u == proc[p]
  <1>1. u.pc \in Running /\ u.pc # "print"
    BY DEF Running
  <1>2. PreparedOK(u) /\ CommandOK(u) /\ u.error = "" /\ u.inv \in Invocations
    BY <1>1, RunningKnows
  <1>3. /\ repos' = [repos EXCEPT ![u.place] = repo]
        /\ Become(p, done) \/ Become(p, Failed(done, "storage_object_io_failed"))
    BY DEF Write
  <1>4. place = u.place
    BY <1>3
  <1>5. proc'[p] # u
    <2>1. proc = [q \in Procs |-> proc[q]]
      BY DEF Inv
    <2>2. proc'[p] = done \/ proc'[p] = Failed(done, "storage_object_io_failed")
      BY <1>3, <2>1 DEF Become
    <2>3. Failed(done, "storage_object_io_failed").pc = "print"
      BY FailedState DEF SameCall
    <2>4. QED
      BY <1>1, <2>2, <2>3
  <1>6. NamesPlace(u.inv, u.place)
    <2>1. Prepare(u.inv).error = "" /\ u.inv.command # "version" /\ u.place = Prepare(u.inv).place
      BY <1>1, <1>2 DEF PreparedOK
    <2>2. ReposOK(repos)
      BY DEF Inv
    <2>3. QED
      BY <1>2, <2>1, <2>2, PrepareNames
  <1>7. u.inv.command \in {"init", "key add", "backup", "forget"} /\ ~u.inv.dry_run
    <2>1. u.inv.dry_run => u.inv.command \in {"forget", "restore"}
      BY <1>2, InvocationAssumption
    <2>2. QED
      BY <1>2, <2>1 DEF CommandOK
  <1>8. QED
    BY <1>4, <1>5, <1>6, <1>7 DEF Named, Command

(***************************************************************************)
(* resolve_config, and the commands: no step of any process changes a      *)
(* repository other than the one its command line names, nor one of a      *)
(* command that only reads: see OnlyNamedRepository.                       *)
(***************************************************************************)
THEOREM WritesGoWhereAsked == Spec => OnlyNamedRepository
  <1> DEFINE Asked == \A place \in DOMAIN repos : repos'[place] # repos[place] =>
                         \E p \in Procs : Named(p, place)
  <1>1. ASSUME Inv, [Next]_vars PROVE [Asked]_vars
    <2> SUFFICES ASSUME NEW place \in DOMAIN repos, repos'[place] # repos[place]
                 PROVE  \E p \in Procs : Named(p, place)
      OBVIOUS
    <2>1. Next /\ repos' # repos
      BY <1>1 DEF vars
    <2>2. PICK p \in Procs : Create(p) \/ AddKey(p) \/ Commit(p) \/ Mark(p)
      BY <2>1 DEF Next, Start, Open, ReadClock, ListSnapshots, Select, ListEntries,
         RestoreFiles, Check, PlanForget, MarkerTime, Finish, Kill, Load
    <2> DEFINE u == proc[p]
    <2>3. u.pc \in {"create", "add", "commit", "mark"} /\ u.pc \in Running
      BY <2>2 DEF Create, AddKey, Commit, Mark, At, Running
    <2>4. Shape(u)
      BY <1>1, <2>3, RunningKnows
    <2>5. ASSUME NEW did, NEW pc, pc # u.pc
          PROVE  LET v == [u EXCEPT !.did = did, !.pc = pc] IN SameCall(u, v) /\ v # u
      <3> DEFINE v == [u EXCEPT !.did = did, !.pc = pc]
      <3>1. SameCall(u, v) /\ v.pc = pc
        BY <2>4 DEF SameCall, Shape, Fields
      <3> HIDE DEF v
      <3>2. QED
        BY <2>5, <3>1 DEF v
    <2>6. \E repo, done : Write(p, repo, done) /\ SameCall(u, done) /\ done # u
      <3>1. CASE Create(p)
        <4>1. u.pc = "create" /\ Repo(p).slots = {}
          BY <2>1, <3>1 DEF Create, Fail, At
        <4>2. Write(p, [Repo(p) EXCEPT !.slots = {u.pass}],
                    [u EXCEPT !.did = {"created"}, !.pc = "print"])
          BY <3>1, <4>1 DEF Create
        <4>3. QED
          BY <2>5, <4>1, <4>2
      <3>2. CASE AddKey(p)
        <4>1. u.pc = "add"
          BY <3>2 DEF AddKey, At
        <4>2. Write(p, [Repo(p) EXCEPT !.slots = @ \cup {u.new}],
                    [u EXCEPT !.did = {"added"}, !.pc = "print"])
          BY <3>2 DEF AddKey
        <4>3. QED
          BY <2>5, <4>1, <4>2
      <3>3. CASE Commit(p)
        <4>1. u.pc = "commit"
          BY <3>3 DEF Commit, At
        <4>2. \E s : Write(p, [Repo(p) EXCEPT !.snapshots = @ \cup {s}],
                           [u EXCEPT !.did = {s}, !.pc = "clock"])
          BY <2>1, <3>3 DEF Commit, Fail
        <4>3. QED
          BY <2>5, <4>1, <4>2
      <3>4. CASE Mark(p)
        <4> DEFINE s == CHOOSE s \in u.todo : \A t \in u.todo : s.id <= t.id
                   rest == u.todo \ {s}
                   state == [u EXCEPT !.todo = rest, !.pc = IF rest = {} THEN "print" ELSE "mark"]
                   done == [state EXCEPT !.did = @ \cup {s}]
        <4>1. Write(p, [Repo(p) EXCEPT !.forgotten = @ \cup {s.id}], done)
          BY <2>1, <3>4 DEF Mark, Fail
        <4>2. s \in u.todo
          BY <1>1, <3>4, MarksOneLeft
        <4> HIDE DEF s
        <4>3. SameCall(u, done) /\ done.todo = u.todo \ {s}
          BY <2>4 DEF SameCall, Shape, Fields
        <4> HIDE DEF done
        <4>4. done # u
          BY <4>2, <4>3
        <4>5. QED
          BY <4>1, <4>3, <4>4
      <3>5. QED
        BY <2>2, <3>1, <3>2, <3>3, <3>4
    <2>7. QED
      BY <1>1, <2>3, <2>6, WriteNames
  <1>2. [Asked]_vars => [\A place \in DOMAIN repos : repos'[place] # repos[place] =>
                            \E p \in Procs :
                                /\ proc'[p] # proc[p]
                                /\ NamesPlace(proc[p].inv, place)
                                /\ Command(p) \in {"init", "key add", "backup", "forget"}
                                /\ ~proc[p].inv.dry_run]_vars
    BY DEF Named
  <1>3. QED
    BY <1>1, <1>2, InvAlways, PTL DEF Spec, OnlyNamedRepository
=============================================================================
