------------------------------- MODULE Forget -------------------------------
(***************************************************************************)
(* `ferry forget` and the commands that list snapshots (snapshots, ls,     *)
(* restore), run by several processes beside backups.                      *)
(*                                                                         *)
(* Every run reads the forget markers first, then lists the commit         *)
(* markers and loads the manifest of each commit that is not forgotten.    *)
(* `forget` plans with its retention policy and writes one marker after    *)
(* the other.  A listing is not atomic: an object created while it runs    *)
(* may be in it or not.  A backup stamps its snapshot some time before it  *)
(* commits it, so snapshots are not committed in the order of their times, *)
(* and the clock may be set back.                                          *)
(***************************************************************************)
EXTENDS Retention

CONSTANTS
    Backups,        \* backup runs, numbers: the order of the snapshot ids
    TagsOf,         \* backup -> tags given to it
    Runs,           \* runs of commands that list snapshots, forget among them
    Policy,         \* run -> its retention policy, if it comes to forget
    Instants,       \* values of the clock, in seconds
    Never           \* "not stamped"

ASSUME ForgetAssumption ==
    /\ Backups \subseteq Nat
    /\ Instants \subseteq Nat /\ Instants # {}
    /\ Never \notin Instants
    /\ \A r \in Runs : /\ Policy[r].last \in Nat
                       /\ \A rule \in PeriodicRules : Policy[r][rule] \in Nat

VARIABLES
    now,            \* the system clock
    stamped,        \* backup -> [created_at, readable] once the manifest is built
    commits,        \* committed snapshots: commits/<id> and their manifests
    markers,        \* forgets/<id>: the snapshot and forgotten_at
    run             \* run -> local state

vars == <<now, stamped, commits, markers, run>>

(* `readable`: validate_snapshot_manifest accepts the manifest. *)
Snapshot(b) ==
    [id |-> b, created_at |-> stamped[b].created_at,
     tags |-> TagsOf[b], readable |-> stamped[b].readable]

Hidden == {m.snapshot : m \in markers}
Visible == commits \ Hidden

RunPc == {"idle", "forgets", "commits", "plan", "write",
          "listed", "done", "no_match", "unreadable", "conflict", "failed"}

Idle == [pc     |-> "idle",
         before |-> {},     \* markers when the listing of forgets/ began
         hidden |-> {},     \* forgotten_snapshot_ids
         base   |-> {},     \* commits when the listing of commits/ began
         listed |-> {},     \* the manifests loaded
         todo   |-> {},     \* markers still to write
         at     |-> Never]  \* forgotten_at_unix_seconds

TypeOK ==
    /\ now \in Instants
    /\ stamped \in [Backups -> [created_at : Instants, readable : BOOLEAN] \cup {Never}]
    /\ commits \subseteq {Snapshot(b) : b \in {b \in Backups : stamped[b] # Never}}
    /\ Hidden \subseteq commits
    /\ \A m \in markers : m.forgotten_at \in Instants
    /\ \A r \in Runs :
         /\ run[r].pc \in RunPc
         /\ run[r].before \cup run[r].hidden \subseteq Hidden
         /\ run[r].todo \subseteq run[r].listed
         /\ run[r].base \cup run[r].listed \subseteq commits
         /\ run[r].pc = "write" => run[r].at \in Instants

Init ==
    /\ now \in Instants
    /\ stamped = [b \in Backups |-> Never]
    /\ commits = {}
    /\ markers = {}
    /\ run = [r \in Runs |-> Idle]

At(r, pc) == run[r].pc = pc
Become(r, state) == run' = [run EXCEPT ![r] = state]

-----------------------------------------------------------------------------
(* The clock and the backups *)

SetClock(t) ==
    /\ now # t
    /\ now' = t
    /\ UNCHANGED <<stamped, commits, markers, run>>

(* write_snapshot builds the manifest; a file may have changed under it. *)
Stamp(b, readable) ==
    /\ stamped[b] = Never
    /\ stamped' = [stamped EXCEPT ![b] = [created_at |-> now, readable |-> readable]]
    /\ UNCHANGED <<now, commits, markers, run>>

(* Mutant of Commit: the marker is replaced, not added. *)
CommitReplacing(b) ==
    /\ stamped[b] # Never
    /\ Snapshot(b) \notin commits
    /\ commits' = {Snapshot(b)}
    /\ UNCHANGED <<now, stamped, markers, run>>

Commit(b) ==
    /\ stamped[b] # Never
    /\ Snapshot(b) \notin commits
    /\ commits' = commits \cup {Snapshot(b)}
    /\ UNCHANGED <<now, stamped, markers, run>>

-----------------------------------------------------------------------------
(* read_committed_snapshot_manifests *)

Begin(r) ==
    /\ At(r, "idle")
    /\ Become(r, [Idle EXCEPT !.pc = "forgets", !.before = Hidden])
    /\ UNCHANGED <<now, stamped, commits, markers>>

(* read_forgotten_snapshot_ids: what was there when it began, and maybe more. *)
ListForgets(r) ==
    /\ At(r, "forgets")
    /\ \E late \in SUBSET (Hidden \ run[r].before) :
          Become(r, [run[r] EXCEPT !.pc = "commits",
                                   !.hidden = run[r].before \cup late,
                                   !.base = commits])
    /\ UNCHANGED <<now, stamped, commits, markers>>

(* Mutant of ListCommits: manifests are listed, committed or not. *)
ListManifests(r) ==
    /\ At(r, "commits")
    /\ Become(r, [run[r] EXCEPT
                    !.pc = "plan",
                    !.listed = {Snapshot(b) : b \in {b \in Backups : stamped[b] # Never}}
                               \ run[r].hidden])
    /\ UNCHANGED <<now, stamped, commits, markers>>

(* Every manifest that is not forgotten has to be readable. *)
ListCommits(r) ==
    /\ At(r, "commits")
    /\ \E late \in SUBSET (commits \ run[r].base) :
          LET listed == (run[r].base \cup late) \ run[r].hidden IN
          Become(r, IF \A s \in listed : s.readable
                    THEN [run[r] EXCEPT !.pc = "plan", !.listed = listed]
                    ELSE [Idle EXCEPT !.pc = "unreadable"])
    /\ UNCHANGED <<now, stamped, commits, markers>>

-----------------------------------------------------------------------------
(* The commands *)

(* snapshots, ls and restore have what they need; forget --dry-run reports
   its plan.  Neither writes anything. *)
Report(r) ==
    /\ At(r, "plan")
    /\ Become(r, [run[r] EXCEPT !.pc = "listed"])
    /\ UNCHANGED <<now, stamped, commits, markers>>

(* ForgetNoSnapshotsMatched *)
NoMatch(r) ==
    /\ At(r, "plan")
    /\ PlanForgotten(Policy[r], run[r].listed) = {}
    /\ Become(r, [run[r] EXCEPT !.pc = "no_match"])
    /\ UNCHANGED <<now, stamped, commits, markers>>

(* Mutant of Plan: keep-last keeps one snapshot too few. *)
PlanOneTooFew(r) ==
    /\ At(r, "plan")
    /\ LET planned == PlanForgotten([Policy[r] EXCEPT !.last = @ - 1], run[r].listed) IN
       /\ planned # {}
       /\ Become(r, [run[r] EXCEPT !.pc = "write", !.todo = planned, !.at = now])
    /\ UNCHANGED <<now, stamped, commits, markers>>

(* plan, and the entry of write_snapshot_forget_markers: one time for all. *)
Plan(r) ==
    /\ At(r, "plan")
    /\ LET planned == PlanForgotten(Policy[r], run[r].listed) IN
       /\ planned # {}
       /\ Become(r, [run[r] EXCEPT !.pc = "write", !.todo = planned, !.at = now])
    /\ UNCHANGED <<now, stamped, commits, markers>>

(* Mutant of WriteMarker: the loop ends at the first marker already present. *)
WriteMarkerStops(r, s) ==
    LET m == [snapshot |-> s, forgotten_at |-> run[r].at] IN
    /\ At(r, "write")
    /\ s \in run[r].todo /\ \A t \in run[r].todo : s.id <= t.id
    /\ markers' = IF s \in Hidden THEN markers ELSE markers \cup {m}
    /\ Become(r, [run[r] EXCEPT
                    !.todo = @ \ {s},
                    !.pc = IF s \in Hidden \/ run[r].todo = {s} THEN "done" ELSE "write"])
    /\ UNCHANGED <<now, stamped, commits>>

(* put_if_absent of the next marker; one with another time is a conflict. *)
WriteMarker(r, s) ==
    LET m == [snapshot |-> s, forgotten_at |-> run[r].at] IN
    /\ At(r, "write")
    /\ s \in run[r].todo /\ \A t \in run[r].todo : s.id <= t.id
    /\ markers' = IF s \in Hidden THEN markers ELSE markers \cup {m}
    /\ Become(r, IF s \in Hidden /\ m \notin markers
                 THEN [Idle EXCEPT !.pc = "conflict"]
                 ELSE [run[r] EXCEPT !.todo = @ \ {s},
                                     !.pc = IF run[r].todo = {s} THEN "done" ELSE "write"])
    /\ UNCHANGED <<now, stamped, commits>>

(* A store error, a signal or a crash. *)
Stop(r) ==
    /\ run[r].pc \in {"forgets", "commits", "plan", "write"}
    /\ Become(r, [Idle EXCEPT !.pc = "failed"])
    /\ UNCHANGED <<now, stamped, commits, markers>>

Next ==
    \/ \E t \in Instants : SetClock(t)
    \/ \E b \in Backups : Commit(b) \/ \E readable \in BOOLEAN : Stamp(b, readable)
    \/ \E r \in Runs :
         \/ Begin(r) \/ ListForgets(r) \/ ListCommits(r)
         \/ Report(r) \/ NoMatch(r) \/ Plan(r)
         \/ \E s \in run[r].todo : WriteMarker(r, s)
         \/ Stop(r)

Spec == Init /\ [][Next]_vars

-----------------------------------------------------------------------------
(* Properties *)

(***************************************************************************)
(* A hidden snapshot is one that the policy of some forget run does not    *)
(* keep, judged over everything committed by now and not over the listing  *)
(* the run planned with: backups that commit while a forget runs, in       *)
(* whatever order of their times, and other forgets never make a plan      *)
(* wrong after the fact.                                                   *)
(***************************************************************************)
ForgottenByPolicy ==
    \A s \in Hidden : \E r \in Runs : s \notin Kept(Policy[r], commits)

(***************************************************************************)
(* A listing never shows a stale newest snapshot: when a command is done,  *)
(* some snapshot it lists is at least as new as each that was committed    *)
(* before it listed commits/.  `restore latest` therefore never goes back  *)
(* from one run to the next, as long as every policy in use has a rule     *)
(* other than keep-tag.                                                    *)
(***************************************************************************)
LatestIsFresh ==
    (\A r \in Runs : HasCount(Policy[r])) =>
        \A r \in Runs : run[r].pc \in {"listed", "done"} =>
            \A s \in run[r].base : \E t \in run[r].listed : ~After(s, t)

(***************************************************************************)
(* When a forget is done and no backup has committed since it listed the   *)
(* commits, its policy is reached: planning again over what is visible     *)
(* forgets nothing, although other forgets may have hidden part of the     *)
(* plan, or more, in the meantime.                                         *)
(***************************************************************************)
ForgetReachesPolicy ==
    \A r \in Runs :
        /\ run[r].pc \in {"done", "no_match"}
        /\ commits = run[r].base
        => PlanForgotten(Policy[r], Visible) = {}

CatalogView == INSTANCE Catalog WITH
    Snapshots <- [id : Backups, created_at : Instants,
                  tags : {TagsOf[b] : b \in Backups}, readable : BOOLEAN],
    published <- commits,
    forgotten <- Hidden

(***************************************************************************)
(* Seen by its user, forgetting only hides published snapshots, one at a   *)
(* time; none comes back and none disappears from the repository.          *)
(***************************************************************************)
ImplementsCatalog == CatalogView!Spec
=============================================================================
