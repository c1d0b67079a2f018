---------------------------- MODULE ForgetProofs ----------------------------
(***************************************************************************)
(* Proofs about Forget, for any number of backups and of runs and any      *)
(* policies.  All of them rest on one fact about retention: a snapshot     *)
(* that is kept among more snapshots is kept among fewer (KeptAntitone).   *)
(* A run plans over a part of what is committed, and that only grows.      *)
(*                                                                         *)
(* Then proofs about RetentionLoop: the loops of the plan keep what the    *)
(* rules say, civil_from_days is the calendar, and the text of a policy    *)
(* says what its parts say.                                                *)
(***************************************************************************)
EXTENDS Forget, RetentionLoop, FiniteSetTheorems, FunctionTheorems,
        WellFoundedInduction, TLAPS

-----------------------------------------------------------------------------
(* Retention *)

IsPolicy(p) == p.last \in Nat /\ \A rule \in PeriodicRules : p[rule] \in Nat

(* Fewer snapshots, fewer newer ones. *)
LEMMA NewerShrinks ==
    ASSUME NEW S, NEW T, T \subseteq S, IsFiniteSet(S), NEW s
    PROVE  /\ Newer(T, s) \subseteq Newer(S, s)
           /\ IsFiniteSet(Newer(S, s))
           /\ IsFiniteSet(Newer(T, s))
           /\ Cardinality(Newer(T, s)) \in Nat
           /\ Cardinality(Newer(S, s)) \in Nat
           /\ Cardinality(Newer(T, s)) <= Cardinality(Newer(S, s))
  <1>1. Newer(T, s) \subseteq Newer(S, s) /\ Newer(S, s) \subseteq S
    BY DEF Newer
  <1>2. IsFiniteSet(Newer(S, s))
    BY <1>1, FS_Subset
  <1>3. /\ IsFiniteSet(Newer(T, s))
        /\ Cardinality(Newer(T, s)) <= Cardinality(Newer(S, s))
    BY <1>1, <1>2, FS_Subset
  <1>4. QED
    BY <1>1, <1>2, <1>3, FS_CardinalityType

(* The buckets of a finite set of snapshots are finitely many. *)
LEMMA BucketsFinite ==
    ASSUME NEW S, IsFiniteSet(S), NEW rule
    PROVE  IsFiniteSet(Buckets(rule, S))
  <1> DEFINE f == [s \in S |-> Bucket(rule, s.created_at)]
  <1>1. f \in Surjection(S, Buckets(rule, S))
    BY DEF Buckets, Surjection
  <1>2. QED
    BY <1>1, FS_Surjection

(* Fewer snapshots, fewer buckets in use before a snapshot is reached. *)
LEMMA BucketsShrink ==
    ASSUME NEW S, NEW T, T \subseteq S, IsFiniteSet(S), NEW s, NEW rule
    PROVE  /\ Buckets(rule, Newer(T, s)) \subseteq Buckets(rule, Newer(S, s))
           /\ Cardinality(Buckets(rule, Newer(T, s))) \in Nat
           /\ Cardinality(Buckets(rule, Newer(S, s))) \in Nat
           /\ Cardinality(Buckets(rule, Newer(T, s)))
                 <= Cardinality(Buckets(rule, Newer(S, s)))
  <1>1. Buckets(rule, Newer(T, s)) \subseteq Buckets(rule, Newer(S, s))
    BY NewerShrinks DEF Buckets
  <1>2. IsFiniteSet(Buckets(rule, Newer(S, s)))
    BY NewerShrinks, BucketsFinite
  <1>3. IsFiniteSet(Buckets(rule, Newer(T, s)))
    BY NewerShrinks, BucketsFinite
  <1>4. Cardinality(Buckets(rule, Newer(T, s)))
           <= Cardinality(Buckets(rule, Newer(S, s)))
    BY <1>1, <1>2, FS_Subset
  <1>5. QED
    BY <1>1, <1>2, <1>3, <1>4, FS_CardinalityType

(***************************************************************************)
(* RetentionPolicy::plan: a snapshot the policy keeps among S is kept in   *)
(* every plan over a part of S that contains it.                           *)
(***************************************************************************)
THEOREM KeptAntitone ==
    ASSUME NEW p, IsPolicy(p), NEW S, IsFiniteSet(S), NEW T, T \subseteq S
    PROVE  Kept(p, S) \cap T \subseteq Kept(p, T)
  <1> SUFFICES ASSUME NEW s \in T, s \in Kept(p, S)
               PROVE  s \in Kept(p, T)
    OBVIOUS
  <1>0. \/ s \in KeepLast(S, p.last)
        \/ s \in KeepTags(S, p.tags)
        \/ s \in UNION {KeepPeriodic(S, p[rule], rule) : rule \in PeriodicRules}
    BY DEF Kept
  <1>1. CASE s \in KeepLast(S, p.last)
    <2>1. s \in KeepLast(T, p.last)
      BY <1>1, NewerShrinks DEF KeepLast, IsPolicy
    <2>2. QED
      BY <2>1 DEF Kept
  <1>2. CASE s \in KeepTags(S, p.tags)
    BY <1>2 DEF Kept, KeepTags
  <1>3. CASE s \in UNION {KeepPeriodic(S, p[rule], rule) : rule \in PeriodicRules}
    <2>1. PICK rule \in PeriodicRules : s \in KeepPeriodic(S, p[rule], rule)
      BY <1>3
    <2>2. p[rule] \in Nat
      BY DEF IsPolicy
    <2>3. s \in KeepPeriodic(T, p[rule], rule)
      BY <2>1, <2>2, BucketsShrink DEF KeepPeriodic
    <2>4. QED
      BY <2>3 DEF Kept
  <1>4. QED
    BY <1>0, <1>1, <1>2, <1>3

(* A non-empty finite set of snapshots has a newest one. *)
LEMMA NewestExists ==
    ASSUME NEW S, IsFiniteSet(S), S # {},
           \A s \in S : s.created_at \in Nat /\ s.id \in Nat
    PROVE  \E n \in S : Newer(S, n) = {}
  <1> DEFINE Counts == {Cardinality(Newer(S, s)) : s \in S}
  <1>1. \A s \in S : IsFiniteSet(Newer(S, s)) /\ Cardinality(Newer(S, s)) \in Nat
    BY NewerShrinks
  <1>2. Counts \subseteq Nat /\ Counts # {}
    BY <1>1
  <1>3. PICK k \in Counts : \A j \in Counts : <<j, k>> \notin OpToRel(<, Nat)
    <2> HIDE DEF Counts
    <2>1. QED
      BY <1>2, NatLessThanWellFounded, WFMin
  <1>4. \A j \in Counts : ~(j < k)
    BY <1>2, <1>3 DEF OpToRel
  <1>5. PICK n \in S : k = Cardinality(Newer(S, n))
    OBVIOUS
  <1>6. ASSUME NEW t \in Newer(S, n) PROVE FALSE
    <2>1. t \in S /\ t \notin Newer(S, t)
      BY DEF Newer, After
    <2>2. Newer(S, t) \subseteq Newer(S, n) \ {t}
      BY <2>1 DEF Newer, After
    <2>3. /\ IsFiniteSet(Newer(S, n) \ {t})
          /\ Cardinality(Newer(S, n) \ {t}) = Cardinality(Newer(S, n)) - 1
      BY <1>1, FS_RemoveElement
    <2>4. Cardinality(Newer(S, t)) <= Cardinality(Newer(S, n) \ {t})
      BY <2>2, <2>3, FS_Subset
    <2>5. Cardinality(Newer(S, t)) \in Counts
      BY <2>1
    <2>6. Cardinality(Newer(S, t)) \in Nat /\ Cardinality(Newer(S, n)) \in Nat
      BY <1>1, <2>1
    <2> HIDE DEF Counts
    <2>7. QED
      BY <1>4, <1>5, <2>3, <2>4, <2>5, <2>6
  <1>7. QED
    BY <1>6

(* A policy with a count keeps the newest snapshot. *)
LEMMA NewestKept ==
    ASSUME NEW p, IsPolicy(p), HasCount(p), NEW S, NEW n \in S, Newer(S, n) = {}
    PROVE  n \in Kept(p, S)
  <1>1. CASE p.last > 0
    <2>1. n \in KeepLast(S, p.last)
      BY <1>1, FS_EmptySet DEF KeepLast, IsPolicy
    <2>2. QED
      BY <2>1 DEF Kept
  <1>2. CASE \E rule \in PeriodicRules : p[rule] > 0
    <2>1. PICK rule \in PeriodicRules : p[rule] > 0
      BY <1>2
    <2>2. Buckets(rule, Newer(S, n)) = {}
      BY DEF Buckets
    <2>3. n \in KeepPeriodic(S, p[rule], rule)
      BY <2>1, <2>2, FS_EmptySet DEF KeepPeriodic
    <2>4. QED
      BY <2>3 DEF Kept
  <1>3. QED
    BY <1>1, <1>2 DEF HasCount

-----------------------------------------------------------------------------
(* The inductive invariant; u is the local state of run r, c the committed
   snapshots and h the hidden ones *)

AllCount == \A r \in Runs : HasCount(Policy[r])

RunState(c) ==
    [pc : RunPc, before : SUBSET c, hidden : SUBSET c, base : SUBSET c,
     listed : SUBSET c, todo : SUBSET c, at : Instants \cup {Never}]

RunOK(r, u, c, h) ==
    /\ u \in RunState(c)
    /\ u.before \cup u.hidden \subseteq h
    /\ u.pc \in {"plan", "write", "listed", "done", "no_match"} =>
          u.base \ u.hidden \subseteq u.listed
    /\ AllCount /\ u.pc \in {"commits", "plan", "write", "listed", "done", "no_match"} =>
          \A s \in u.base : \E t \in u.base \ u.hidden : ~After(s, t)
    /\ u.todo \subseteq u.listed
    /\ u.todo # {} => u.todo \subseteq PlanForgotten(Policy[r], u.listed)
    /\ u.pc = "write" => u.at \in Instants
    /\ u.pc \in {"write", "done"} =>
          PlanForgotten(Policy[r], u.listed) \subseteq u.todo \cup h
    /\ u.pc # "write" => u.todo = {}
    /\ u.pc = "no_match" => PlanForgotten(Policy[r], u.listed) = {}

Stamped == [created_at : Instants, readable : BOOLEAN]

Inv ==
    /\ now \in Instants
    /\ stamped \in [Backups -> Stamped \cup {Never}]
    /\ commits \subseteq {Snapshot(b) : b \in {b \in Backups : stamped[b] # Never}}
    /\ IsFiniteSet(commits)
    /\ Hidden \subseteq commits
    /\ \A m \in markers : m.forgotten_at \in Instants
    /\ \A s \in Hidden : \E r \in Runs : s \notin Kept(Policy[r], commits)
    /\ DOMAIN run = Runs
    /\ \A r \in Runs : RunOK(r, run[r], commits, Hidden)

-----------------------------------------------------------------------------
(* Steps *)

(* What holds of a run still holds when more is committed and more is hidden. *)
LEMMA RunOKGrows ==
    ASSUME NEW r, NEW u, NEW c, NEW h, NEW d, NEW g,
           RunOK(r, u, c, h), c \subseteq d, h \subseteq g
    PROVE  RunOK(r, u, d, g)
  BY DEF RunOK, RunState

(* A run that has not begun, or has given up, has listed and planned nothing. *)
LEMMA IdleOK ==
    ASSUME NEW r, NEW pc \in {"idle", "unreadable", "conflict", "failed"}, NEW c, NEW h
    PROVE  RunOK(r, [Idle EXCEPT !.pc = pc], c, h)
  BY DEF RunOK, RunState, Idle, RunPc

(* A step of one run that writes nothing. *)
LEMMA LocalStep ==
    ASSUME Inv, NEW r \in Runs, NEW v,
           RunOK(r, v, commits, Hidden),
           Become(r, v),
           UNCHANGED <<now, stamped, commits, markers>>
    PROVE  Inv'
  <1>1. Hidden' = Hidden
    BY DEF Hidden
  <1>2. \A b \in Backups : Snapshot(b)' = Snapshot(b)
    BY DEF Snapshot
  <1>3. DOMAIN run' = Runs /\ \A q \in Runs : run'[q] = IF q = r THEN v ELSE run[q]
    BY DEF Become, Inv
  <1>4. \A q \in Runs : RunOK(q, run'[q], commits', Hidden')
    BY <1>1, <1>3 DEF Inv
  <1>5. commits' \subseteq {Snapshot(b)' : b \in {b \in Backups : stamped'[b] # Never}}
    BY <1>2 DEF Inv
  <1>6. QED
    BY <1>1, <1>3, <1>4, <1>5 DEF Inv

(* When all policies have a count, the newest committed snapshot is visible. *)
LEMMA NewestVisible ==
    ASSUME Inv, AllCount, commits # {}
    PROVE  \E n \in commits \ Hidden : Newer(commits, n) = {}
  <1>1. \A s \in commits : s.created_at \in Nat /\ s.id \in Nat
    <2> SUFFICES ASSUME NEW s \in commits PROVE s.created_at \in Nat /\ s.id \in Nat
      OBVIOUS
    <2>1. PICK b \in Backups : stamped[b] # Never /\ s = Snapshot(b)
      BY DEF Inv
    <2>2. stamped[b] \in Stamped
      BY <2>1 DEF Inv
    <2>3. QED
      BY <2>1, <2>2, ForgetAssumption DEF Snapshot, Stamped
  <1>2. PICK n \in commits : Newer(commits, n) = {}
    BY <1>1, NewestExists DEF Inv
  <1>3. \A r \in Runs : n \in Kept(Policy[r], commits)
    BY <1>2, NewestKept, ForgetAssumption DEF AllCount, IsPolicy
  <1>4. QED
    BY <1>2, <1>3 DEF Inv

(* The invariant holds of a repository without snapshots. *)
LEMMA InitInv == Init => Inv
  <1> SUFFICES ASSUME Init PROVE Inv
    OBVIOUS
  <1>1. Hidden = {}
    BY DEF Init, Hidden
  <1>2. \A r \in Runs : RunOK(r, run[r], commits, Hidden)
    BY DEF Init, RunOK, RunState, Idle, RunPc
  <1>3. IsFiniteSet(commits)
    BY FS_EmptySet DEF Init
  <1>4. QED
    BY <1>1, <1>2, <1>3 DEF Init, Inv

(* The clock may be set to any instant, back too. *)
LEMMA SetClockInv == ASSUME Inv, NEW t \in Instants, SetClock(t) PROVE Inv'
  <1>1. Hidden' = Hidden
    BY DEF Hidden, SetClock
  <1>2. \A b \in Backups : Snapshot(b)' = Snapshot(b)
    BY DEF Snapshot, SetClock
  <1>3. commits' \subseteq {Snapshot(b)' : b \in {b \in Backups : stamped'[b] # Never}}
    BY <1>2 DEF Inv, SetClock
  <1>4. QED
    BY <1>1, <1>3 DEF Inv, SetClock

(* A backup builds its manifest: its snapshot now has a time. *)
LEMMA StampInv ==
    ASSUME Inv, NEW b \in Backups, NEW readable \in BOOLEAN, Stamp(b, readable)
    PROVE  Inv'
  <1>1. Hidden' = Hidden
    BY DEF Hidden, Stamp
  <1>2. stamped' \in [Backups -> Stamped \cup {Never}]
    BY DEF Stamp, Inv, Stamped
  <1>3. \A d \in Backups : stamped[d] # Never =>
           stamped'[d] = stamped[d] /\ Snapshot(d)' = Snapshot(d)
    BY DEF Stamp, Inv, Snapshot
  <1>4. commits' \subseteq {Snapshot(d)' : d \in {d \in Backups : stamped'[d] # Never}}
    BY <1>3 DEF Inv, Stamp
  <1>5. QED
    BY <1>1, <1>2, <1>4 DEF Inv, Stamp

(* Only here the kept set changes, and KeptAntitone says how. *)
LEMMA CommitInv == ASSUME Inv, NEW b \in Backups, Commit(b) PROVE Inv'
  <1>1. Hidden' = Hidden
    BY DEF Hidden, Commit
  <1>2. \A d \in Backups : Snapshot(d)' = Snapshot(d)
    BY DEF Snapshot, Commit
  <1>3. commits' \subseteq {Snapshot(d)' : d \in {d \in Backups : stamped'[d] # Never}}
    BY <1>2 DEF Inv, Commit
  <1>4. IsFiniteSet(commits')
    BY FS_AddElement DEF Inv, Commit
  <1>5. commits \subseteq commits'
    BY DEF Commit
  <1>6. \A s \in Hidden' : \E r \in Runs : s \notin Kept(Policy[r], commits')
    <2> SUFFICES ASSUME NEW s \in Hidden
                 PROVE  \E r \in Runs : s \notin Kept(Policy[r], commits')
      BY <1>1
    <2>1. PICK r \in Runs : s \notin Kept(Policy[r], commits)
      BY DEF Inv
    <2>2. IsPolicy(Policy[r])
      BY ForgetAssumption DEF IsPolicy
    <2>3. Kept(Policy[r], commits') \cap commits \subseteq Kept(Policy[r], commits)
      BY <1>4, <1>5, <2>2, KeptAntitone
    <2>4. s \in commits
      BY DEF Inv
    <2>5. QED
      BY <2>1, <2>3, <2>4
  <1>7. \A r \in Runs : RunOK(r, run'[r], commits', Hidden')
    BY <1>1, <1>5, RunOKGrows DEF Inv, Commit
  <1>8. QED
    BY <1>1, <1>3, <1>4, <1>5, <1>6, <1>7 DEF Inv, Commit

(* A run begins: what is hidden by now it will see as hidden. *)
LEMMA BeginInv == ASSUME Inv, NEW r \in Runs, Begin(r) PROVE Inv'
  <1> DEFINE v == [Idle EXCEPT !.pc = "forgets", !.before = Hidden]
  <1>1. RunOK(r, v, commits, Hidden)
    BY DEF Inv, RunOK, RunState, Idle, RunPc
  <1>2. QED
    BY <1>1, LocalStep DEF Begin

(* read_forgotten_snapshot_ids: a listing that may miss what is added meanwhile. *)
LEMMA ListForgetsInv == ASSUME Inv, NEW r \in Runs, ListForgets(r) PROVE Inv'
  <1>1. PICK late \in SUBSET (Hidden \ run[r].before) :
           Become(r, [run[r] EXCEPT !.pc = "commits",
                                    !.hidden = run[r].before \cup late,
                                    !.base = commits])
    BY DEF ListForgets
  <1> DEFINE v == [run[r] EXCEPT !.pc = "commits",
                                 !.hidden = run[r].before \cup late,
                                 !.base = commits]
  <1>2. RunOK(r, run[r], commits, Hidden) /\ run[r].pc = "forgets"
    BY DEF Inv, ListForgets, At
  <1>3. ASSUME AllCount, NEW s \in commits
        PROVE  \E t \in commits \ (run[r].before \cup late) : ~After(s, t)
    <2>1. PICK n \in commits \ Hidden : Newer(commits, n) = {}
      BY <1>3, NewestVisible
    <2>2. run[r].before \cup late \subseteq Hidden
      BY <1>2 DEF RunOK
    <2>3. QED
      BY <2>1, <2>2 DEF Newer
  <1>4. RunOK(r, v, commits, Hidden)
    BY <1>2, <1>3 DEF Inv, RunOK, RunState, RunPc
  <1>5. QED
    BY <1>1, <1>4, LocalStep DEF ListForgets

(* The commit markers are listed and the manifests of the visible ones read. *)
LEMMA ListCommitsInv == ASSUME Inv, NEW r \in Runs, ListCommits(r) PROVE Inv'
  <1>1. PICK late \in SUBSET (commits \ run[r].base) :
           LET listed == (run[r].base \cup late) \ run[r].hidden IN
           Become(r, IF \A s \in listed : s.readable
                     THEN [run[r] EXCEPT !.pc = "plan", !.listed = listed]
                     ELSE [Idle EXCEPT !.pc = "unreadable"])
    BY DEF ListCommits
  <1> DEFINE listed == (run[r].base \cup late) \ run[r].hidden
             v == [run[r] EXCEPT !.pc = "plan", !.listed = listed]
  <1>2. RunOK(r, run[r], commits, Hidden) /\ run[r].pc = "commits"
    BY DEF Inv, ListCommits, At
  <1>3. CASE \A s \in listed : s.readable
    <2>1. RunOK(r, v, commits, Hidden)
      BY <1>2 DEF RunOK, RunState, RunPc
    <2>2. QED
      BY <1>1, <1>3, <2>1, LocalStep DEF ListCommits
  <1>4. CASE ~(\A s \in listed : s.readable)
    <2>1. Become(r, [Idle EXCEPT !.pc = "unreadable"])
      BY <1>1, <1>4
    <2>2. QED
      BY <2>1, IdleOK, LocalStep DEF ListCommits
  <1>5. QED
    BY <1>3, <1>4

(* A listing command, or a dry run, reports and ends. *)
LEMMA ReportInv == ASSUME Inv, NEW r \in Runs, Report(r) PROVE Inv'
  <1> DEFINE v == [run[r] EXCEPT !.pc = "listed"]
  <1>1. RunOK(r, run[r], commits, Hidden) /\ run[r].pc = "plan"
    BY DEF Inv, Report, At
  <1>2. RunOK(r, v, commits, Hidden)
    BY <1>1 DEF RunOK, RunState, RunPc
  <1>3. QED
    BY <1>2, LocalStep DEF Report

(* A forget with nothing to forget ends. *)
LEMMA NoMatchInv == ASSUME Inv, NEW r \in Runs, NoMatch(r) PROVE Inv'
  <1> DEFINE v == [run[r] EXCEPT !.pc = "no_match"]
  <1>1. RunOK(r, run[r], commits, Hidden) /\ run[r].pc = "plan"
    BY DEF Inv, NoMatch, At
  <1>2. RunOK(r, v, commits, Hidden)
    BY <1>1 DEF RunOK, RunState, RunPc, NoMatch
  <1>3. QED
    BY <1>2, LocalStep DEF NoMatch

(* A forget plans over the snapshots it has listed. *)
LEMMA PlanInv == ASSUME Inv, NEW r \in Runs, Plan(r) PROVE Inv'
  <1> DEFINE planned == PlanForgotten(Policy[r], run[r].listed)
             v == [run[r] EXCEPT !.pc = "write", !.todo = planned, !.at = now]
  <1>1. RunOK(r, run[r], commits, Hidden) /\ run[r].pc = "plan"
    BY DEF Inv, Plan, At
  <1>2. planned \subseteq run[r].listed
    BY DEF PlanForgotten
  <1>3. now \in Instants
    BY DEF Inv
  <1>4. RunOK(r, v, commits, Hidden)
    BY <1>1, <1>2, <1>3 DEF RunOK, RunState, RunPc
  <1>5. QED
    BY <1>4, LocalStep DEF Plan

(* A run ends with an error or a crash; its markers stay. *)
LEMMA StopInv == ASSUME Inv, NEW r \in Runs, Stop(r) PROVE Inv'
  BY IdleOK, LocalStep DEF Stop

(* The one step that hides a snapshot: it was planned over a part of commits. *)
LEMMA WriteMarkerInv ==
    ASSUME Inv, NEW r \in Runs, NEW s \in run[r].todo, WriteMarker(r, s)
    PROVE  Inv'
  <1> DEFINE m == [snapshot |-> s, forgotten_at |-> run[r].at]
             v == IF s \in Hidden /\ m \notin markers
                  THEN [Idle EXCEPT !.pc = "conflict"]
                  ELSE [run[r] EXCEPT !.todo = @ \ {s},
                                      !.pc = IF run[r].todo = {s} THEN "done" ELSE "write"]
  <1>1. /\ RunOK(r, run[r], commits, Hidden)
        /\ run[r].pc = "write"
        /\ UNCHANGED <<now, stamped, commits>>
        /\ markers' = IF s \in Hidden THEN markers ELSE markers \cup {m}
        /\ run' = [run EXCEPT ![r] = v]
    BY DEF Inv, WriteMarker, At, Become
  <1>2. Hidden' = Hidden \cup {s}
    BY <1>1 DEF Hidden
  <1>3. /\ s \in commits
        /\ s \in PlanForgotten(Policy[r], run[r].listed)
        /\ run[r].listed \subseteq commits
        /\ run[r].at \in Instants
    BY <1>1 DEF RunOK, RunState
  <1>4. s \notin Kept(Policy[r], commits)
    <2>1. IsPolicy(Policy[r])
      BY <1>3, ForgetAssumption DEF IsPolicy
    <2>2. Kept(Policy[r], commits) \cap run[r].listed \subseteq Kept(Policy[r], run[r].listed)
      BY <1>3, <2>1, KeptAntitone DEF Inv
    <2>3. QED
      BY <1>3, <2>2 DEF PlanForgotten
  <1>5. RunOK(r, v, commits, Hidden \cup {s})
    <2>1. CASE s \in Hidden /\ m \notin markers
      BY <2>1, IdleOK
    <2>2. CASE ~(s \in Hidden /\ m \notin markers)
      BY <1>1, <2>2 DEF RunOK, RunState, RunPc
    <2>3. QED
      BY <2>1, <2>2
  <1>6. \A q \in Runs : RunOK(q, run'[q], commits', Hidden')
    BY <1>1, <1>2, <1>5, RunOKGrows DEF Inv
  <1>7. \A q \in markers' : q.forgotten_at \in Instants
    BY <1>1, <1>3 DEF Inv
  <1>8. \A b \in Backups : Snapshot(b)' = Snapshot(b)
    BY <1>1 DEF Snapshot
  <1>9. commits' \subseteq {Snapshot(b)' : b \in {b \in Backups : stamped'[b] # Never}}
    BY <1>1, <1>8 DEF Inv
  <1>10. \A t \in Hidden' : \E q \in Runs : t \notin Kept(Policy[q], commits')
    BY <1>1, <1>2, <1>3, <1>4 DEF Inv
  <1>11. now' \in Instants /\ stamped' \in [Backups -> Stamped \cup {Never}]
         /\ IsFiniteSet(commits') /\ DOMAIN run' = Runs
    BY <1>1 DEF Inv
  <1>12. Hidden' \subseteq commits'
    BY <1>1, <1>2, <1>3 DEF Inv
  <1>13. QED
    BY <1>6, <1>7, <1>9, <1>10, <1>11, <1>12 DEF Inv

(* A step that changes nothing keeps the invariant. *)
LEMMA StutterInv == ASSUME Inv, UNCHANGED vars PROVE Inv'
  <1>1. Hidden' = Hidden /\ \A b \in Backups : Snapshot(b)' = Snapshot(b)
    BY DEF Hidden, Snapshot, vars
  <1>2. commits' \subseteq {Snapshot(b)' : b \in {b \in Backups : stamped'[b] # Never}}
    BY <1>1 DEF Inv, vars
  <1>3. QED
    BY <1>1, <1>2 DEF Inv, vars

(* Every step keeps the invariant: one case per action. *)
LEMMA NextInv == Inv /\ [Next]_vars => Inv'
  <1> SUFFICES ASSUME Inv, [Next]_vars PROVE Inv'
    OBVIOUS
  <1>1. CASE UNCHANGED vars
    BY <1>1, StutterInv
  <1>2. ASSUME NEW t \in Instants, SetClock(t) PROVE Inv'
    BY <1>2, SetClockInv
  <1>3. ASSUME NEW b \in Backups, Commit(b) PROVE Inv'
    BY <1>3, CommitInv
  <1>4. ASSUME NEW b \in Backups, NEW readable \in BOOLEAN, Stamp(b, readable) PROVE Inv'
    BY <1>4, StampInv
  <1>5. ASSUME NEW r \in Runs,
               Begin(r) \/ ListForgets(r) \/ ListCommits(r) \/ Report(r) \/ NoMatch(r)
               \/ Plan(r) \/ Stop(r)
        PROVE  Inv'
    BY <1>5, BeginInv, ListForgetsInv, ListCommitsInv, ReportInv, NoMatchInv, PlanInv,
       StopInv
  <1>6. ASSUME NEW r \in Runs, NEW s \in run[r].todo, WriteMarker(r, s) PROVE Inv'
    BY <1>6, WriteMarkerInv
  <1>7. QED
    BY <1>1, <1>2, <1>3, <1>4, <1>5, <1>6 DEF Next

(* Inv is an invariant of Forget. *)
THEOREM InvAlways == Spec => []Inv
  BY InitInv, NextInv, PTL DEF Spec

-----------------------------------------------------------------------------
(* What follows *)

(* The fields of every record, and what is hidden was committed. *)
THEOREM TypeCorrect == Spec => []TypeOK
  <1>1. Inv => TypeOK
    BY DEF Inv, TypeOK, RunOK, RunState, Stamped
  <1>2. QED
    BY <1>1, InvAlways, PTL

(***************************************************************************)
(* write_snapshot_forget_markers hides only what some policy does not      *)
(* keep, judged over all that has been committed by now.                   *)
(***************************************************************************)
THEOREM ForgetsFollowPolicies == Spec => []ForgottenByPolicy
  <1>1. Inv => ForgottenByPolicy
    BY DEF Inv, ForgottenByPolicy
  <1>2. QED
    BY <1>1, InvAlways, PTL

(***************************************************************************)
(* A forget that has ended well has reached its policy, unless a backup    *)
(* has committed since it listed commits/.                                 *)
(***************************************************************************)
THEOREM ForgetsReachPolicies == Spec => []ForgetReachesPolicy
  <1>1. Inv => ForgetReachesPolicy
    <2> SUFFICES ASSUME Inv, NEW r \in Runs,
                        run[r].pc \in {"done", "no_match"},
                        commits = run[r].base
                 PROVE  PlanForgotten(Policy[r], Visible) = {}
      BY DEF ForgetReachesPolicy
    <2>1. r \in Runs /\ IsPolicy(Policy[r])
      BY ForgetAssumption DEF IsPolicy
    <2>2. RunOK(r, run[r], commits, Hidden)
      BY <2>1 DEF Inv
    <2>3. Visible \subseteq run[r].listed /\ run[r].listed \subseteq commits
      BY <2>2 DEF RunOK, RunState, Visible
    <2>4. PlanForgotten(Policy[r], run[r].listed) \subseteq Hidden
      BY <2>2 DEF RunOK
    <2>5. Visible \subseteq Kept(Policy[r], run[r].listed)
      BY <2>3, <2>4 DEF PlanForgotten, Visible
    <2>6. IsFiniteSet(run[r].listed)
      BY <2>3, FS_Subset DEF Inv
    <2>7. Kept(Policy[r], run[r].listed) \cap Visible \subseteq Kept(Policy[r], Visible)
      BY <2>1, <2>3, <2>6, KeptAntitone
    <2>8. QED
      BY <2>5, <2>7 DEF PlanForgotten
  <1>2. QED
    BY <1>1, InvAlways, PTL

(***************************************************************************)
(* A listing command shows a snapshot as new as any committed before it    *)
(* listed commits/, if all policies in use have a count.                   *)
(***************************************************************************)
THEOREM ListingsAreFresh == Spec => []LatestIsFresh
  <1>1. Inv => LatestIsFresh
    BY DEF Inv, RunOK, LatestIsFresh, At, AllCount
  <1>2. QED
    BY <1>1, InvAlways, PTL

-----------------------------------------------------------------------------
(* Refinement *)

(* A step that leaves commits and markers alone is not seen in the catalog. *)
LEMMA Unseen ==
    ASSUME UNCHANGED <<commits, markers>>
    PROVE  UNCHANGED CatalogView!vars
  BY DEF CatalogView!vars, Hidden

(* A commit is a Publish of the catalog. *)
LEMMA CommitPublishes ==
    ASSUME Inv, NEW b \in Backups, Commit(b)
    PROVE  CatalogView!Publish
  <1>1. Snapshot(b) \in [id : Backups, created_at : Instants,
                         tags : {TagsOf[d] : d \in Backups}, readable : BOOLEAN]
    <2>1. stamped[b] \in Stamped
      BY DEF Inv, Commit
    <2>2. QED
      BY <2>1 DEF Snapshot, Stamped
  <1>2. Hidden' = Hidden
    BY DEF Commit, Hidden
  <1>3. QED
    BY <1>1, <1>2 DEF Commit, CatalogView!Publish

(* A marker is a Hide of the catalog, or changes nothing a user sees. *)
LEMMA MarkerHides ==
    ASSUME Inv, NEW r \in Runs, NEW s \in run[r].todo, WriteMarker(r, s)
    PROVE  s \in commits /\ CatalogView!Hide(s)
  <1>1. s \in commits
    BY DEF Inv, RunOK, RunState
  <1>2. Hidden' = Hidden \cup {s} /\ commits' = commits
    BY DEF WriteMarker, Hidden
  <1>3. QED
    BY <1>1, <1>2 DEF CatalogView!Hide

(***************************************************************************)
(* Forget implements Catalog: a commit publishes a snapshot, a marker      *)
(* hides one that is published, and no other step is seen.                 *)
(***************************************************************************)
THEOREM ForgetImplementsCatalog == Spec => ImplementsCatalog
  <1>1. Init => CatalogView!Init
    BY DEF Init, CatalogView!Init, Hidden
  <1>2. Inv /\ [Next]_vars => [CatalogView!Next]_(CatalogView!vars)
    <2> SUFFICES ASSUME Inv, [Next]_vars
                 PROVE  CatalogView!Next \/ UNCHANGED CatalogView!vars
      OBVIOUS
    <2>1. CASE UNCHANGED <<commits, markers>>
      BY <2>1, Unseen
    <2>2. ASSUME NEW b \in Backups, Commit(b) PROVE CatalogView!Next
      BY <2>2, CommitPublishes DEF CatalogView!Next
    <2>3. ASSUME NEW r \in Runs, NEW s \in run[r].todo, WriteMarker(r, s)
          PROVE  CatalogView!Next
      BY <2>3, MarkerHides DEF CatalogView!Next
    <2>4. QED
      BY <2>1, <2>2, <2>3
         DEF Next, vars, SetClock, Stamp, Begin, ListForgets, ListCommits, Report,
             NoMatch, Plan, Stop
  <1>3. QED
    BY <1>1, <1>2, InvAlways, PTL DEF Spec, ImplementsCatalog, CatalogView!Spec

-----------------------------------------------------------------------------
(* The loops of the plan *)

(* What one rule keeps. *)
ByRule(rule) ==
    CASE rule = "last" -> KeepLast(snapshots, policy.last)
      [] rule = "tags" -> KeepTags(snapshots, policy.tags)
      [] OTHER -> KeepPeriodic(snapshots, policy[rule], rule)

ByRulesBefore(n) == UNION {ByRule(RuleOrder[i]) : i \in 1..(n - 1)}

LoopType ==
    /\ policy \in Policies \cup {NoPolicy}
    /\ snapshots \subseteq [id : Ids, created_at : Times, tags : TagSets]
    /\ IsFiniteSet(snapshots)
    /\ \A s, t \in snapshots : s.id = t.id => s = t
    /\ plan = [at |-> plan.at, left |-> plan.left, kept_buckets |-> plan.kept_buckets,
               kept |-> plan.kept]
    /\ plan.at \in 0..8 /\ plan.left \subseteq snapshots
    /\ policy = NoPolicy => plan.at = 0

(* The snapshots a loop has passed are newer than those left, and what it
   keeps of them is what the rule keeps of them. *)
Passing ==
    /\ \A s \in plan.left, t \in snapshots \ plan.left : After(t, s)
    /\ CurrentRule \in PeriodicRules =>
          plan.kept_buckets = Buckets(CurrentRule, snapshots \ plan.left)
    /\ plan.kept = ByRulesBefore(plan.at) \cup (ByRule(CurrentRule) \ plan.left)

LoopInv ==
    /\ LoopType
    /\ plan.at = 0 => plan.kept = {} /\ plan.left = {}
    /\ plan.at \in 1..7 => Passing
    /\ plan.at = 8 => plan.kept = ByRulesBefore(8)

LEMMA RuleNames ==
    /\ DOMAIN RuleOrder = 1..7 /\ Len(RuleOrder) = 7
    /\ \A n \in 1..7 : RuleOrder[n] \in {"last", "tags"} \cup PeriodicRules
    /\ {RuleOrder[n] : n \in 1..7} = {"last", "tags"} \cup PeriodicRules
    /\ "last" \notin PeriodicRules /\ "tags" \notin PeriodicRules
  BY DEF RuleOrder, PeriodicRules

(* Where a loop is, the snapshots newer than the next are those it has passed. *)
LEMMA NewerArePassed ==
    ASSUME NEW S, NEW left, left \subseteq S, NEW s \in left, Newer(left, s) = {},
           \A u \in left, t \in S \ left : After(t, u)
    PROVE  Newer(S, s) = S \ left
  BY DEF Newer

(* Of those left, every one that is passed now is newer than the rest. *)
LEMMA NextIsNewer ==
    ASSUME LoopType, NEW s \in plan.left, Newer(plan.left, s) = {},
           NEW t \in plan.left, t # s
    PROVE  After(s, t)
  <1>1. s \in snapshots /\ t \in snapshots
    BY DEF LoopType
  <1>2. /\ s.id \in Nat /\ t.id \in Nat /\ s.id # t.id
        /\ s.created_at \in Nat /\ t.created_at \in Nat
    BY <1>1, RetentionLoopAssumption DEF LoopType
  <1>3. ~After(t, s)
    BY DEF Newer
  <1> QED BY <1>2, <1>3 DEF After

(* The counts of a policy in use. *)
LEMMA Counts ==
    ASSUME LoopType, plan.at # 0
    PROVE  policy.last \in Nat /\ \A rule \in PeriodicRules : policy[rule] \in Nat
  BY RetentionLoopAssumption DEF LoopType, CountRules

(* keep_reason is called for the next snapshot when the rule keeps it. *)
LEMMA KeepsByRule ==
    ASSUME LoopType, plan.at \in 1..7, Passing, ~Enough,
           NEW s \in plan.left, Newer(plan.left, s) = {}
    PROVE  s \in ByRule(CurrentRule) <=> Keeps(s)
  <1> DEFINE passed == snapshots \ plan.left
  <1>1. Newer(snapshots, s) = passed
    BY NewerArePassed DEF LoopType, Passing
  <1>2. IsFiniteSet(passed) /\ Cardinality(passed) \in Nat /\ s \in snapshots
    BY FS_Subset, FS_CardinalityType DEF LoopType
  <1>3. CASE CurrentRule = "last"
    BY <1>1, <1>2, <1>3, Counts DEF ByRule, KeepLast, Keeps, Enough
  <1>4. CASE CurrentRule = "tags"
    BY <1>2, <1>4 DEF ByRule, KeepTags, Keeps
  <1>5. CASE CurrentRule \in PeriodicRules
    <2>1. CurrentRule # "last" /\ CurrentRule # "tags"
      BY <1>5, RuleNames
    <2>2. plan.kept_buckets = Buckets(CurrentRule, passed)
      BY <1>5 DEF Passing
    <2>3. Cardinality(plan.kept_buckets) \in Nat
      BY <1>2, <2>2, BucketsFinite, FS_CardinalityType
    <2>4. Cardinality(plan.kept_buckets) < policy[CurrentRule]
      BY <1>5, <2>1, <2>3, Counts DEF Enough
    <2> QED BY <1>1, <1>2, <2>1, <2>2, <2>4 DEF ByRule, KeepPeriodic, Keeps
  <1> QED BY <1>3, <1>4, <1>5, RuleNames DEF CurrentRule

(* Where a loop breaks, the rule keeps none of those left. *)
LEMMA NoneLeft ==
    ASSUME LoopType, plan.at \in 1..7, Passing, Enough, NEW s \in plan.left
    PROVE  s \notin ByRule(CurrentRule)
  <1> DEFINE passed == snapshots \ plan.left
  <1>1. passed \subseteq Newer(snapshots, s)
    BY DEF LoopType, Passing, Newer
  <1>2. /\ IsFiniteSet(snapshots) /\ IsFiniteSet(Newer(snapshots, s))
        /\ Cardinality(Newer(snapshots, s)) \in Nat
    BY NewerShrinks DEF LoopType
  <1>3. CASE CurrentRule = "last"
    <2>1. /\ Cardinality(passed) \in Nat
          /\ Cardinality(passed) <= Cardinality(Newer(snapshots, s))
      BY <1>1, <1>2, FS_Subset, FS_CardinalityType
    <2> QED BY <1>2, <1>3, <2>1, Counts DEF ByRule, KeepLast, Enough
  <1>4. CASE CurrentRule = "tags"
    BY <1>4 DEF Enough
  <1>5. CASE CurrentRule \in PeriodicRules
    <2>1. CurrentRule # "last" /\ CurrentRule # "tags"
      BY <1>5, RuleNames
    <2>2. plan.kept_buckets = Buckets(CurrentRule, passed)
      BY <1>5 DEF Passing
    <2>3. plan.kept_buckets \subseteq Buckets(CurrentRule, Newer(snapshots, s))
      BY <1>1, <2>2 DEF Buckets
    <2>4. IsFiniteSet(Buckets(CurrentRule, Newer(snapshots, s)))
      BY <1>2, BucketsFinite
    <2>5. /\ Cardinality(plan.kept_buckets) \in Nat
          /\ Cardinality(Buckets(CurrentRule, Newer(snapshots, s))) \in Nat
          /\ Cardinality(plan.kept_buckets)
                <= Cardinality(Buckets(CurrentRule, Newer(snapshots, s)))
      BY <2>3, <2>4, FS_Subset, FS_CardinalityType
    <2>6. Cardinality(plan.kept_buckets) >= policy[CurrentRule]
      BY <2>1 DEF Enough
    <2> QED BY <1>5, <2>1, <2>5, <2>6, Counts DEF ByRule, KeepPeriodic
  <1> QED BY <1>3, <1>4, <1>5, RuleNames DEF CurrentRule

LEMMA ByRulesNone == ByRulesBefore(1) = {}
  <1>1. 1..(1 - 1) = {}
    OBVIOUS
  <1> QED BY <1>1 DEF ByRulesBefore

LEMMA ByRulesNext ==
    ASSUME NEW n \in Nat \ {0}
    PROVE  ByRulesBefore(n + 1) = ByRulesBefore(n) \cup ByRule(RuleOrder[n])
  <1>1. 1..((n + 1) - 1) = (1..(n - 1)) \cup {n}
    OBVIOUS
  <1> QED BY <1>1, Zenon DEF ByRulesBefore

LEMMA CollectInv ==
    ASSUME LoopInv, NEW s \in [id : Ids, created_at : Times, tags : TagSets], Collect(s)
    PROVE  LoopInv'
  <1>1. plan' = plan /\ policy' = policy /\ plan.at = 0
    BY DEF Collect
  <1>2. LoopType'
    <2>1. IsFiniteSet(snapshots')
      BY FS_AddElement DEF Collect, LoopInv, LoopType
    <2> QED BY <1>1, <2>1 DEF Collect, LoopInv, LoopType
  <1> QED BY <1>1, <1>2 DEF LoopInv

LEMMA VisitInv ==
    ASSUME LoopInv, NEW s \in plan.left, Visit(s)
    PROVE  LoopInv'
  <1>1. /\ plan.at \in 1..7 /\ ~Enough /\ Newer(plan.left, s) = {}
        /\ policy' = policy /\ snapshots' = snapshots
    BY RuleNames DEF Visit
  <1>2. LoopType /\ Passing
    BY <1>1 DEF LoopInv
  <1> DEFINE rule == CurrentRule
             b == Bucket(rule, s.created_at)
  <1>3. /\ plan'.at = plan.at /\ plan'.left = plan.left \ {s}
        /\ plan'.kept_buckets = IF rule \in PeriodicRules
                                THEN plan.kept_buckets \cup {b} ELSE plan.kept_buckets
        /\ plan'.kept = IF Keeps(s) THEN plan.kept \cup {s} ELSE plan.kept
        /\ plan' = [at |-> plan'.at, left |-> plan'.left, kept_buckets |-> plan'.kept_buckets,
                    kept |-> plan'.kept]
    BY <1>2 DEF Visit, LoopType
  <1>4. LoopType'
    BY <1>1, <1>2, <1>3 DEF LoopType
  <1>5. CurrentRule' = CurrentRule
    BY <1>3 DEF CurrentRule
  <1>6. /\ ByRule(CurrentRule)' = ByRule(CurrentRule)
        /\ ByRulesBefore(plan.at)' = ByRulesBefore(plan.at)
    BY <1>1, <1>3, <1>5 DEF ByRule, ByRulesBefore
  <1>7. s \in snapshots /\ snapshots \ plan'.left = (snapshots \ plan.left) \cup {s}
    BY <1>2, <1>3 DEF LoopType
  <1>8. \A u \in plan'.left, t \in snapshots \ plan'.left : After(t, u)
    BY <1>1, <1>2, <1>3, <1>7, NextIsNewer DEF Passing
  <1>9. rule \in PeriodicRules => plan'.kept_buckets = Buckets(rule, snapshots \ plan'.left)
    BY <1>2, <1>3, <1>7 DEF Passing, Buckets
  <1>10. plan'.kept = ByRulesBefore(plan.at) \cup (ByRule(CurrentRule) \ plan'.left)
    <2>1. s \in ByRule(CurrentRule) <=> Keeps(s)
      BY <1>1, <1>2, KeepsByRule
    <2>2. plan.kept = ByRulesBefore(plan.at) \cup (ByRule(CurrentRule) \ plan.left)
      BY <1>2 DEF Passing
    <2> QED BY <1>3, <2>1, <2>2
  <1>11. Passing'
    BY <1>1, <1>3, <1>5, <1>6, <1>8, <1>9, <1>10 DEF Passing
  <1> QED BY <1>1, <1>3, <1>4, <1>11 DEF LoopInv

LEMMA NextRuleInv ==
    ASSUME LoopInv, NextRule
    PROVE  LoopInv'
  <1> USE DEF LoopInv
  <1>1. /\ plan.at \in 0..7 /\ policy' = policy /\ snapshots' = snapshots
        /\ policy # NoPolicy
    BY RuleNames DEF NextRule
  <1>2. /\ plan'.at = plan.at + 1 /\ plan'.left = snapshots /\ plan'.kept_buckets = {}
        /\ plan'.kept = plan.kept
        /\ plan' = [at |-> plan'.at, left |-> plan'.left, kept_buckets |-> plan'.kept_buckets,
                    kept |-> plan'.kept]
    BY DEF NextRule, LoopType
  <1>3. LoopType'
    BY <1>1, <1>2 DEF LoopType
  <1>4. plan.kept = ByRulesBefore(plan.at + 1)
    <2>1. CASE plan.at = 0
      <3>1. plan.at + 1 = 1 /\ plan.kept = {}
        BY <2>1
      <3> QED BY <3>1, ByRulesNone
    <2>2. CASE plan.at \in 1..7
      <3>1. Passing /\ (plan.left = {} \/ Enough)
        BY <2>2 DEF NextRule
      <3>2. ByRule(CurrentRule) \ plan.left = ByRule(CurrentRule)
        BY <2>2, <3>1, NoneLeft
      <3> QED BY <2>2, <3>1, <3>2, ByRulesNext DEF Passing, CurrentRule
    <2> QED BY <1>1, <2>1, <2>2
  <1>5. \A n \in 0..8 : ByRulesBefore(n)' = ByRulesBefore(n)
    BY <1>1 DEF ByRule, ByRulesBefore
  <1>6. ASSUME plan'.at \in 1..7 PROVE Passing'
    <2>1. ByRule(CurrentRule)' \subseteq snapshots
      BY <1>1, Zenon DEF ByRule, KeepLast, KeepTags, KeepPeriodic
    <2>2. CurrentRule' \in PeriodicRules => Buckets(CurrentRule', {}) = {}
      BY DEF Buckets
    <2> QED BY <1>1, <1>2, <1>4, <1>5, <1>6, <2>1, <2>2 DEF Passing
  <1>7. plan'.at = 8 => plan'.kept = ByRulesBefore(8)'
    BY <1>1, <1>2, <1>4, <1>5
  <1> QED BY <1>1, <1>2, <1>3, <1>6, <1>7

LEMMA OtherInv ==
    ASSUME LoopInv, UNCHANGED <<policy, snapshots, plan>>
    PROVE  LoopInv'
  BY DEF LoopInv, LoopType, Passing, CurrentRule, ByRule, ByRulesBefore

(***************************************************************************)
(* RetentionPolicy::plan keeps by its loops what its rules say, for every  *)
(* finite set of snapshots and every policy.                               *)
(***************************************************************************)
THEOREM LoopsKeepByRule == LoopSpec => []LoopKeepsByRule
  <1>1. LoopInit => LoopInv
    <2>1. LoopInit => IsFiniteSet(snapshots)
      BY FS_EmptySet DEF LoopInit
    <2> QED BY <2>1 DEF LoopInit, LoopInv, LoopType
  <1>2. LoopInv /\ [LoopNext]_loopVars => LoopInv'
    BY CollectInv, VisitInv, NextRuleInv, OtherInv DEF LoopNext, PassDay, WritePart, loopVars
  <1>3. LoopInv => LoopKeepsByRule
    <2> SUFFICES ASSUME LoopInv, plan.at = 8 PROVE plan.kept = Kept(policy, snapshots)
      BY RuleNames DEF LoopKeepsByRule, LoopInv, LoopType
    <2>1. plan.kept = UNION {ByRule(RuleOrder[i]) : i \in 1..7}
      BY DEF LoopInv, ByRulesBefore
    <2>2. {ByRule(RuleOrder[i]) : i \in 1..7} =
             {ByRule(rule) : rule \in {"last", "tags"} \cup PeriodicRules}
      <3>1. ASSUME NEW rule \in {"last", "tags"} \cup PeriodicRules
            PROVE  \E i \in 1..7 : rule = RuleOrder[i]
        BY RuleNames
      <3>2. \A i \in 1..7 : RuleOrder[i] \in {"last", "tags"} \cup PeriodicRules
        BY RuleNames
      <3> DEFINE Names == {"last", "tags"} \cup PeriodicRules
      <3> HIDE DEF Names
      <3>3. /\ \A rule \in Names : \E i \in 1..7 : rule = RuleOrder[i]
            /\ \A i \in 1..7 : RuleOrder[i] \in Names
        BY <3>1, <3>2 DEF Names
      <3>4. {ByRule(RuleOrder[i]) : i \in 1..7} = {ByRule(rule) : rule \in Names}
        BY <3>3, Zenon
      <3> QED BY <3>4 DEF Names
    <2>3. /\ ByRule("last") = KeepLast(snapshots, policy.last)
          /\ ByRule("tags") = KeepTags(snapshots, policy.tags)
          /\ \A rule \in PeriodicRules : ByRule(rule) = KeepPeriodic(snapshots, policy[rule], rule)
      BY RuleNames DEF ByRule
    <2> QED BY <2>1, <2>2, <2>3 DEF Kept
  <1> QED BY <1>1, <1>2, <1>3, PTL DEF LoopSpec

-----------------------------------------------------------------------------
(* The calendar *)

(* q is n divided by k. *)
Quotient(q, n, k) == k * q <= n /\ n < k * q + k

LEMMA Quotients ==
    ASSUME NEW n \in Nat
    PROVE  /\ Quotient(n \div 4, n, 4) /\ Quotient(n \div 5, n, 5)
           /\ Quotient(n \div 100, n, 100) /\ Quotient(n \div 153, n, 153)
           /\ Quotient(n \div 365, n, 365) /\ Quotient(n \div 1460, n, 1460)
           /\ Quotient(n \div 36524, n, 36524) /\ Quotient(n \div 146096, n, 146096)
           /\ Quotient(n \div 146097, n, 146097)
  BY SMT DEF Quotient

(* A year of an era, which begins in March, has a 366th day. *)
LongYear(y, e, f) == y = 399 \/ (y + 1 = 4 * e + 4 /\ y + 1 # 100 * f + 100)

(* doe is day doy of year y of its era; e and f are y \div 4 and y \div 100. *)
DayOfEra(doe, y, e, f, doy) ==
    /\ 0 <= y /\ y <= 399 /\ Quotient(e, y, 4) /\ Quotient(f, y, 100)
    /\ doe = 365 * y + e - f + doy
    /\ 0 <= doy /\ doy <= 365 /\ (doy = 365 => LongYear(y, e, f))

(* The year of the era that civil_from_days computes is that of the day. *)
LEMMA YearOfEra ==
    ASSUME NEW doe \in Int, 0 <= doe, doe <= 146096,
           NEW a \in Int, NEW b \in Int, NEW c \in Int, NEW y \in Int,
           NEW e \in Int, NEW f \in Int,
           Quotient(a, doe, 1460), Quotient(b, doe, 36524), Quotient(c, doe, 146096),
           Quotient(y, doe - a + b - c, 365), Quotient(e, y, 4), Quotient(f, y, 100)
    PROVE  DayOfEra(doe, y, e, f, doe - (365 * y + e - f))
  <1>1. y >= 0 /\ y <= 399
    BY SMT DEF Quotient
  <1>2. 365 * y + e - f <= doe
    BY SMT DEF Quotient
  <1>3. doe - (365 * y + e - f) <= 365
    BY SMT DEF Quotient
  <1>4. doe - (365 * y + e - f) = 365 => LongYear(y, e, f)
    BY SMT DEF Quotient, LongYear
  <1> QED BY <1>1, <1>2, <1>3, <1>4, SMT DEF DayOfEra

LEMMA YearUnique ==
    ASSUME NEW doe \in Int, NEW y \in Int, NEW z \in Int, NEW e \in Int, NEW f \in Int,
           NEW g \in Int, NEW h \in Int, NEW doy \in Int, NEW doz \in Int,
           DayOfEra(doe, y, e, f, doy), DayOfEra(doe, z, g, h, doz)
    PROVE  y = z /\ e = g /\ f = h /\ doy = doz
  <1>1. ~(y < z)
    BY SMT DEF DayOfEra, Quotient, LongYear
  <1>2. ~(z < y)
    BY SMT DEF DayOfEra, Quotient, LongYear
  <1> QED BY <1>1, <1>2, SMT DEF DayOfEra, Quotient

(* The day doy of such a year is in month mp, which begins at m5. *)
MonthOf(doy, mp, m5) == Quotient(mp, 5 * doy + 2, 153) /\ Quotient(m5, 153 * mp + 2, 5)

CivilMonth(mp) == IF mp < 10 THEN mp + 3 ELSE mp - 9

CivilDate(era, y, doy, mp, m5) ==
    [year  |-> y + era * 400 + (IF CivilMonth(mp) <= 2 THEN 1 ELSE 0),
     month |-> CivilMonth(mp), day |-> doy - m5 + 1]

(* days since the epoch is day doe of an era, day doy of a year of it, and in a month. *)
InEra(days, era, doe) == era >= 0 /\ doe = days + 719468 - era * 146097

Placed(days, era, doe, y, e, f, doy, mp, m5) ==
    InEra(days, era, doe) /\ DayOfEra(doe, y, e, f, doy) /\ MonthOf(doy, mp, m5)

(* civil_from_days finds the place of a day. *)
LEMMA CivilPlace ==
    ASSUME NEW days \in Nat
    PROVE  \E era, doe, y, e, f, doy, mp, m5 \in Int :
              /\ Placed(days, era, doe, y, e, f, doy, mp, m5)
              /\ CivilFromDays(days) = CivilDate(era, y, doy, mp, m5)
  <1> DEFINE z    == days + 719468
             era  == z \div 146097
             doe  == z - era * 146097
             a    == doe \div 1460
             b    == doe \div 36524
             c    == doe \div 146096
             y    == (doe - a + b - c) \div 365
             e    == y \div 4
             f    == y \div 100
             doy  == doe - (365 * y + e - f)
             mp   == (5 * doy + 2) \div 153
             m5   == (153 * mp + 2) \div 5
  <1>1. z \in Nat /\ era \in Nat /\ Quotient(era, z, 146097)
    BY Quotients, SMT
  <1> HIDE DEF era
  <1>2. doe \in Nat /\ doe <= 146096
    BY <1>1, SMT DEF Quotient
  <1>3. InEra(days, era, doe)
    BY <1>1, SMT DEF InEra
  <1> HIDE DEF doe, z
  <1>4. /\ a \in Int /\ b \in Int /\ c \in Int
        /\ Quotient(a, doe, 1460) /\ Quotient(b, doe, 36524) /\ Quotient(c, doe, 146096)
    BY <1>2, Quotients, SMT
  <1> HIDE DEF a, b, c
  <1>5. doe - a + b - c \in Nat
    BY <1>2, <1>4, SMT DEF Quotient
  <1>6. y \in Nat /\ Quotient(y, doe - a + b - c, 365)
    BY <1>5, Quotients, SMT
  <1> HIDE DEF y
  <1>7. e \in Int /\ f \in Int /\ Quotient(e, y, 4) /\ Quotient(f, y, 100)
    BY <1>6, Quotients, SMT
  <1> HIDE DEF e, f
  <1>8. DayOfEra(doe, y, e, f, doy)
    BY <1>2, <1>4, <1>6, <1>7, YearOfEra, SMT
  <1>9. doy \in Int
    BY <1>2, <1>6, <1>7, SMT
  <1> HIDE DEF doy
  <1>10. doy \in Nat
    BY <1>8, <1>9, SMT DEF DayOfEra
  <1>11. mp \in Nat /\ Quotient(mp, 5 * doy + 2, 153)
    <2> DEFINE n == 5 * doy + 2
    <2>1. n \in Nat
      BY <1>10, SMT
    <2> HIDE DEF n
    <2>2. n \div 153 \in Nat /\ Quotient(n \div 153, n, 153)
      BY <2>1, Quotients, SMT
    <2> QED BY <2>2, SMT DEF n
  <1> HIDE DEF mp
  <1>12. m5 \in Nat /\ Quotient(m5, 153 * mp + 2, 5)
    <2> DEFINE n == 153 * mp + 2
    <2>1. n \in Nat
      BY <1>11, SMT
    <2> HIDE DEF n
    <2>2. n \div 5 \in Nat /\ Quotient(n \div 5, n, 5)
      BY <2>1, Quotients, SMT
    <2> QED BY <2>2, SMT DEF n
  <1> HIDE DEF m5
  <1>13. Placed(days, era, doe, y, e, f, doy, mp, m5)
    BY <1>3, <1>8, <1>11, <1>12, SMT DEF Placed, MonthOf
  <1>14. CivilFromDays(days) = CivilDate(era, y, doy, mp, m5)
    BY SMT DEF CivilFromDays, CivilDate, CivilMonth, z, era, doe, a, b, c, y, e, f, doy, mp, m5
  <1>15. era \in Int /\ doe \in Int /\ y \in Int /\ mp \in Int /\ m5 \in Int
    BY <1>1, <1>2, <1>6, <1>11, <1>12, SMT
  <1> QED BY <1>7, <1>9, <1>13, <1>14, <1>15, Zenon

LEMMA LeapIsLong ==
    ASSUME NEW era \in Int, era >= 0, NEW y \in Int, NEW e \in Int, NEW f \in Int,
           0 <= y, y <= 399, Quotient(e, y, 4), Quotient(f, y, 100)
    PROVE  Leap(y + era * 400 + 1) <=> LongYear(y, e, f)
  <1> DEFINE year == y + era * 400 + 1
  <1>1. year \in Nat
    BY SMT
  <1>2. year % 4 = 0 <=> y + 1 = 4 * e + 4
    BY <1>1, SMT DEF Quotient
  <1>3. year % 100 = 0 <=> y + 1 = 100 * f + 100
    BY <1>1, SMT DEF Quotient
  <1>4. year % 400 = 0 <=> y = 399
    BY <1>1, SMT
  <1> QED BY <1>2, <1>3, <1>4, SMT DEF Leap, LongYear

(* The lengths of the months from March to January, and where each begins. *)
MonthLength(mp) == IF mp \in {1, 3, 6, 8} THEN 30 ELSE 31

(* The day after doy is in the same month, or is the first of the next one. *)
MonthStep(doy, mp, m5, mq, m6) ==
    /\ 0 <= mp /\ mp <= 11
    /\ \/ mq = mp /\ m6 = m5 /\ (mp # 11 => doy - m5 + 1 < MonthLength(mp))
       \/ mp # 11 /\ mq = mp + 1 /\ m6 = doy + 1 /\ doy - m5 + 1 = MonthLength(mp)
    /\ mp = 11 => m5 = 337

LEMMA MonthNext ==
    ASSUME NEW doy \in Int, 0 <= doy, doy <= 364,
           NEW mp \in Int, NEW m5 \in Int, MonthOf(doy, mp, m5),
           NEW next \in Int, next = doy + 1,
           NEW mq \in Int, NEW m6 \in Int, MonthOf(next, mq, m6)
    PROVE  MonthStep(doy, mp, m5, mq, m6)
  <1>1. 0 <= mp /\ mp <= 11
    BY SMT DEF MonthOf, Quotient
  <1>2. mq = mp \/ mq = mp + 1
    BY SMT DEF MonthOf, Quotient
  <1>3. mp = 11 => m5 = 337 /\ mq = 11
    BY SMT DEF MonthOf, Quotient
  <1>4. ASSUME mq = mp PROVE m6 = m5 /\ (mp # 11 => doy - m5 + 1 < MonthLength(mp))
    BY <1>1, <1>4, SMT DEF MonthOf, Quotient, MonthLength
  <1>5. ASSUME mq = mp + 1 PROVE m6 = doy + 1 /\ doy - m5 + 1 = MonthLength(mp)
    BY <1>1, <1>3, <1>5, SMT DEF MonthOf, Quotient, MonthLength
  <1> QED BY <1>1, <1>2, <1>3, <1>4, <1>5, SMT DEF MonthStep

(* From one day to the next: in a year, from year to year, from era to era. *)
LEMMA CivilTomorrow ==
    ASSUME NEW days \in Nat
    PROVE  CivilFromDays(days + 1) = Tomorrow(CivilFromDays(days))
  <1>1. PICK era, doe, y, e, f, doy, mp, m5 \in Int :
              /\ Placed(days, era, doe, y, e, f, doy, mp, m5)
              /\ CivilFromDays(days) = CivilDate(era, y, doy, mp, m5)
    BY CivilPlace, Zenon
  <1>2. days + 1 \in Nat
    BY SMT
  <1>3. PICK era1, doe1, y1, e1, f1, doy1, mp1, m51 \in Int :
              /\ Placed(days + 1, era1, doe1, y1, e1, f1, doy1, mp1, m51)
              /\ CivilFromDays(days + 1) = CivilDate(era1, y1, doy1, mp1, m51)
    BY <1>2, CivilPlace, Zenon
  <1>4. Leap(y + era * 400 + 1) <=> LongYear(y, e, f)
    BY <1>1, LeapIsLong, SMT DEF Placed, InEra, DayOfEra
  <1> DEFINE last == IF LongYear(y, e, f) THEN 365 ELSE 364
  <1>5. doy <= last
    BY <1>1, SMT DEF Placed, DayOfEra
  <1>6. 0 <= doe /\ doe <= 146096 /\ 0 <= doe1 /\ doe1 <= 146096
    BY <1>1, <1>3, SMT DEF Placed, DayOfEra, Quotient, LongYear
  <1>7. ASSUME doy < last
        PROVE  era1 = era /\ y1 = y /\ doy1 = doy + 1
    <2>1. DayOfEra(doe + 1, y, e, f, doy + 1)
      BY <1>1, <1>7, SMT DEF Placed, DayOfEra
    <2>2. doe + 1 <= 146096
      BY <2>1, SMT DEF DayOfEra, Quotient, LongYear
    <2>3. era1 = era /\ doe1 = doe + 1
      BY <1>1, <1>3, <1>6, <2>2, SMT DEF Placed, InEra
    <2>4. DayOfEra(doe + 1, y1, e1, f1, doy1)
      BY <1>3, <2>3, SMT DEF Placed
    <2>5. doe + 1 \in Int /\ doy + 1 \in Int
      BY SMT
    <2> QED BY <2>1, <2>3, <2>4, <2>5, YearUnique, SMT
  <1>8. ASSUME doy = last, y < 399
        PROVE  era1 = era /\ y1 = y + 1 /\ doy1 = 0
    <2>1. PICK g, h \in Int : Quotient(g, y + 1, 4) /\ Quotient(h, y + 1, 100)
      <3>1. y + 1 \in Nat
        BY <1>1, SMT DEF Placed, DayOfEra
      <3> QED BY <3>1, Quotients, SMT
    <2>2. DayOfEra(doe + 1, y + 1, g, h, 0)
      BY <1>1, <1>8, <2>1, SMT DEF Placed, DayOfEra, LongYear, Quotient
    <2>3. doe + 1 <= 146096
      BY <2>2, <1>1, SMT DEF DayOfEra, Quotient, LongYear
    <2>4. era1 = era /\ doe1 = doe + 1
      BY <1>1, <1>3, <1>6, <2>3, SMT DEF Placed, InEra
    <2>5. DayOfEra(doe + 1, y1, e1, f1, doy1)
      BY <1>3, <2>4, SMT DEF Placed
    <2>6. doe + 1 \in Int /\ y + 1 \in Int /\ 0 \in Int
      BY SMT
    <2> QED BY <2>1, <2>2, <2>4, <2>5, <2>6, YearUnique, SMT
  <1>9. ASSUME doy = last, y = 399
        PROVE  era1 = era + 1 /\ y1 = 0 /\ doy1 = 0
    <2>1. doe = 146096
      BY <1>1, <1>9, SMT DEF Placed, DayOfEra, LongYear, Quotient
    <2>2. era1 = era + 1 /\ doe1 = 0
      BY <1>1, <1>3, <1>6, <2>1, SMT DEF Placed, InEra
    <2> QED BY <1>3, <2>2, SMT DEF Placed, DayOfEra, Quotient
  <1>10. CASE doy < last
    <2>1. /\ MonthOf(doy, mp, m5) /\ 0 <= doy /\ doy <= 364
          /\ MonthOf(doy1, mp1, m51) /\ doy1 = doy + 1
      BY <1>1, <1>3, <1>7, <1>10, SMT DEF Placed, DayOfEra
    <2>2. MonthStep(doy, mp, m5, mp1, m51)
      BY <2>1, MonthNext, Zenon
    <2> QED BY <1>1, <1>3, <1>4, <1>7, <1>10, <2>2, SMT
         DEF Tomorrow, CivilDate, CivilMonth, DaysIn, MonthStep, MonthLength
  <1>11. CASE doy = last
    <2>1. mp = 11 /\ m5 = 337
      BY <1>1, <1>11, SMT DEF Placed, MonthOf, Quotient
    <2>2. doy1 = 0 /\ mp1 = 0 /\ m51 = 0
      <3>1. doy1 = 0
        BY <1>1, <1>8, <1>9, <1>11, SMT DEF Placed, DayOfEra
      <3>2. mp1 = 0
        BY <1>3, <3>1, SMT DEF Placed, MonthOf, Quotient
      <3> QED BY <1>3, <3>1, <3>2, SMT DEF Placed, MonthOf, Quotient
    <2>3. y1 + era1 * 400 = y + era * 400 + 1
      BY <1>1, <1>8, <1>9, <1>11, SMT DEF Placed, DayOfEra
    <2> QED BY <1>1, <1>3, <1>4, <1>11, <2>1, <2>2, <2>3, SMT
         DEF Tomorrow, CivilDate, CivilMonth, DaysIn
  <1> QED BY <1>5, <1>10, <1>11, SMT

(***************************************************************************)
(* civil_from_days gives the date of the Gregorian calendar on every day   *)
(* from 1970-01-01 on, through leap years and the century rules: no        *)
(* snapshot falls in the wrong monthly or yearly bucket.                   *)
(***************************************************************************)
THEOREM CivilIsTheCalendar == LoopSpec => []CivilIsCalendar
  <1> DEFINE OnTheDay == day \in Nat /\ CivilIsCalendar
  <1>1. LoopInit => OnTheDay
    <2> SUFFICES ASSUME LoopInit PROVE OnTheDay
      OBVIOUS
    <2>1. day = 0 /\ date = [year |-> 1970, month |-> 1, day |-> 1]
      BY SMT DEF LoopInit
    <2>2. CivilFromDays(0) = [year |-> 1970, month |-> 1, day |-> 1]
      BY SMT DEF CivilFromDays
    <2> QED BY <2>1, <2>2, SMT DEF CivilIsCalendar
  <1>2. OnTheDay /\ [LoopNext]_loopVars => OnTheDay'
    <2> SUFFICES ASSUME OnTheDay, [LoopNext]_loopVars PROVE OnTheDay'
      OBVIOUS
    <2>1. CASE PassDay
      <3>1. day' = day + 1 /\ date' = Tomorrow(date) /\ day' \in Nat
        BY <2>1, SMT DEF PassDay
      <3>2. CivilFromDays(day + 1) = Tomorrow(CivilFromDays(day))
        BY CivilTomorrow, SMT
      <3> QED BY <3>1, <3>2, SMT DEF CivilIsCalendar
    <2>2. CASE ~PassDay
      <3>1. day' = day /\ date' = date
        BY <2>2, Zenon DEF LoopNext, loopVars, Collect, Visit, NextRule, WritePart
      <3> QED BY <3>1, Zenon DEF CivilIsCalendar
    <2> QED BY <2>1, <2>2
  <1> QED BY <1>1, <1>2, PTL DEF LoopSpec

-----------------------------------------------------------------------------
(* The text of a policy *)

PolicyFields == CountRules \cup {"tags"}

(* What of a well-formed text holds of each part, but that something is kept. *)
FineParts ==
    LET Names == CountRules \cup {"tag"} IN
    /\ \A i \in DOMAIN spec : Blank(spec[i]) \/ (spec[i].value # <<>> /\ ValueAt(i).core # "")
    /\ \A i \in DOMAIN spec : Blank(spec[i]) \/ \E rule \in Names : i \in Said(rule)
    /\ \A rule \in CountRules : \A i, j \in Said(rule) : i = j
    /\ \A rule \in CountRules : \A i \in Said(rule) :
          ValueAt(i).core \in DOMAIN Numbers /\ Numbers[ValueAt(i).core] # 0
    /\ \A i \in Said("tag") : ValueAt(i).core \notin NotTags

(* The policy has the count of each rule said, and the tags. *)
PolicyRead ==
    /\ read.policy = [f \in PolicyFields |-> read.policy[f]]
    /\ \A rule \in CountRules :
          /\ \A i \in Said(rule) : read.policy[rule] = Numbers[ValueAt(i).core]
          /\ Said(rule) = {} => read.policy[rule] = 0
    /\ read.policy.tags = {Trimmed(ValueAt(i)) : i \in Said("tag")}

ReadInv ==
    /\ spec \in Seq(Parts)
    /\ read = [error |-> read.error, policy |-> read.policy, seen |-> read.seen]
    /\ read.error = "" <=> FineParts
    /\ read.error = "" => /\ PolicyRead
                          /\ read.seen = {rule \in CountRules : Said(rule) # {}}

LEMMA RulesAndFields ==
    /\ "tag" \notin CountRules /\ "tags" \notin CountRules /\ "" \notin CountRules
    /\ NoRule = [f \in PolicyFields |-> IF f = "tags" THEN {} ELSE 0]
    /\ DOMAIN NoRule = PolicyFields
  BY DEF CountRules, PeriodicRules, NoRule, PolicyFields

(* The next part is fine after those before it. *)
FinePart(part) ==
    \/ Blank(part)
    \/ /\ part.value # <<>> /\ part.value[1].core # ""
       /\ \/ RuleName(part) = "tag" /\ part.value[1].core \notin NotTags
          \/ /\ RuleName(part) \in CountRules /\ Said(RuleName(part)) = {}
             /\ part.value[1].core \in DOMAIN Numbers /\ Numbers[part.value[1].core] # 0

LEMMA ErrorIsNotFine ==
    ASSUME NEW part \in Parts, ~Blank(part)
    PROVE  PartError(part, {rule \in CountRules : Said(rule) # {}}) = "" <=> FinePart(part)
  <1> DEFINE seen == {rule \in CountRules : Said(rule) # {}}
  <1>1. CASE part.value = <<>> \/ part.value[1].core = ""
    BY <1>1 DEF PartError, FinePart
  <1>2. CASE part.value # <<>> /\ part.value[1].core # ""
    <2>1. TagValid(part.value[1]) <=> part.value[1].core \notin NotTags
      BY <1>2 DEF TagValid, Trimmed
    <2>2. ASSUME part.value[1].core \in DOMAIN Numbers
          PROVE  Numbers[part.value[1].core] > 0 <=> Numbers[part.value[1].core] # 0
      BY <2>2, RetentionLoopAssumption
    <2>3. CountValid(part.value[1].core) <=>
             part.value[1].core \in DOMAIN Numbers /\ Numbers[part.value[1].core] # 0
      BY <2>2 DEF CountValid
    <2>4. RuleName(part) \in seen <=> RuleName(part) \in CountRules /\ Said(RuleName(part)) # {}
      OBVIOUS
    <2> HIDE DEF seen
    <2>5. PartError(part, seen) = "" <=> FinePart(part)
      BY <1>2, <2>1, <2>3, <2>4, RulesAndFields DEF PartError, FinePart
    <2> QED BY <2>5 DEF seen
  <1> QED BY <1>1, <1>2

(* One part more. *)
LEMMA AppendSaid ==
    ASSUME spec \in Seq(Parts), NEW part \in Parts, spec' = Append(spec, part),
           NEW n, n = Len(spec) + 1
    PROVE  /\ spec' \in Seq(Parts)
           /\ DOMAIN spec' = DOMAIN spec \cup {n} /\ n \notin DOMAIN spec
           /\ spec'[n] = part /\ ValueAt(n)' = part.value[1]
           /\ \A i \in DOMAIN spec : spec'[i] = spec[i] /\ ValueAt(i)' = ValueAt(i)
           /\ \A rule : Said(rule) \subseteq DOMAIN spec
           /\ \A rule : Said(rule)' = IF ~Blank(part) /\ RuleName(part) = rule
                                      THEN Said(rule) \cup {n} ELSE Said(rule)
  <1>1. /\ spec' \in Seq(Parts) /\ DOMAIN spec' = DOMAIN spec \cup {n} /\ n \notin DOMAIN spec
        /\ spec'[n] = part /\ \A i \in DOMAIN spec : spec'[i] = spec[i]
    OBVIOUS
  <1>2. /\ ValueAt(n)' = part.value[1]
        /\ \A i \in DOMAIN spec : ValueAt(i)' = ValueAt(i)
    BY <1>1 DEF ValueAt
  <1>3. \A rule : Said(rule) \subseteq DOMAIN spec
    BY DEF Said
  <1>4. ASSUME NEW rule
        PROVE  Said(rule)' = IF ~Blank(part) /\ RuleName(part) = rule
                             THEN Said(rule) \cup {n} ELSE Said(rule)
    <2>1. Said(rule)' = {i \in DOMAIN spec' : ~Blank(spec'[i]) /\ RuleName(spec'[i]) = rule}
      BY DEF Said, Blank, RuleName
    <2> QED BY <1>1, <2>1 DEF Said
  <1> QED BY <1>1, <1>2, <1>3, <1>4

(* What is fine stays fine with a part that is, and only with one. *)
LEMMA AppendFine ==
    ASSUME spec \in Seq(Parts), NEW part \in Parts, spec' = Append(spec, part)
    PROVE  FineParts' <=> FineParts /\ FinePart(part)
  <1>a. PICK n : n = Len(spec) + 1
    OBVIOUS
  <1>1. /\ DOMAIN spec' = DOMAIN spec \cup {n} /\ n \notin DOMAIN spec
        /\ spec'[n] = part /\ ValueAt(n)' = part.value[1]
        /\ \A i \in DOMAIN spec : spec'[i] = spec[i] /\ ValueAt(i)' = ValueAt(i)
        /\ \A rule : Said(rule) \subseteq DOMAIN spec
        /\ \A rule : Said(rule)' = IF ~Blank(part) /\ RuleName(part) = rule
                                   THEN Said(rule) \cup {n} ELSE Said(rule)
    BY <1>a, AppendSaid
  <1> DEFINE Names == CountRules \cup {"tag"}
  <1>2. FineParts' <=>
          /\ \A i \in DOMAIN spec' : Blank(spec'[i]) \/ (spec'[i].value # <<>> /\ ValueAt(i)'.core # "")
          /\ \A i \in DOMAIN spec' : Blank(spec'[i]) \/ \E rule \in Names : i \in Said(rule)'
          /\ \A rule \in CountRules : \A i, j \in Said(rule)' : i = j
          /\ \A rule \in CountRules : \A i \in Said(rule)' :
                ValueAt(i)'.core \in DOMAIN Numbers /\ Numbers[ValueAt(i)'.core] # 0
          /\ \A i \in Said("tag")' : ValueAt(i)'.core \notin NotTags
    BY DEF FineParts, Blank, RuleName
  <1>3. (\A i \in DOMAIN spec' : Blank(spec'[i]) \/ (spec'[i].value # <<>> /\ ValueAt(i)'.core # ""))
          <=> /\ \A i \in DOMAIN spec : Blank(spec[i]) \/ (spec[i].value # <<>> /\ ValueAt(i).core # "")
              /\ Blank(part) \/ (part.value # <<>> /\ part.value[1].core # "")
    BY <1>1
  <1>4. (\A i \in DOMAIN spec' : Blank(spec'[i]) \/ \E rule \in Names : i \in Said(rule)')
          <=> /\ \A i \in DOMAIN spec : Blank(spec[i]) \/ \E rule \in Names : i \in Said(rule)
              /\ Blank(part) \/ RuleName(part) \in Names
    BY <1>1
  <1>5. (\A rule \in CountRules : \A i, j \in Said(rule)' : i = j)
          <=> /\ \A rule \in CountRules : \A i, j \in Said(rule) : i = j
              /\ ~Blank(part) /\ RuleName(part) \in CountRules => Said(RuleName(part)) = {}
    <2>1. ASSUME NEW rule \in CountRules
          PROVE  (\A i, j \in Said(rule)' : i = j)
                   <=> /\ \A i, j \in Said(rule) : i = j
                       /\ ~Blank(part) /\ RuleName(part) = rule => Said(rule) = {}
      <3>1. CASE ~Blank(part) /\ RuleName(part) = rule
        <4>1. Said(rule)' = Said(rule) \cup {n} /\ n \notin Said(rule)
          BY <1>1, <3>1
        <4>2. (\A i, j \in Said(rule) \cup {n} : i = j) <=> Said(rule) = {}
          BY <4>1
        <4> QED BY <3>1, <4>1, <4>2
      <3>2. CASE ~(~Blank(part) /\ RuleName(part) = rule)
        BY <1>1, <3>2
      <3> QED BY <3>1, <3>2
    <2> QED BY <2>1
  <1>6. (\A rule \in CountRules : \A i \in Said(rule)' :
           ValueAt(i)'.core \in DOMAIN Numbers /\ Numbers[ValueAt(i)'.core] # 0)
          <=> /\ \A rule \in CountRules : \A i \in Said(rule) :
                    ValueAt(i).core \in DOMAIN Numbers /\ Numbers[ValueAt(i).core] # 0
              /\ ~Blank(part) /\ RuleName(part) \in CountRules =>
                    part.value[1].core \in DOMAIN Numbers /\ Numbers[part.value[1].core] # 0
    BY <1>1
  <1>7. (\A i \in Said("tag")' : ValueAt(i)'.core \notin NotTags)
          <=> /\ \A i \in Said("tag") : ValueAt(i).core \notin NotTags
              /\ ~Blank(part) /\ RuleName(part) = "tag" => part.value[1].core \notin NotTags
    BY <1>1
  <1>8. FineParts <=>
          /\ \A i \in DOMAIN spec : Blank(spec[i]) \/ (spec[i].value # <<>> /\ ValueAt(i).core # "")
          /\ \A i \in DOMAIN spec : Blank(spec[i]) \/ \E rule \in Names : i \in Said(rule)
          /\ \A rule \in CountRules : \A i, j \in Said(rule) : i = j
          /\ \A rule \in CountRules : \A i \in Said(rule) :
                ValueAt(i).core \in DOMAIN Numbers /\ Numbers[ValueAt(i).core] # 0
          /\ \A i \in Said("tag") : ValueAt(i).core \notin NotTags
    BY DEF FineParts
  <1>9. FinePart(part) <=>
          /\ Blank(part) \/ (part.value # <<>> /\ part.value[1].core # "")
          /\ Blank(part) \/ RuleName(part) \in Names
          /\ ~Blank(part) /\ RuleName(part) \in CountRules => Said(RuleName(part)) = {}
          /\ ~Blank(part) /\ RuleName(part) \in CountRules =>
                part.value[1].core \in DOMAIN Numbers /\ Numbers[part.value[1].core] # 0
          /\ ~Blank(part) /\ RuleName(part) = "tag" => part.value[1].core \notin NotTags
    BY RulesAndFields DEF FinePart
  <1> HIDE DEF Names
  <1> QED BY <1>2, <1>3, <1>4, <1>5, <1>6, <1>7, <1>8, <1>9

(* What is read of a part that is fine. *)
LEMMA WithRuleIs ==
    ASSUME NEW part, NEW p, p = [f \in PolicyFields |-> p[f]],
           RuleName(part) \in CountRules \cup {"tag"}
    PROVE  WithRule(p, part) =
             IF RuleName(part) = "tag"
             THEN [f \in PolicyFields |-> IF f = "tags" THEN p.tags \cup {Trimmed(part.value[1])}
                                          ELSE p[f]]
             ELSE [f \in PolicyFields |-> IF f = RuleName(part) THEN Numbers[part.value[1].core]
                                          ELSE p[f]]
  <1>1. CASE RuleName(part) = "tag"
    BY <1>1, Zenon DEF WithRule, PolicyFields
  <1>2. CASE RuleName(part) \in CountRules
    BY <1>2, RulesAndFields DEF WithRule, PolicyFields
  <1> QED BY <1>1, <1>2

LEMMA ReadFine ==
    ASSUME spec \in Seq(Parts), NEW part \in Parts, spec' = Append(spec, part),
           ~Blank(part), FinePart(part), PolicyRead,
           read'.policy = WithRule(read.policy, part)
    PROVE  PolicyRead'
  <1>a. PICK n : n = Len(spec) + 1
    OBVIOUS
  <1>1. /\ n \notin DOMAIN spec /\ ValueAt(n)' = part.value[1]
        /\ \A i \in DOMAIN spec : ValueAt(i)' = ValueAt(i)
        /\ \A rule : Said(rule) \subseteq DOMAIN spec
        /\ \A rule : Said(rule)' = IF RuleName(part) = rule THEN Said(rule) \cup {n} ELSE Said(rule)
    BY <1>a, AppendSaid
  <1> DEFINE q == read'.policy
             p == read.policy
  <1>2. PolicyRead' <=>
          /\ q = [f \in PolicyFields |-> q[f]]
          /\ \A rule \in CountRules :
                /\ \A i \in Said(rule)' : q[rule] = Numbers[ValueAt(i)'.core]
                /\ Said(rule)' = {} => q[rule] = 0
          /\ q.tags = {Trimmed(ValueAt(i)') : i \in Said("tag")'}
    BY DEF PolicyRead, Trimmed, PolicyFields
  <1>3. /\ p = [f \in PolicyFields |-> p[f]]
        /\ \A rule \in CountRules :
              /\ \A i \in Said(rule) : p[rule] = Numbers[ValueAt(i).core]
              /\ Said(rule) = {} => p[rule] = 0
        /\ p.tags = {Trimmed(ValueAt(i)) : i \in Said("tag")}
    BY DEF PolicyRead
  <1>4. RuleName(part) \in CountRules \cup {"tag"} /\ q = WithRule(p, part)
    BY DEF FinePart
  <1> HIDE DEF p, q
  <1>5. CASE RuleName(part) = "tag"
    <2>1. q = [f \in PolicyFields |-> IF f = "tags" THEN p.tags \cup {Trimmed(part.value[1])} ELSE p[f]]
      BY <1>3, <1>4, <1>5, WithRuleIs
    <2>2. q.tags = p.tags \cup {Trimmed(part.value[1])} /\ \A rule \in CountRules : q[rule] = p[rule]
      BY <2>1, RulesAndFields DEF PolicyFields
    <2>3. q = [f \in PolicyFields |-> q[f]]
      BY <2>1
    <2>4. \A rule \in CountRules : Said(rule)' = Said(rule)
      BY <1>1, <1>5, RulesAndFields
    <2>5. Said("tag")' = Said("tag") \cup {n}
      BY <1>1, <1>5
    <2>6. {Trimmed(ValueAt(i)') : i \in Said("tag")'} =
            {Trimmed(ValueAt(i)) : i \in Said("tag")} \cup {Trimmed(part.value[1])}
      BY <1>1, <2>5
    <2>7. ASSUME NEW rule \in CountRules
          PROVE  /\ \A i \in Said(rule)' : q[rule] = Numbers[ValueAt(i)'.core]
                 /\ Said(rule)' = {} => q[rule] = 0
      <3>1. Said(rule)' = Said(rule) /\ q[rule] = p[rule]
        BY <2>2, <2>4
      <3>2. \A i \in Said(rule) : ValueAt(i)' = ValueAt(i)
        BY <1>1
      <3>3. \A i \in Said(rule) : p[rule] = Numbers[ValueAt(i).core]
        BY <1>3
      <3>4. Said(rule) = {} => p[rule] = 0
        BY <1>3
      <3> QED BY <3>1, <3>2, <3>3, <3>4
    <2> QED BY <1>2, <1>3, <2>2, <2>3, <2>6, <2>7
  <1>6. CASE RuleName(part) \in CountRules
    <2>1. q = [f \in PolicyFields |-> IF f = RuleName(part) THEN Numbers[part.value[1].core] ELSE p[f]]
      BY <1>3, <1>4, <1>6, WithRuleIs, RulesAndFields
    <2>2. /\ q.tags = p.tags /\ q[RuleName(part)] = Numbers[part.value[1].core]
          /\ \A rule \in CountRules \ {RuleName(part)} : q[rule] = p[rule]
      BY <1>6, <2>1, RulesAndFields DEF PolicyFields
    <2>3. q = [f \in PolicyFields |-> q[f]]
      BY <2>1
    <2>4. /\ \A rule \in CountRules \ {RuleName(part)} : Said(rule)' = Said(rule)
          /\ Said("tag")' = Said("tag")
      BY <1>1, <1>6, RulesAndFields
    <2>5. Said(RuleName(part))' = {n}
      BY <1>1, <1>6, RulesAndFields DEF FinePart
    <2>6. {Trimmed(ValueAt(i)') : i \in Said("tag")'} = {Trimmed(ValueAt(i)) : i \in Said("tag")}
      BY <1>1, <2>4
    <2>7. ASSUME NEW rule \in CountRules
          PROVE  /\ \A i \in Said(rule)' : q[rule] = Numbers[ValueAt(i)'.core]
                 /\ Said(rule)' = {} => q[rule] = 0
      <3>1. CASE rule = RuleName(part)
        BY <1>1, <2>2, <2>5, <3>1
      <3>2. CASE rule # RuleName(part)
        BY <1>1, <1>3, <2>2, <2>4, <3>2
      <3> QED BY <3>1, <3>2
    <2> QED BY <1>2, <1>3, <2>2, <2>3, <2>6, <2>7
  <1> QED BY <1>4, <1>5, <1>6

(* A part that is blank says nothing. *)
LEMMA ReadBlank ==
    ASSUME spec \in Seq(Parts), NEW part \in Parts, spec' = Append(spec, part), Blank(part),
           PolicyRead, read' = read
    PROVE  PolicyRead' /\ \A rule : Said(rule)' = Said(rule)
  <1>a. PICK n : n = Len(spec) + 1
    OBVIOUS
  <1>1. /\ \A i \in DOMAIN spec : ValueAt(i)' = ValueAt(i)
        /\ \A rule : Said(rule) \subseteq DOMAIN spec /\ Said(rule)' = Said(rule)
    BY <1>a, AppendSaid
  <1>2. PolicyRead' <=>
          /\ read.policy = [f \in PolicyFields |-> read.policy[f]]
          /\ \A rule \in CountRules :
                /\ \A i \in Said(rule)' : read.policy[rule] = Numbers[ValueAt(i)'.core]
                /\ Said(rule)' = {} => read.policy[rule] = 0
          /\ read.policy.tags = {Trimmed(ValueAt(i)') : i \in Said("tag")'}
    BY DEF PolicyRead, Trimmed, PolicyFields
  <1>3. {Trimmed(ValueAt(i)') : i \in Said("tag")'} = {Trimmed(ValueAt(i)) : i \in Said("tag")}
    BY <1>1
  <1>4. /\ read.policy = [f \in PolicyFields |-> read.policy[f]]
        /\ read.policy.tags = {Trimmed(ValueAt(i)) : i \in Said("tag")}
    BY DEF PolicyRead
  <1>5. ASSUME NEW rule \in CountRules
        PROVE  /\ \A i \in Said(rule)' : read.policy[rule] = Numbers[ValueAt(i)'.core]
               /\ Said(rule)' = {} => read.policy[rule] = 0
    <2>1. \A i \in Said(rule) : read.policy[rule] = Numbers[ValueAt(i).core]
      BY DEF PolicyRead
    <2>2. Said(rule) = {} => read.policy[rule] = 0
      BY DEF PolicyRead
    <2>3. Said(rule)' = Said(rule) /\ \A i \in Said(rule) : ValueAt(i)' = ValueAt(i)
      BY <1>1
    <2> QED BY <2>1, <2>2, <2>3
  <1> QED BY <1>1, <1>2, <1>3, <1>4, <1>5

LEMMA WritePartInv ==
    ASSUME ReadInv, NEW part \in Parts, WritePart(part)
    PROVE  ReadInv'
  <1> DEFINE seen == {rule \in CountRules : Said(rule) # {}}
  <1>1. /\ spec \in Seq(Parts) /\ spec' = Append(spec, part) /\ read' = ReadPart(read, part)
        /\ spec' \in Seq(Parts)
    <2>1. spec \in Seq(Parts) /\ spec' = Append(spec, part) /\ read' = ReadPart(read, part)
      BY DEF ReadInv, WritePart
    <2> QED BY <2>1
  <1>2. FineParts' <=> FineParts /\ FinePart(part)
    BY <1>1, AppendFine
  <1>a. /\ read = [error |-> read.error, policy |-> read.policy, seen |-> read.seen]
        /\ read.error = "" <=> FineParts
        /\ read.error = "" => PolicyRead /\ read.seen = seen
    BY DEF ReadInv
  <1>b. ASSUME spec' \in Seq(Parts),
               read' = [error |-> read'.error, policy |-> read'.policy, seen |-> read'.seen],
               read'.error = "" <=> FineParts',
               read'.error = "" => PolicyRead' /\ read'.seen = {rule \in CountRules : Said(rule)' # {}}
        PROVE  ReadInv'
    BY <1>b DEF ReadInv, CountRules, PeriodicRules
  <1>c. FinePart(part) => RuleName(part) \in CountRules \cup {"tag"} \/ Blank(part)
    BY DEF FinePart
  <1>3. CASE read.error # ""
    <2>1. read' = read
      BY <1>1, <1>3 DEF ReadPart
    <2> QED BY <1>1, <1>2, <1>3, <1>a, <1>b, <2>1
  <1>4. CASE read.error = "" /\ Blank(part)
    <2>1. read' = read
      BY <1>1, <1>4 DEF ReadPart
    <2>2. PolicyRead' /\ \A rule : Said(rule)' = Said(rule)
      BY <1>1, <1>4, <1>a, <2>1, ReadBlank
    <2>3. FinePart(part)
      BY <1>4 DEF FinePart
    <2> QED BY <1>1, <1>2, <1>4, <1>a, <1>b, <2>1, <2>2, <2>3
  <1>5. CASE read.error = "" /\ ~Blank(part)
    <2>a. read.seen = seen /\ PolicyRead /\ FineParts
      BY <1>5, <1>a
    <2>b. PartError(part, read.seen) = "" <=> FinePart(part)
      BY <1>5, <2>a, ErrorIsNotFine
    <2>1. CASE ~FinePart(part)
      <3>2. read' = [error |-> PartError(part, read.seen), policy |-> read.policy, seen |-> read.seen]
        BY <1>1, <1>5, <2>1, <2>b DEF ReadPart
      <3>3. read'.error # ""
        BY <2>1, <2>b, <3>2
      <3> QED BY <1>1, <1>2, <1>b, <2>1, <3>2, <3>3
    <2>2. CASE FinePart(part)
      <3>1. read' = [error |-> "", policy |-> WithRule(read.policy, part),
                     seen |-> read.seen \cup ({RuleName(part)} \cap CountRules)]
        BY <1>1, <1>5, <2>2, <2>b DEF ReadPart
      <3>b. read'.policy = WithRule(read.policy, part)
        BY <3>1
      <3>2. PolicyRead'
        BY <1>1, <1>5, <2>2, <2>a, <3>b, ReadFine
      <3>a. PICK n : n = Len(spec) + 1
        OBVIOUS
      <3>3. \A rule : Said(rule)' = IF RuleName(part) = rule THEN Said(rule) \cup {n} ELSE Said(rule)
        BY <1>1, <1>5, <3>a, AppendSaid
      <3>4. read'.seen = {rule \in CountRules : Said(rule)' # {}}
        BY <2>a, <3>1, <3>3
      <3>5. /\ read' = [error |-> read'.error, policy |-> read'.policy, seen |-> read'.seen]
            /\ read'.error = ""
        BY <3>1
      <3> QED BY <1>1, <1>2, <1>b, <2>2, <2>a, <3>2, <3>4, <3>5
    <2> QED BY <2>1, <2>2
  <1> QED BY <1>3, <1>4, <1>5

(* Nothing kept is a policy with no count and no tag. *)
LEMMA ReadMeans == ReadInv => SpecMeansRules
  <1> SUFFICES ASSUME ReadInv PROVE SpecMeansRules
    OBVIOUS
  <1> DEFINE result == ReadSpec(read)
             given == {rule \in CountRules : Said(rule) # {}}
             counts == [rule \in given |-> Numbers[ValueAt(CHOOSE i \in Said(rule) : TRUE).core]]
             tags == {[padded |-> FALSE, core |-> ValueAt(i).core] : i \in Said("tag")}
             newest == [id |-> 2, created_at |-> 3600, tags |-> {}]
             Something == \E rule \in CountRules \cup {"tag"} : Said(rule) # {}
  <1>1. /\ result.policy = read.policy
        /\ result = [error |-> result.error, policy |-> read.policy]
        /\ result.error = IF read.error # "" THEN read.error ELSE Validate(read.policy)
    BY DEF ReadSpec
  <1>2. WellFormed <=> FineParts /\ Something
    BY DEF WellFormed, FineParts
  <1>3. read.error = "" <=> FineParts
    BY DEF ReadInv
  <1>4. ASSUME read.error = ""
        PROVE  /\ Validate(read.policy) = "" <=> Something
               /\ Something => PolicyFromArgs(counts, tags) = result
               /\ given # {} => newest \in Kept(read.policy, {newest, [newest EXCEPT !.id = 1]})
    <2> DEFINE p == read.policy
    <2>a. FineParts /\ PolicyRead
      BY <1>4 DEF ReadInv
    <2>b. /\ p = [f \in PolicyFields |-> p[f]]
          /\ \A rule \in CountRules :
                /\ \A i \in Said(rule) : p[rule] = Numbers[ValueAt(i).core]
                /\ Said(rule) = {} => p[rule] = 0
          /\ p.tags = tags
      BY <2>a DEF PolicyRead, Trimmed
    <2>c. \A rule \in CountRules : \A i \in Said(rule) :
             ValueAt(i).core \in DOMAIN Numbers /\ Numbers[ValueAt(i).core] # 0
      BY <2>a DEF FineParts
    <2>d. \A i \in Said("tag") : ValueAt(i).core \notin NotTags \cup {""}
      BY <2>a DEF FineParts, Said
    <2>e. \A rule \in given : p[rule] \in Nat /\ p[rule] > 0
      BY <2>b, <2>c, RetentionLoopAssumption
    <2>f. tags # {} <=> Said("tag") # {}
      OBVIOUS
    <2>g. \A tag \in tags : TagValid(tag)
      <3>1. ASSUME NEW i \in Said("tag")
            PROVE  TagValid([padded |-> FALSE, core |-> ValueAt(i).core])
        BY <2>d DEF TagValid, Trimmed
      <3> QED BY <3>1
    <2> HIDE DEF p, tags
    <2>1. Validate(p) = "" <=> Something
      <3>1. ASSUME NEW rule \in given PROVE p # NoRule
        <4>1. p[rule] # 0
          BY <2>e
        <4>2. rule \in PolicyFields /\ rule # "tags"
          BY RulesAndFields DEF PolicyFields
        <4> QED BY <4>1, <4>2, RulesAndFields
      <3>2. ASSUME tags # {} PROVE p # NoRule
        BY <2>b, <3>2 DEF NoRule
      <3>3. ASSUME ~Something PROVE p = NoRule
        <4>1. \A f \in PolicyFields : p[f] = IF f = "tags" THEN {} ELSE 0
          BY <2>b, <2>f, <3>3 DEF PolicyFields
        <4> QED BY <2>b, <4>1, RulesAndFields
      <3>4. Something <=> given # {} \/ tags # {}
        BY <2>f
      <3> HIDE DEF Something, given
      <3> QED BY <2>b, <2>g, <3>1, <3>2, <3>3, <3>4 DEF Validate
    <2>2. Something => PolicyFromArgs(counts, tags) = result
      <3>1. \A rule \in given : counts[rule] = p[rule]
        <4>1. ASSUME NEW rule \in given
              PROVE  counts[rule] = p[rule]
          <5>1. (CHOOSE i \in Said(rule) : TRUE) \in Said(rule)
            OBVIOUS
          <5> QED BY <2>b, <5>1
        <4> QED BY <4>1
      <3>2. DOMAIN counts = given
        OBVIOUS
      <3>3. \A rule \in CountRules \ given : p[rule] = 0
        BY <2>b
      <3>a. given \subseteq CountRules
        OBVIOUS
      <3> HIDE DEF counts, given
      <3> DEFINE q == [f \in DOMAIN NoRule |->
                         IF f = "tags" THEN tags
                         ELSE IF f \in DOMAIN counts THEN counts[f] ELSE 0]
      <3>4. q = p
        <4>1. \A f \in PolicyFields : q[f] = p[f]
          BY <2>b, <3>1, <3>2, <3>3, RulesAndFields DEF PolicyFields
        <4> QED BY <2>b, <4>1, RulesAndFields
      <3>5. ~ \E rule \in DOMAIN counts : counts[rule] = 0
        BY <2>e, <3>1, <3>2
      <3>6. PolicyFromArgs(counts, tags) =
              [error |-> IF \E rule \in DOMAIN counts : counts[rule] = 0
                         THEN "retention_policy_count_invalid" ELSE Validate(q), policy |-> q]
        BY Zenon DEF PolicyFromArgs
      <3> HIDE DEF q
      <3> QED BY <1>1, <1>4, <3>4, <3>5, <3>6 DEF p
    <2>3. given # {} => newest \in Kept(p, {newest, [newest EXCEPT !.id = 1]})
      <3> SUFFICES ASSUME NEW rule \in given
                   PROVE  newest \in Kept(p, {newest, [newest EXCEPT !.id = 1]})
        OBVIOUS
      <3> DEFINE S == {newest, [newest EXCEPT !.id = 1]}
      <3>1. Newer(S, newest) = {}
        BY DEF Newer, After
      <3>2. p[rule] \in Nat /\ p[rule] > 0 /\ rule \in CountRules
        BY <2>e
      <3>3. newest \in S
        OBVIOUS
      <3> HIDE DEF newest, S
      <3>4. CASE rule = "last"
        <4>1. newest \in KeepLast(S, p.last)
          BY <3>1, <3>2, <3>3, <3>4, FS_EmptySet DEF KeepLast
        <4> QED BY <4>1 DEF Kept, S
      <3>5. CASE rule \in PeriodicRules
        <4>1. Buckets(rule, {}) = {}
          BY DEF Buckets
        <4>2. newest \in KeepPeriodic(S, p[rule], rule)
          BY <3>1, <3>2, <3>3, <4>1, FS_EmptySet DEF KeepPeriodic
        <4> QED BY <3>5, <4>2 DEF Kept, S
      <3> QED BY <3>2, <3>4, <3>5 DEF CountRules
    <2> HIDE DEF result, given, counts, newest, Something
    <2> QED BY <2>1, <2>2, <2>3 DEF p
  <1> HIDE DEF result, given, counts, tags, newest, Something
  <1>5. /\ result.error = "" <=> WellFormed
        /\ result.error = "" =>
              /\ PolicyFromArgs(counts, tags) = result
              /\ given # {} => newest \in Kept(result.policy, {newest, [newest EXCEPT !.id = 1]})
    BY <1>1, <1>2, <1>3, <1>4
  <1> QED BY <1>5 DEF SpecMeansRules, result, given, counts, tags, newest
LEMMA ReadIsInvariant == LoopSpec => []ReadInv
  <1>1. LoopInit => ReadInv
    <2> SUFFICES ASSUME LoopInit PROVE ReadInv
      OBVIOUS
    <2>1. spec = <<>> /\ read = NothingRead
      BY DEF LoopInit
    <2>2. \A rule : Said(rule) = {}
      BY <2>1 DEF Said
    <2>3. FineParts
      BY <2>1, <2>2 DEF FineParts
    <2>4. PolicyRead
      BY <2>1, <2>2, RulesAndFields DEF PolicyRead, NothingRead, PolicyFields
    <2>5. /\ read = [error |-> read.error, policy |-> read.policy, seen |-> read.seen]
          /\ read.error = "" /\ read.seen = {}
      BY <2>1 DEF NothingRead
    <2>6. {rule \in CountRules : Said(rule) # {}} = {}
      BY <2>2
    <2>7. spec \in Seq(Parts)
      BY <2>1
    <2> QED BY <2>3, <2>4, <2>5, <2>6, <2>7 DEF ReadInv
  <1>2. ReadInv /\ [LoopNext]_loopVars => ReadInv'
    <2> SUFFICES ASSUME ReadInv, [LoopNext]_loopVars PROVE ReadInv'
      OBVIOUS
    <2>1. ASSUME spec' = spec, read' = read
          PROVE  ReadInv'
      <3>1. (\A rule : Said(rule)' = Said(rule)) /\ \A i : ValueAt(i)' = ValueAt(i)
        BY <2>1 DEF Said, ValueAt, Blank, RuleName
      <3>2. FineParts' <=> FineParts
        BY <2>1, <3>1 DEF FineParts
      <3>3. PolicyRead' <=> PolicyRead
        BY <2>1, <3>1 DEF PolicyRead
      <3>4. {rule \in CountRules : Said(rule) # {}}' = {rule \in CountRules : Said(rule) # {}}
        BY <3>1
      <3> QED BY <2>1, <3>2, <3>3, <3>4 DEF ReadInv
    <2>2. CASE \E part \in Parts : WritePart(part)
      BY <2>2, WritePartInv
    <2>3. CASE ~ \E part \in Parts : WritePart(part)
      BY <2>1, <2>3 DEF LoopNext, loopVars, Collect, Visit, NextRule, PassDay
    <2> QED BY <2>2, <2>3
  <1> QED BY <1>1, <1>2, PTL DEF LoopSpec

(***************************************************************************)
(* RetentionPolicy::parse_spec accepts exactly the texts whose parts are   *)
(* rules that can be followed, and reads them, in whatever order, as the   *)
(* policy that the flags of forget make of the same rules: for texts of    *)
(* any length and for any numbers and tags.                                *)
(***************************************************************************)
THEOREM SpecIsRules == LoopSpec => []SpecMeansRules
  BY ReadIsInvariant, ReadMeans, PTL
=============================================================================
