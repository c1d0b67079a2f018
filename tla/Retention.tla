----------------------------- MODULE Retention -----------------------------
(***************************************************************************)
(* RetentionPolicy::plan: which snapshots a policy keeps.  Each rule is    *)
(* stated by what the loop over the snapshots, newest first, selects;      *)
(* RetentionLoop has the loops themselves.                                 *)
(*                                                                         *)
(* A snapshot is a record with fields id, created_at and tags.  A policy   *)
(* is a record with one count per rule, 0 for a rule that is absent, and   *)
(* the set of tags to keep.                                                *)
(***************************************************************************)
EXTENDS Integers, FiniteSets

PeriodicRules == {"hourly", "daily", "weekly", "monthly", "yearly"}

(* The order of the plan: created_at, then snapshot id, newest first. *)
After(s, t) ==
    \/ s.created_at > t.created_at
    \/ s.created_at = t.created_at /\ s.id > t.id

Newer(S, s) == {t \in S : After(t, s)}

-----------------------------------------------------------------------------
(* Buckets *)

(* Mutant of CivilFromDays: the term for the century years is left out. *)
CivilFromDaysJulian(days) ==
    LET z   == days + 719468
        era == z \div 146097
        doe == z - era * 146097
        yoe == (doe - doe \div 1460 - doe \div 146096) \div 365
        doy == doe - (365 * yoe + yoe \div 4 - yoe \div 100)
        mp  == (5 * doy + 2) \div 153
        month == IF mp < 10 THEN mp + 3 ELSE mp - 9
    IN [year  |-> yoe + era * 400 + (IF month <= 2 THEN 1 ELSE 0),
        month |-> month,
        day   |-> doy - (153 * mp + 2) \div 5 + 1]

(* civil_from_days, for days since the epoch, which are not negative here. *)
CivilFromDays(days) ==
    LET z   == days + 719468
        era == z \div 146097
        doe == z - era * 146097
        yoe == (doe - doe \div 1460 + doe \div 36524 - doe \div 146096) \div 365
        doy == doe - (365 * yoe + yoe \div 4 - yoe \div 100)
        mp  == (5 * doy + 2) \div 153
        month == IF mp < 10 THEN mp + 3 ELSE mp - 9
    IN [year  |-> yoe + era * 400 + (IF month <= 2 THEN 1 ELSE 0),
        month |-> month,
        day   |-> doy - (153 * mp + 2) \div 5 + 1]

Civil(seconds) == CivilFromDays(seconds \div 86400)

Bucket(rule, seconds) ==
    CASE rule = "hourly"  -> seconds \div 3600
      [] rule = "daily"   -> seconds \div 86400
      [] rule = "weekly"  -> seconds \div 604800
      [] rule = "monthly" -> Civil(seconds).year * 12 + Civil(seconds).month
      [] rule = "yearly"  -> Civil(seconds).year

Buckets(rule, S) == {Bucket(rule, s.created_at) : s \in S}

-----------------------------------------------------------------------------
(* Rules *)

(* The first `count` snapshots. *)
KeepLast(S, count) == {s \in S : Cardinality(Newer(S, s)) < count}

(* The newest snapshot of each of the `count` newest buckets in use. *)
KeepPeriodic(S, count, rule) ==
    {s \in S : /\ Bucket(rule, s.created_at) \notin Buckets(rule, Newer(S, s))
               /\ Cardinality(Buckets(rule, Newer(S, s))) < count}

KeepTags(S, tags) == {s \in S : s.tags \cap tags # {}}

Kept(policy, S) ==
    KeepLast(S, policy.last)
    \cup (UNION {KeepPeriodic(S, policy[rule], rule) : rule \in PeriodicRules})
    \cup KeepTags(S, policy.tags)

(* A policy with a rule other than keep-tag. *)
HasCount(policy) == policy.last > 0 \/ \E rule \in PeriodicRules : policy[rule] > 0

(* RetentionPlan::forgotten *)
PlanForgotten(policy, S) == S \ Kept(policy, S)
=============================================================================
