--------------------------- MODULE RetentionLoop ---------------------------
(***************************************************************************)
(* The computations under RetentionPolicy::plan, one step of a loop at a   *)
(* time, beside a reference.  With a policy, snapshots are collected and   *)
(* then planned over, rule by rule and for each rule newest first; what is *)
(* kept is compared with the rules of module Retention.  Without one, the  *)
(* days are counted from 1970-01-01, and civil_from_days is compared with  *)
(* that calendar; or from_str reads the text of a policy part by part, and *)
(* what it has read is compared with what the parts say.                   *)
(***************************************************************************)
EXTENDS Policy

CONSTANTS
    Ids,            \* snapshot ids, numbers
    Times,          \* created_at_unix_seconds
    TagSets,        \* tag sets a snapshot may have
    Policies,       \* policies to plan with
    NoPolicy,       \* the calendar is followed, not a plan
    Parts,          \* parts a policy may be written of
    MaxSnapshots,   \* bound: snapshots in one plan
    MaxParts,       \* bound: parts of one text
    LastDay         \* bound: days since the epoch

ASSUME RetentionLoopAssumption ==
    /\ Ids \subseteq Nat /\ Times \subseteq Nat
    /\ NoPolicy \notin Policies
    /\ \A p \in Policies : \A rule \in CountRules : p[rule] \in Nat
    /\ \A part \in Parts :
          part.value # <<>> => /\ DOMAIN part.value = {1}
                               /\ part.value[1] \in [padded : BOOLEAN, core : STRING]
    /\ \A core \in DOMAIN Numbers : Numbers[core] \in Nat
    /\ MaxSnapshots \in Nat /\ MaxParts \in Nat /\ LastDay \in Nat

VARIABLES
    policy,         \* what is followed, fixed
    snapshots,      \* snapshots to plan over
    plan,           \* local state of plan and keep_periodic
    spec,           \* the text of a policy, part by part
    read,           \* local state of from_str
    day,            \* days since the epoch
    date            \* its date in the calendar

loopVars == <<policy, snapshots, plan, spec, read, day, date>>

(* The rules in the order of the plan; at 0 it has not begun, at 8 it is done. *)
RuleOrder == <<"last", "hourly", "daily", "weekly", "monthly", "yearly", "tags">>

LoopInit ==
    /\ policy \in Policies \cup {NoPolicy}
    /\ snapshots = {}
    /\ plan = [at |-> 0, left |-> {}, kept_buckets |-> {}, kept |-> {}]
    /\ spec = <<>>
    /\ read = NothingRead
    /\ day = 0
    /\ date = [year |-> 1970, month |-> 1, day |-> 1]

-----------------------------------------------------------------------------
(* The plan *)

Collect(s) ==
    /\ policy # NoPolicy
    /\ plan.at = 0 /\ Cardinality(snapshots) < MaxSnapshots
    /\ \A t \in snapshots : t.id # s.id
    /\ snapshots' = snapshots \cup {s}
    /\ UNCHANGED <<policy, plan, spec, read, day, date>>

CurrentRule == RuleOrder[plan.at]

(* Mutant of Enough: the loop breaks one bucket late. *)
EnoughLate ==
    CASE CurrentRule = "last" -> Cardinality(snapshots \ plan.left) >= policy.last
      [] CurrentRule = "tags" -> FALSE
      [] OTHER -> policy[CurrentRule] = 0 \/ Cardinality(plan.kept_buckets) > policy[CurrentRule]

(* take(count); the break of keep_periodic, or its return without a count. *)
Enough ==
    CASE CurrentRule = "last" -> Cardinality(snapshots \ plan.left) >= policy.last
      [] CurrentRule = "tags" -> FALSE
      [] OTHER -> Cardinality(plan.kept_buckets) >= policy[CurrentRule]

(* kept_buckets.insert is true for a bucket that is not in it yet. *)
Keeps(s) ==
    CASE CurrentRule = "last" -> TRUE
      [] CurrentRule = "tags" -> s.tags \cap policy.tags # {}
      [] OTHER -> Bucket(CurrentRule, s.created_at) \notin plan.kept_buckets

(* The next of `ordered`, the newest one left. *)
Visit(s) ==
    /\ plan.at \in DOMAIN RuleOrder /\ ~Enough
    /\ s \in plan.left /\ Newer(plan.left, s) = {}
    /\ plan' = [plan EXCEPT
          !.left = @ \ {s},
          !.kept_buckets = IF CurrentRule \in PeriodicRules
                           THEN @ \cup {Bucket(CurrentRule, s.created_at)} ELSE @,
          !.kept = IF Keeps(s) THEN @ \cup {s} ELSE @]
    /\ UNCHANGED <<policy, snapshots, spec, read, day, date>>

NextRule ==
    /\ policy # NoPolicy
    /\ plan.at = 0 \/ (plan.at \in DOMAIN RuleOrder /\ (plan.left = {} \/ Enough))
    /\ plan' = [plan EXCEPT !.at = @ + 1, !.left = snapshots, !.kept_buckets = {}]
    /\ UNCHANGED <<policy, snapshots, spec, read, day, date>>

-----------------------------------------------------------------------------
(* The calendar *)

Leap(y) == (y % 4 = 0 /\ y % 100 # 0) \/ y % 400 = 0

DaysIn(y, m) ==
    CASE m = 2               -> IF Leap(y) THEN 29 ELSE 28
      [] m \in {4, 6, 9, 11} -> 30
      [] OTHER               -> 31

Tomorrow(d) ==
    IF d.day < DaysIn(d.year, d.month) THEN [d EXCEPT !.day = @ + 1]
    ELSE IF d.month < 12 THEN [year |-> d.year, month |-> d.month + 1, day |-> 1]
    ELSE [year |-> d.year + 1, month |-> 1, day |-> 1]

PassDay ==
    /\ policy = NoPolicy
    /\ spec = <<>> /\ day < LastDay
    /\ day' = day + 1
    /\ date' = Tomorrow(date)
    /\ UNCHANGED <<policy, snapshots, plan, spec, read>>

-----------------------------------------------------------------------------
(* The text of a policy *)

WritePart(part) ==
    /\ policy = NoPolicy /\ day = 0
    /\ Len(spec) < MaxParts
    /\ spec' = Append(spec, part)
    /\ read' = ReadPart(read, part)
    /\ UNCHANGED <<policy, snapshots, plan, day, date>>

LoopNext ==
    \/ \E s \in [id : Ids, created_at : Times, tags : TagSets] : Collect(s)
    \/ \E s \in plan.left : Visit(s)
    \/ NextRule
    \/ PassDay
    \/ \E part \in Parts : WritePart(part)

LoopSpec == LoopInit /\ [][LoopNext]_loopVars

-----------------------------------------------------------------------------
(* Properties *)

(***************************************************************************)
(* The single pass of keep_periodic with its early break, and take(count), *)
(* keep what the rules say: the newest snapshot of each of the newest      *)
(* buckets in use, whatever the gaps and ties between snapshots are.       *)
(***************************************************************************)
LoopKeepsByRule == plan.at > Len(RuleOrder) => plan.kept = Kept(policy, snapshots)

(***************************************************************************)
(* civil_from_days gives the date of the calendar on every day, through    *)
(* leap years and the century rules, so that a snapshot falls in the right *)
(* monthly and yearly bucket.                                              *)
(***************************************************************************)
CivilIsCalendar == CivilFromDays(day) = date

(* What a text says: its parts by rule, whatever their order. *)
Said(rule) == {i \in DOMAIN spec : ~Blank(spec[i]) /\ RuleName(spec[i]) = rule}

ValueAt(i) == spec[i].value[1]

(* Every part has a value; a count is a number from 1 and said once. *)
WellFormed ==
    LET Names == CountRules \cup {"tag"} IN
    /\ \A i \in DOMAIN spec : Blank(spec[i]) \/ (spec[i].value # <<>> /\ ValueAt(i).core # "")
    /\ \A i \in DOMAIN spec : Blank(spec[i]) \/ \E rule \in Names : i \in Said(rule)
    /\ \A rule \in CountRules : \A i, j \in Said(rule) : i = j
    /\ \A rule \in CountRules : \A i \in Said(rule) :
          ValueAt(i).core \in DOMAIN Numbers /\ Numbers[ValueAt(i).core] # 0
    /\ \A i \in Said("tag") : ValueAt(i).core \notin NotTags
    /\ \E rule \in Names : Said(rule) # {}

(***************************************************************************)
(* parse_spec accepts exactly the texts in which every part is a rule with *)
(* a value, no count is zero or given twice, and something is kept; the    *)
(* order of the parts does not matter, the policy is the one the flags of  *)
(* forget make of the same rules, and with a count in it the policy keeps  *)
(* the newest snapshot, whatever the snapshots are.                        *)
(***************************************************************************)
SpecMeansRules ==
    LET result == ReadSpec(read)
        given == {rule \in CountRules : Said(rule) # {}}
        counts == [rule \in given |-> Numbers[ValueAt(CHOOSE i \in Said(rule) : TRUE).core]]
        tags == {[padded |-> FALSE, core |-> ValueAt(i).core] : i \in Said("tag")}
        newest == [id |-> 2, created_at |-> 3600, tags |-> {}] IN
    /\ result.error = "" <=> WellFormed
    /\ result.error = "" =>
          /\ PolicyFromArgs(counts, tags) = result
          /\ given # {} => newest \in Kept(result.policy, {newest, [newest EXCEPT !.id = 1]})
=============================================================================
