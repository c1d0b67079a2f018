------------------------------- MODULE Policy -------------------------------
(***************************************************************************)
(* How a retention policy is written: RetentionPolicy::parse_spec, for a   *)
(* text of rules, and retention_policy_from_args, for the flags of forget. *)
(*                                                                         *)
(* A text is the sequence of its parts between commas.  A part has a name, *)
(* the rule with the separator of its words, and at most one value (absent *)
(* without '='); a value has padding around a core.  Both return an error, *)
(* "" for none, and a policy as in module Retention.                       *)
(***************************************************************************)
EXTENDS Retention, Sequences

CONSTANTS
    Numbers,        \* core -> its number, for the cores that are a u32
    NotTags         \* cores with a comma or a control character

CountRules == {"last"} \cup PeriodicRules

NoRule == [last |-> 0, hourly |-> 0, daily |-> 0, weekly |-> 0, monthly |-> 0,
           yearly |-> 0, tags |-> {}]

(* trim *)
Trimmed(value) == [padded |-> FALSE, core |-> value.core]

(* normalize_rule_name: keep_last and keep-last are one rule. *)
RuleName(part) == part.name.rule

(* parse_count, RetentionCount::new *)
CountValid(core) == core \in DOMAIN Numbers /\ Numbers[core] > 0

(* parse_tag *)
TagValid(value) == Trimmed(value).core \notin NotTags \cup {""}

(* is_empty, validate; the tags stay as they are. *)
Validate(policy) ==
    IF policy = NoRule THEN "retention_policy_empty"
    ELSE IF \E tag \in policy.tags : ~TagValid(tag) THEN "retention_policy_tag_invalid"
    ELSE ""

(* Mutant of PartError: a rule may be given twice, the last one counts. *)
PartErrorRepeated(part, seen) ==
    IF part.value = <<>> \/ part.value[1].core = "" THEN "retention_policy_value_missing"
    ELSE IF RuleName(part) = "tag"
    THEN IF TagValid(part.value[1]) THEN "" ELSE "retention_policy_tag_invalid"
    ELSE IF RuleName(part) \notin CountRules THEN "retention_policy_rule_unknown"
    ELSE IF ~CountValid(part.value[1].core) THEN "retention_policy_count_invalid"
    ELSE ""

(* What is wrong with a part, after the rules in seen. *)
PartError(part, seen) ==
    IF part.value = <<>> \/ part.value[1].core = "" THEN "retention_policy_value_missing"
    ELSE IF RuleName(part) = "tag"
    THEN IF TagValid(part.value[1]) THEN "" ELSE "retention_policy_tag_invalid"
    ELSE IF RuleName(part) \notin CountRules THEN "retention_policy_rule_unknown"
    ELSE IF RuleName(part) \in seen THEN "retention_policy_rule_duplicated"
    ELSE IF ~CountValid(part.value[1].core) THEN "retention_policy_count_invalid"
    ELSE ""

WithRule(policy, part) ==
    IF RuleName(part) = "tag" THEN [policy EXCEPT !.tags = @ \cup {Trimmed(part.value[1])}]
    ELSE [policy EXCEPT ![RuleName(part)] = Numbers[part.value[1].core]]

(* A part that is blank: nothing between two commas. *)
Blank(part) == RuleName(part) = "" /\ part.value = <<>>

(* from_str: the loop over the parts, and what is returned after the last. *)
NothingRead == [error |-> "", policy |-> NoRule, seen |-> {}]

ReadPart(read, part) ==
    LET error == PartError(part, read.seen) IN
    IF read.error # "" \/ Blank(part) THEN read
    ELSE IF error # "" THEN [error |-> error, policy |-> read.policy, seen |-> read.seen]
    ELSE [error |-> "", policy |-> WithRule(read.policy, part),
          seen |-> read.seen \cup ({RuleName(part)} \cap CountRules)]

ReadSpec(read) ==
    [error |-> IF read.error # "" THEN read.error ELSE Validate(read.policy),
     policy |-> read.policy]

(* retention_policy_from_args: clap has read the counts given, as u32. *)
PolicyFromArgs(counts, tags) ==
    LET policy == [f \in DOMAIN NoRule |->
                     IF f = "tags" THEN tags
                     ELSE IF f \in DOMAIN counts THEN counts[f] ELSE 0] IN
    [error |-> IF \E rule \in DOMAIN counts : counts[rule] = 0
               THEN "retention_policy_count_invalid" ELSE Validate(policy),
     policy |-> policy]
=============================================================================
