-------------------------- MODULE MCRetentionLoop --------------------------
(***************************************************************************)
(* Instance of RetentionLoop: times on both sides of the bounds of hours,  *)
(* days, weeks, months and years.                                          *)
(***************************************************************************)
EXTENDS RetentionLoop, TLC

Day(n) == n * 86400

(* 1970-01-01, the end of its first hour, of the first week, of January and
   of the year. *)
MCTimes == {0, 3599, 3600, Day(6), Day(7) - 1, Day(31) - 1, Day(31), Day(365)}

MCPolicies ==
    {[NoRule EXCEPT !.last = n] : n \in 1..2}
    \cup {[NoRule EXCEPT ![rule] = n] : rule \in PeriodicRules, n \in 1..2}
    \cup {[NoRule EXCEPT !.last = 1, !.daily = 2, !.monthly = 2, !.tags = {"t"}]}

MCNumbers == "0" :> 0 @@ "1" :> 1 @@ "2" :> 2

Name(rule, dash) == [rule |-> rule, dash |-> dash]
Value(core) == <<[padded |-> FALSE, core |-> core]>>
Padded(core) == <<[padded |-> TRUE, core |-> core]>>

(* "4294967296" is not a u32; a blank part, "last" without '=', "=1". *)
MCParts ==
    [name : {Name("last", TRUE)}, value : {<<>>, Value("1"), Padded("2"), Value("4294967296")}]
    \cup [name : {Name("last", FALSE), Name("daily", FALSE)}, value : {Value("0"), Value("2")}]
    \cup [name : {Name("tag", TRUE)}, value : {Value("1"), Padded("t"), Padded(""), Value("tabbed")}]
    \cup [name : {Name("", TRUE)}, value : {<<>>, Value("1")}]
    \cup [name : {Name("minutely", TRUE)}, value : {Value("1")}]
=============================================================================
