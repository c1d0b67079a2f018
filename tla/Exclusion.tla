----------------------------- MODULE Exclusion -----------------------------
(***************************************************************************)
(* ExclusionRule: how the pattern of a rule is taken apart and compared    *)
(* with the relative path of an entry, and what a glob means, to compare   *)
(* it with.  A name or a pattern is a sequence of characters, since the    *)
(* places where a literal fits a name are what matters here; a path is a   *)
(* sequence of names.                                                      *)
(***************************************************************************)
EXTENDS Naturals, Sequences, SequencesExt, FiniteSetsExt

Slashes == {"/", "\\"}

(* str::split: what lies between place i of s and the cut before it. *)
LastCut(s, cuts, i) == Max({0} \cup {k \in 1..(i - 1) : s[k] \in cuts})
Piece(s, cuts, i) == SubSeq(s, LastCut(s, cuts, i) + 1, i - 1)

(***************************************************************************)
(* What ExclusionRule::new splits the pattern into; the empty segments are *)
(* dropped, which leaves trimming '/' nothing to do.  Found[i] are those   *)
(* that end before place i.                                                *)
(***************************************************************************)
Segments(pattern) ==
    LET Found[i \in 0..(Len(pattern) + 1)] ==
            IF i = 0 THEN <<>>
            ELSE IF /\ i \in DOMAIN pattern => pattern[i] \in Slashes
                    /\ Piece(pattern, Slashes, i) # <<>>
            THEN Append(Found[i - 1], Piece(pattern, Slashes, i))
            ELSE Found[i - 1] IN
    Found

(* ExclusionRule::new *)
Rule(pattern) ==
    [pattern          |-> pattern,
     segments         |-> Segments(pattern)[Len(pattern) + 1],
     directory_prefix |-> pattern # <<>> /\ Last(pattern) = "/"]

(* The offsets at which part lies in value, from offset k on. *)
Occurrences(part, value, k) ==
    {j \in k..(Len(value) - Len(part)) : SubSeq(value, j + 1, j + Len(part)) = part}

Missing == 0 - 1

(***************************************************************************)
(* The loop of wildcard_match.  Of the parts of the pattern between stars, *)
(* the first must begin value, each other one is taken where it is found   *)
(* first.  Taken[i] is how much of value the parts before place i use up.  *)
(***************************************************************************)
Taken(pattern, value) ==
    LET Used[i \in 0..(Len(pattern) + 1)] ==
            IF i = 0 THEN 0
            ELSE LET star == LastCut(pattern, {"*"}, i)
                     part == Piece(pattern, {"*"}, i)
                     from == Used[star]
                     found == {j \in Occurrences(part, value, from) : star = 0 => j = 0} IN
                 IF from = Missing \/ found = {} THEN Missing ELSE Min(found) + Len(part) IN
    Used

(* Mutant of WildcardMatch: a literal at the end need not end the name. *)
WildcardMatchOpen(pattern, value) ==
    pattern # <<>> /\ Taken(pattern, value)[Len(pattern) + 1] # Missing

(* wildcard_match *)
WildcardMatch(pattern, value) ==
    LET taken == Taken(pattern, value)[Len(pattern) + 1] IN
    /\ pattern # <<>>
    /\ taken # Missing
    /\ Last(pattern) = "*" \/ taken = Len(value)

(* path_segments_match, of what follows the first at[1] segments and at[2] names. *)
MatchFrom(segments, path) ==
    LET Match[at \in (0..Len(segments)) \X (0..Len(path))] ==
            IF at[1] = Len(segments) THEN at[2] = Len(path)
            ELSE IF segments[at[1] + 1] = <<"*", "*">>
            THEN \/ Match[<<at[1] + 1, at[2]>>]
                 \/ at[2] < Len(path) /\ Match[<<at[1], at[2] + 1>>]
            ELSE /\ at[2] < Len(path)
                 /\ WildcardMatch(segments[at[1] + 1], path[at[2] + 1])
                 /\ Match[<<at[1] + 1, at[2] + 1>>] IN
    Match

SegmentsMatch(segments, path) == MatchFrom(segments, path)[<<0, 0>>]

IsBareName(rule) == ~Contains(rule.pattern, "/") /\ ~Contains(rule.pattern, "\\")

(* ExclusionRule::matches *)
Matches(rule, path) ==
    LET n == Len(rule.segments) IN
    /\ path # <<>> /\ n # 0
    /\ rule.directory_prefix => Len(path) >= n
    /\ IF IsBareName(rule)
       THEN \E i \in DOMAIN path : WildcardMatch(rule.segments[1], path[i])
       ELSE IF rule.directory_prefix
       THEN SegmentsMatch(rule.segments, SubSeq(path, 1, n))
       ELSE SegmentsMatch(rule.segments, path)

-----------------------------------------------------------------------------
(* What the patterns mean *)

(***************************************************************************)
(* n things that stand, one after the other, for m others: a wide one for  *)
(* any number of them, each other one for one that fits it.  StandFor[i]   *)
(* is how many of the m the first i can stand for.                         *)
(***************************************************************************)
StandFor(n, m, wide, fits) ==
    LET Used[i \in 0..n] ==
            IF i = 0 THEN {0}
            ELSE IF i \in wide THEN UNION {k..m : k \in Used[i - 1]}
            ELSE {k + 1 : k \in {j \in Used[i - 1] : <<i, j + 1>> \in fits}} IN
    Used

Stars(pattern) == {i \in DOMAIN pattern : pattern[i] = "*"}

(* A star stands for any number of characters of one name. *)
Glob(pattern, name) ==
    LET equal == {at \in (DOMAIN pattern) \X (DOMAIN name) : pattern[at[1]] = name[at[2]]} IN
    Len(name) \in StandFor(Len(pattern), Len(name), Stars(pattern), equal)[Len(pattern)]

DoubleStars(segments) == {i \in DOMAIN segments : segments[i] = <<"*", "*">>}

(* A double star stands for any number of names, another segment for one. *)
GlobPath(segments, path) ==
    LET globs == {at \in (DOMAIN segments) \X (DOMAIN path) : Glob(segments[at[1]], path[at[2]])} IN
    Len(path) \in StandFor(Len(segments), Len(path), DoubleStars(segments), globs)[Len(segments)]

(***************************************************************************)
(* The rule means to exclude path: a bare name, some name on it; a pattern *)
(* with a slash, the path from the root on, of which a pattern that ends   *)
(* in one, which stands for a directory, names the beginning.              *)
(***************************************************************************)
Means(rule, path) ==
    /\ path # <<>> /\ rule.segments # <<>>
    /\ IF IsBareName(rule)
       THEN \E i \in DOMAIN path : Glob(rule.segments[1], path[i])
       ELSE IF rule.directory_prefix
       THEN \E n \in DOMAIN path : GlobPath(rule.segments, SubSeq(path, 1, n))
       ELSE GlobPath(rule.segments, path)

(***************************************************************************)
(* Two things matches may miss.  wildcard_match takes the first place      *)
(* where the literal after the last star fits, which need not be the end   *)
(* of the name.  A rule for a directory is compared with as many names as  *)
(* it has segments, however many a double star in it could stand for.      *)
(***************************************************************************)
Repeated(segment, name) ==
    LET last == Piece(segment, {"*"}, Len(segment) + 1) IN
    /\ Contains(segment, "*") /\ last # <<>>
    /\ \E p, q \in Occurrences(last, name, 0) : p # q

MissesRepeated(rule, path) ==
    \E i \in DOMAIN rule.segments, j \in DOMAIN path : Repeated(rule.segments[i], path[j])

MissesDeep(rule) ==
    rule.directory_prefix /\ Contains(rule.segments, <<"*", "*">>)

MayMiss(rule, path) == MissesRepeated(rule, path) \/ MissesDeep(rule)
=============================================================================
