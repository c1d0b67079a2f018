------------------------------- MODULE MCWalk -------------------------------
(***************************************************************************)
(* Instances of Walk: two trees side by side with names of one to four     *)
(* characters.  All patterns up to three characters of four, some longer   *)
(* ones, on a tree at rest; a few patterns on trees that change.           *)
(***************************************************************************)
EXTENDS Walk

r == <<"r">>
s == <<"s">>
a == <<"a">>
b == <<"b">>
ab == <<"a", "b">>
abab == <<"a", "b", "a", "b">>

MCOrder == << <<r>>, <<r, a>>, <<r, a, ab>>, <<r, a, b>>, <<r, a, b, abab>>, <<r, abab>>,
              <<r, b>>, <<s>>, <<s, a>> >>

(* Directories all over; the same with something else at p. *)
Full == [p \in Paths |-> IF \E q \in Paths : Below(p, q) THEN "dir" ELSE "file"]
With(p, kind) == [q \in Paths |-> IF q = p THEN kind
                                  ELSE IF Below(p, q) THEN "none" ELSE Full[q]]

Chars == {"a", "b", "*", "/"}
Patterns ==
    UNION {[1..n -> Chars] : n \in 0..3} \cup
    {<<"*", "*", "/", "b">>, <<"a", "/", "*", "*">>, <<"*", "*", "/", "a", "b">>,
     <<"*", "*", "/", "b", "/">>, <<"/", "a", "/", "b", "/">>, <<"a", "\\", "b">>,
     <<"*", "b", "a", "*">>, <<"a", "*", "b", "*", "b">>, <<"*", "b", "a", "b">>,
     <<"a", "b", "*", "a", "b">>, <<"a", "/", "*", "b">>, <<"*", "/", "*", "/">>}

AtRest == {[roots |-> << <<r>> >>, patterns |-> <<p>>, tree |-> Full, max |-> 0] : p \in Patterns}

Changing ==
    {[roots |-> << <<r>> >>, patterns |-> << <<"a", "/", "b">>, <<"*", "b">> >>, tree |-> t, max |-> 3] :
        t \in {Full, With(<<r, b>>, "link"), With(<<r, a>>, "link"),
                With(<<r, a, b>>, "other"), With(<<r>>, "file")}}

Many == {[roots |-> << <<r>>, <<s>> >>, patterns |-> << <<"b", "/">> >>, tree |-> Full, max |-> 1]}

MCSetups == AtRest \cup Changing \cup Many
=============================================================================
