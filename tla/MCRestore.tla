----------------------------- MODULE MCRestore -----------------------------
(***************************************************************************)
(* Instances of Restore: four paths, a directory that may hold another     *)
(* entry and two more, with every kind of entry and of obstacle.           *)
(***************************************************************************)
EXTENDS Restore, TLC

MCOrder == << <<>>, <<"a">>, <<"a", "b">>, <<"c">> >>

E(kind, data, time) == [kind |-> kind, data |-> data, time |-> time]
None == E("none", "", TRUE)
Dir == E("dir", "", TRUE)
File == E("file", "new", TRUE)
Link == E("link", "", TRUE)
Untimed(e) == [e EXCEPT !.time = FALSE]

Tree(root, a, b, c) == <<>> :> root @@ <<"a">> :> a @@ <<"a", "b">> :> b @@ <<"c">> :> c

(* Everything a walk can have met, and below a file or link what it cannot. *)
AllSnapshots ==
    {Tree(r, a, b, c) : r \in {None, Dir},
                        a \in {None, Dir, Untimed(Dir), File, Link},
                        b \in {None, File, Untimed(File), Link},
                        c \in {File, Link, Untimed(Link), E("other", "", TRUE),
                               E("file", "", TRUE)}}

(* The selections from one tree: each path has one kind. *)
OneTree ==
    {Tree(r, a, b, c) : r \in {None, Dir}, a \in {None, Dir},
                        b \in {None, Link}, c \in {None, File}}
    \ {Tree(None, None, None, None)}

FewSnapshots == {Tree(Dir, Dir, File, Link), Tree(Dir, Dir, Link, File)}

AllRequests == {{}, {<<"a">>}, {<<"a", "b">>}, {<<"c">>, <<".", "a">>}, {<<".">>}, {<<"..", "a">>}}

N(kind, data) == [kind |-> kind, data |-> data, time |-> "before"]
D == N("dir", "")
F == N("file", "old")
L == N("link", "")

EmptyDestination == {Tree(Nothing, Nothing, Nothing, Nothing), Tree(D, Nothing, Nothing, Nothing)}
AllDestinations ==
    {Tree(Nothing, Nothing, Nothing, Nothing), Tree(L, Nothing, Nothing, Nothing),
     Tree(F, Nothing, Nothing, Nothing)}
    \cup {Tree(D, a, b, c) : a \in {Nothing, D, F, L}, b \in {Nothing}, c \in {Nothing, D, F, L}}
    \cup {Tree(D, D, b, c) : b \in {D, F, L}, c \in {Nothing, F}}
FewDestinations ==
    EmptyDestination \cup {Tree(D, D, F, Nothing), Tree(D, Nothing, Nothing, F)}

(* Every manifest into every destination; a restore that is killed and
   repeated; a destination other programs work in. *)
MCSetups ==
    [quiet |-> [snapshots |-> AllSnapshots, requests |-> AllRequests,
                destinations |-> AllDestinations, busy |-> FALSE, max_runs |-> 1],
     retry |-> [snapshots |-> OneTree, requests |-> {{}},
                destinations |-> EmptyDestination, busy |-> FALSE, max_runs |-> 2],
     busy  |-> [snapshots |-> FewSnapshots, requests |-> {{}},
                destinations |-> FewDestinations, busy |-> TRUE, max_runs |-> 1]]
=============================================================================
