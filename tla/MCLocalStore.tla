---------------------------- MODULE MCLocalStore ----------------------------
(***************************************************************************)
(* Instance of LocalStore: two callers, either in two ferry processes on   *)
(* one repository or as two tasks of one process; or one caller beside a   *)
(* listing, with two keys at different depths.                             *)
(***************************************************************************)
EXTENDS LocalStore, TLC

CONSTANTS c1, c2, p1, p2, p3, b1, b2

Flat == <<"c", "1">>
Deep == <<"c", "d", "2">>
MCKeys == {Flat, Deep}

Racing(pid) == [pid |-> pid, keys |-> {Flat}, lists |-> {}, fails |-> TRUE]

MCSetups ==
    {Racing((c1 :> p1) @@ (c2 :> p2)), Racing((c1 :> p3) @@ (c2 :> p3)),
     [pid |-> c1 :> p1, keys |-> MCKeys, lists |-> {<<>>, <<"c">>}, fails |-> FALSE],
     [pid |-> c2 :> p2, keys |-> {Flat}, lists |-> {<<"c">>, Flat}, fails |-> TRUE]}

MCLastTempId == (p1 :> 1) @@ (p2 :> 0) @@ (p3 :> 1)

ByteSymmetry == Permutations(Bytes)
=============================================================================
