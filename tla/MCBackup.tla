------------------------------ MODULE MCBackup ------------------------------
(***************************************************************************)
(* Instances of Backup: one or two source files and two chunks.            *)
(***************************************************************************)
EXTENDS Backup, TLC

CONSTANTS r1, r2, r3, x, y

(* The same two chunks in both orders, and a file with no chunk. *)
Mixed == {<<>>, <<x, y>>, <<y, x>>}
Growing == {<<>>, <<x>>, <<x, x>>, <<x, y>>}

RunSymmetry == Permutations(Runs)
=============================================================================
