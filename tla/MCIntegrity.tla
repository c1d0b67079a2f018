----------------------------- MODULE MCIntegrity -----------------------------
(***************************************************************************)
(* Instances of Integrity: two snapshots that share a chunk.               *)
(***************************************************************************)
EXTENDS Integrity

SharedChunk == <<(<<(<<1, 2>>), <<>>>>), (<<(<<2>>), (<<3, 2>>)>>)>>

AllModes == {[mode |-> "full", n |-> 1], [mode |-> "count", n |-> 2],
             [mode |-> "percent", n |-> 34]}
=============================================================================
