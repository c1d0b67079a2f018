------------------------------ MODULE Catalog ------------------------------
(***************************************************************************)
(* What a repository is to its user: a set of snapshots that only grows,   *)
(* each with its contents stored, and a set of snapshots that have been    *)
(* forgotten.  A snapshot appears in one step, with all of its contents,   *)
(* and these never change.  Only a published snapshot is forgotten, and a  *)
(* forgotten one does not come back.                                       *)
(*                                                                         *)
(* The module is only used as a property: Publish names the new snapshot   *)
(* through the next state, so that Snapshots need not be enumerated.       *)
(***************************************************************************)
CONSTANT Snapshots      \* snapshots with their contents

VARIABLES
    published,          \* committed snapshots
    forgotten           \* snapshots hidden from listing and selection

vars == <<published, forgotten>>

TypeOK == published \subseteq Snapshots /\ forgotten \subseteq published

Init == published = {} /\ forgotten = {}

Publish ==
    /\ \E s \in published' : s \in Snapshots /\ published' = published \cup {s}
    /\ UNCHANGED forgotten

Hide(s) ==
    /\ s \in published
    /\ forgotten' = forgotten \cup {s}
    /\ UNCHANGED published

Next == \/ Publish
        \/ \E s \in published : Hide(s)

Spec == Init /\ [][Next]_vars
=============================================================================
