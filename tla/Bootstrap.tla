------------------------------ MODULE Bootstrap ------------------------------
(***************************************************************************)
(* The life of a repository's keys: `ferry init` (create_repository), the  *)
(* opening every command starts with (open_repository) and `ferry key add` *)
(* (add_repository_key_slot), run by several processes on one store.       *)
(*                                                                         *)
(* A run that creates a repository draws its id and master key at random,  *)
(* so the run stands for both; an added slot has a random id, so the run   *)
(* that adds it stands for it.  The store is the conditional one of        *)
(* RemoteStore: a put may take effect although its caller gets an error,   *)
(* at once or later, and a retry may find what an earlier attempt created. *)
(***************************************************************************)
EXTENDS Naturals, FiniteSets

CONSTANTS
    Inits,          \* runs of ferry init
    Adds,           \* runs of ferry key add
    PassOf,         \* run -> the passphrase it is given
    NewPassOf,      \* key add run -> the passphrase to add
    Absent          \* no bootstrap object

ASSUME BootstrapAssumption ==
    /\ IsFiniteSet(Adds)
    /\ Inits \cap Adds = {}
    /\ Absent \notin Inits

Runs == Inits \cup Adds

VARIABLES
    bootstrap,      \* the run whose bootstrap object is stored, or Absent
    slots,          \* key-slots/<id>: the run that adds it, the key it wraps
    late,           \* puts given up, not executed yet
    run             \* run -> where it is, the repository it opened or created,
                    \* which stands for its master key, and the slots counted

vars == <<bootstrap, slots, late, run>>

Init ==
    /\ bootstrap = Absent
    /\ slots = {}
    /\ late = {}
    /\ run = [r \in Runs |-> [pc |-> "idle", repo |-> Absent, count |-> 0]]

At(r, pc) == run[r].pc = pc
Become(r, pc, repo, count) ==
    run' = [run EXCEPT ![r] = [pc |-> pc, repo |-> repo, count |-> count]]
GoTo(r, pc) == Become(r, pc, run[r].repo, run[r].count)

-----------------------------------------------------------------------------
(* create_repository *)

(* exists: a repository that is there is opened. *)
BeginInit(r) ==
    /\ r \in Inits /\ At(r, "idle")
    /\ GoTo(r, IF bootstrap = Absent THEN "create" ELSE "load")
    /\ UNCHANGED <<bootstrap, slots, late>>

(* Mutant of PutBootstrap: an object that is there counts as created. *)
PutBootstrapBlind(r) ==
    /\ At(r, "create")
    /\ bootstrap' = IF bootstrap = Absent THEN r ELSE bootstrap
    /\ Become(r, "done", r, 1)
    /\ UNCHANGED <<slots, late>>

(* Created; or already present, after a retry; or a conflict. *)
PutBootstrap(r) ==
    /\ At(r, "create")
    /\ \/ /\ bootstrap = Absent
          /\ bootstrap' = r
          /\ Become(r, "done", r, 1) \/ GoTo(r, "load")
       \/ /\ bootstrap # Absent
          /\ GoTo(r, "conflict")
          /\ UNCHANGED bootstrap
    /\ UNCHANGED <<slots, late>>

(* The put ends in an error; it may be executed yet. *)
PutBootstrapFails(r) ==
    /\ At(r, "create")
    /\ late' = late \cup {r}
    /\ GoTo(r, "failed")
    /\ UNCHANGED <<bootstrap, slots>>

-----------------------------------------------------------------------------
(* open_repository *)

BeginAdd(r) ==
    /\ r \in Adds /\ At(r, "idle")
    /\ GoTo(r, "load")
    /\ UNCHANGED <<bootstrap, slots, late>>

(* load_repository_bootstrap *)
Load(r) ==
    /\ At(r, "load")
    /\ IF bootstrap = Absent THEN GoTo(r, "uninitialized")
       ELSE Become(r, "list", bootstrap, 0)
    /\ UNCHANGED <<bootstrap, slots, late>>

(* The slots a passphrase opens: the one in the bootstrap and added ones. *)
Unlocks(repo, S, pass) ==
    \/ PassOf[repo] = pass
    \/ \E s \in S : NewPassOf[s.id] = pass /\ s.key = repo

(* repository_key_slots, unlock_master_key, verify_master_key. *)
Unlock(r) ==
    /\ At(r, "list")
    /\ IF Unlocks(run[r].repo, slots, PassOf[r])
       THEN Become(r, IF r \in Inits THEN "done" ELSE "add",
                   run[r].repo, 1 + Cardinality(slots))
       ELSE GoTo(r, "locked")
    /\ UNCHANGED <<bootstrap, slots, late>>

-----------------------------------------------------------------------------
(* add_repository_key_slot *)

(* The slot a run adds: the master key wrapped under the new passphrase. *)
Slot(r) == [id |-> r, key |-> run[r].repo]

(* Mutant of PutSlot: the slot is reported, its put is not waited for. *)
PutSlotNoWait(r) ==
    /\ At(r, "add")
    /\ late' = late \cup {Slot(r)}
    /\ Become(r, "done", run[r].repo, run[r].count + 1)
    /\ UNCHANGED <<bootstrap, slots>>

(* Created; or already present after a retry, which is not counted. *)
PutSlot(r) ==
    /\ At(r, "add")
    /\ slots' = slots \cup {Slot(r)}
    /\ \E created \in {0, 1} : Become(r, "done", run[r].repo, run[r].count + created)
    /\ UNCHANGED <<bootstrap, late>>

PutSlotFails(r) ==
    /\ At(r, "add")
    /\ late' = late \cup {Slot(r)}
    /\ GoTo(r, "failed")
    /\ UNCHANGED <<bootstrap, slots>>

-----------------------------------------------------------------------------
(* Any run may die before its next operation. *)
Stop(r) ==
    /\ run[r].pc \in {"create", "load", "list", "add"}
    /\ GoTo(r, "failed")
    /\ UNCHANGED <<bootstrap, slots, late>>

(* A put given up earlier is executed: conditional create. *)
Land(p) ==
    /\ late' = late \ {p}
    /\ IF p \in Inits
       THEN /\ bootstrap' = IF bootstrap = Absent THEN p ELSE bootstrap
            /\ UNCHANGED slots
       ELSE slots' = slots \cup {p} /\ UNCHANGED bootstrap
    /\ UNCHANGED run

Next ==
    \/ \E r \in Runs : \/ BeginInit(r) \/ PutBootstrap(r) \/ PutBootstrapFails(r)
                       \/ BeginAdd(r) \/ Load(r) \/ Unlock(r)
                       \/ PutSlot(r) \/ PutSlotFails(r) \/ Stop(r)
    \/ \E p \in late : Land(p)

Spec == Init /\ [][Next]_vars

-----------------------------------------------------------------------------
(* Properties *)

(***************************************************************************)
(* All runs that succeed agree on the repository: the id and master key an *)
(* init or a key add returned are those of the bootstrap object now in the *)
(* store, whichever inits race, fail or have their puts executed late; and *)
(* key_slots never counts a slot that is not there, though adds that race  *)
(* may report too few.                                                     *)
(***************************************************************************)
RunsAgree ==
    \A r \in Runs : At(r, "done") =>
        /\ run[r].repo = bootstrap
        /\ run[r].count \in 1..(1 + Cardinality(slots))

(***************************************************************************)
(* Nobody is locked out: a passphrase with which an init or a key add has  *)
(* succeeded, and one a key add has reported as added, open the repository *)
(* from then on.                                                           *)
(***************************************************************************)
PassphrasesKeepOpening ==
    \A r \in Runs : At(r, "done") =>
        /\ Unlocks(bootstrap, slots, PassOf[r])
        /\ r \in Adds => Unlocks(bootstrap, slots, NewPassOf[r])
=============================================================================
