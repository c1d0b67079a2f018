-------------------------- MODULE BootstrapProofs --------------------------
(***************************************************************************)
(* Proofs about Bootstrap, for any number of inits and key adds that race, *)
(* fail and have their puts executed late.  The bootstrap object is        *)
(* written once and slots only grow, so what a run has read of them stays  *)
(* true; a slot is stored or on its way only when the run that adds it has *)
(* ended, so that a run counts its own slot at most once.                  *)
(***************************************************************************)
EXTENDS Bootstrap, FiniteSetTheorems, TLAPS

-----------------------------------------------------------------------------
(* The inductive invariant *)

Slots == [id : Adds, key : Inits]

RunPc == {"idle", "create", "load", "list", "add", "done",
          "uninitialized", "locked", "conflict", "failed"}

RunState == [pc : RunPc, repo : Inits \cup {Absent}, count : Nat]

TypeOK ==
    /\ bootstrap \in Inits \cup {Absent}
    /\ slots \subseteq Slots
    /\ IsFiniteSet(slots)
    /\ late \subseteq Inits \cup Slots
    /\ run \in [Runs -> RunState]

(* What run r in state u knows of the bootstrap b and the slots S. *)
RunOK(r, u, b, S) ==
    /\ u.pc = "create" => r \in Inits
    /\ u.pc = "add" => r \in Adds
    /\ u.pc \in {"list", "add", "done"} => u.repo = b /\ b \in Inits
    /\ u.pc \in {"add", "done"} => /\ u.count \in 1..(1 + Cardinality(S))
                                   /\ Unlocks(b, S, PassOf[r])
    /\ u.pc = "done" /\ r \in Adds => [id |-> r, key |-> b] \in S

(* A slot that is stored, or may be yet, belongs to a run that has ended. *)
Ended(s) == run[s.id].pc \in {"done", "failed"}

Inv ==
    /\ TypeOK
    /\ \A r \in Runs : RunOK(r, run[r], bootstrap, slots)
    /\ \A s \in slots \cup (late \ Inits) : Ended(s)

-----------------------------------------------------------------------------
(* Lemmas *)

(* A passphrase that opens a slot opens it when there are more. *)
LEMMA UnlocksGrows ==
    ASSUME NEW b, NEW S, NEW T, S \subseteq T, NEW pass, Unlocks(b, S, pass)
    PROVE  Unlocks(b, T, pass)
  BY DEF Unlocks

(* What a run knows stays true when slots are added, and when a bootstrap
   object appears where there was none. *)
LEMMA RunOKGrows ==
    ASSUME NEW r, NEW u, NEW b, NEW c, NEW S, NEW T,
           S \subseteq T, IsFiniteSet(T), b = Absent \/ c = b,
           RunOK(r, u, b, S)
    PROVE  RunOK(r, u, c, T)
  <1>1. CASE b = Absent
    BY <1>1, BootstrapAssumption DEF RunOK
  <1>2. CASE c = b
    <2>1. /\ Cardinality(S) \in Nat
          /\ Cardinality(T) \in Nat
          /\ Cardinality(S) <= Cardinality(T)
      BY FS_Subset, FS_CardinalityType
    <2>2. 1..(1 + Cardinality(S)) \subseteq 1..(1 + Cardinality(T))
      BY <2>1
    <2>3. QED
      BY <1>2, <2>2, UnlocksGrows DEF RunOK
  <1>3. QED
    BY <1>1, <1>2

(* The invariant survives a step of run r to state u. *)
LEMMA OneRunSteps ==
    ASSUME Inv, NEW r \in Runs, NEW u \in RunState,
           run' = [run EXCEPT ![r] = u],
           bootstrap' \in Inits \cup {Absent},
           bootstrap = Absent \/ bootstrap' = bootstrap,
           slots \subseteq slots', slots' \subseteq Slots, IsFiniteSet(slots'),
           late' \subseteq Inits \cup Slots,
           RunOK(r, u, bootstrap', slots'),
           run[r].pc \notin {"done", "failed"},
           \A s \in (slots' \cup (late' \ Inits)) \ (slots \cup (late \ Inits)) :
               s.id = r /\ u.pc \in {"done", "failed"}
    PROVE  Inv'
  <1>1. /\ run' \in [Runs -> RunState]
        /\ run'[r] = u
        /\ \A q \in Runs : q # r => run'[q] = run[q]
    BY DEF Inv, TypeOK
  <1>2. ASSUME NEW q \in Runs
        PROVE  RunOK(q, run'[q], bootstrap', slots')
    <2>1. CASE q = r
      BY <1>1, <2>1
    <2>2. CASE q # r
      <3>1. RunOK(q, run[q], bootstrap, slots)
        BY DEF Inv
      <3>2. QED
        BY <1>1, <2>2, <3>1, RunOKGrows
    <2>3. QED
      BY <2>1, <2>2
  <1>3. ASSUME NEW s \in slots' \cup (late' \ Inits)
        PROVE  run'[s.id].pc \in {"done", "failed"}
    <2>1. CASE s \in slots \cup (late \ Inits)
      <3>1. s \in Slots /\ run[s.id].pc \in {"done", "failed"}
        BY <2>1 DEF Inv, TypeOK, Ended
      <3>2. s.id \in Runs /\ s.id # r
        BY <3>1 DEF Slots, Runs
      <3>3. QED
        BY <1>1, <3>1, <3>2
    <2>2. CASE s \notin slots \cup (late \ Inits)
      BY <1>1, <2>2
    <2>3. QED
      BY <2>1, <2>2
  <1>4. TypeOK'
    BY <1>1 DEF TypeOK
  <1>5. QED
    BY <1>2, <1>3, <1>4 DEF Inv, Ended

-----------------------------------------------------------------------------
(* Steps *)

(* A run's current state, one place further on. *)
LEMMA GoToState ==
    ASSUME Inv, NEW r \in Runs, NEW pc \in RunPc
    PROVE  /\ run[r] \in RunState
           /\ RunOK(r, run[r], bootstrap, slots)
           /\ [pc |-> pc, repo |-> run[r].repo, count |-> run[r].count] \in RunState
  <1>1. run[r] \in RunState /\ RunOK(r, run[r], bootstrap, slots)
    BY DEF Inv, TypeOK
  <1>2. QED
    BY <1>1 DEF RunState

(* A run that only moves to a place where nothing is claimed of it. *)
LEMMA PlainStep ==
    ASSUME Inv, NEW r \in Runs,
           NEW pc \in {"load", "uninitialized", "locked", "conflict", "failed"},
           GoTo(r, pc), run[r].pc \notin {"done", "failed"},
           UNCHANGED slots,
           bootstrap' \in Inits \cup {Absent},
           bootstrap = Absent \/ bootstrap' = bootstrap,
           late' \subseteq Inits \cup Slots,
           \A s \in (late' \ Inits) \ late : s.id = r /\ pc = "failed"
    PROVE  Inv'
  <1> DEFINE u == [pc |-> pc, repo |-> run[r].repo, count |-> run[r].count]
  <1>1. u \in RunState
    BY GoToState DEF RunPc
  <1>2. RunOK(r, u, bootstrap', slots')
    BY DEF RunOK
  <1>3. run' = [run EXCEPT ![r] = u]
    BY DEF GoTo, Become
  <1>4. /\ slots \subseteq slots' /\ slots' \subseteq Slots
        /\ IsFiniteSet(slots')
    BY DEF Inv, TypeOK
  <1>5. \A s \in (slots' \cup (late' \ Inits)) \ (slots \cup (late \ Inits)) :
            s.id = r /\ u.pc \in {"done", "failed"}
    OBVIOUS
  <1> HIDE DEF u
  <1>6. QED
    BY <1>1, <1>2, <1>3, <1>4, <1>5, OneRunSteps

(* create_repository: whether there is a repository is looked up. *)
LEMMA BeginInitStep ==
    ASSUME Inv, NEW r \in Runs, BeginInit(r) PROVE Inv'
  <1>1. CASE bootstrap = Absent
    <2> DEFINE u == [pc |-> "create", repo |-> run[r].repo, count |-> run[r].count]
    <2>1. u \in RunState
      BY GoToState DEF RunPc
    <2>2. RunOK(r, u, bootstrap', slots')
      BY DEF RunOK, BeginInit
    <2>3. run' = [run EXCEPT ![r] = u]
      BY <1>1 DEF BeginInit, GoTo, Become
    <2> HIDE DEF u
    <2>4. QED
      BY <2>1, <2>2, <2>3, OneRunSteps DEF BeginInit, At, Inv, TypeOK
  <1>2. CASE bootstrap # Absent
    BY <1>2, PlainStep DEF BeginInit, At, Inv, TypeOK
  <1>3. QED
    BY <1>1, <1>2

(* create_repository: the put of the bootstrap object is answered. *)
LEMMA PutBootstrapStep ==
    ASSUME Inv, NEW r \in Runs, PutBootstrap(r) PROVE Inv'
  <1>1. r \in Inits /\ run[r].pc = "create"
    BY GoToState DEF RunOK, PutBootstrap, At, RunPc
  <1>2. /\ bootstrap' \in Inits \cup {Absent}
        /\ bootstrap = Absent \/ bootstrap' = bootstrap
    BY <1>1 DEF PutBootstrap, Inv, TypeOK
  <1>3. CASE bootstrap = Absent /\ bootstrap' = r /\ Become(r, "done", r, 1)
    <2> DEFINE u == [pc |-> "done", repo |-> r, count |-> 1]
    <2>1. u \in RunState
      BY <1>1 DEF RunState, RunPc
    <2>2. Cardinality(slots) \in Nat /\ slots' = slots
      BY FS_CardinalityType DEF Inv, TypeOK, PutBootstrap
    <2>3. Unlocks(r, slots, PassOf[r]) /\ r \notin Adds
      BY <1>1, BootstrapAssumption DEF Unlocks
    <2>4. RunOK(r, u, bootstrap', slots')
      BY <1>1, <1>3, <2>2, <2>3 DEF RunOK
    <2>5. run' = [run EXCEPT ![r] = u]
      BY <1>3 DEF Become
    <2> HIDE DEF u
    <2>6. QED
      BY <1>1, <1>2, <2>1, <2>4, <2>5, OneRunSteps DEF PutBootstrap, Inv, TypeOK
  <1>4. CASE GoTo(r, "load")
    BY <1>1, <1>2, <1>4, PlainStep DEF PutBootstrap, Inv, TypeOK
  <1>5. CASE GoTo(r, "conflict")
    BY <1>1, <1>2, <1>5, PlainStep DEF PutBootstrap, Inv, TypeOK
  <1>6. QED
    BY <1>3, <1>4, <1>5 DEF PutBootstrap

(* create_repository: the put of the bootstrap object ends in an error. *)
LEMMA PutBootstrapFailsStep ==
    ASSUME Inv, NEW r \in Runs, PutBootstrapFails(r) PROVE Inv'
  <1>1. r \in Inits /\ run[r].pc = "create"
    BY GoToState DEF RunOK, PutBootstrapFails, At, RunPc
  <1>2. QED
    BY <1>1, PlainStep DEF PutBootstrapFails, Inv, TypeOK

(* load_repository_bootstrap. *)
LEMMA LoadStep ==
    ASSUME Inv, NEW r \in Runs, Load(r) PROVE Inv'
  <1>1. CASE bootstrap = Absent
    BY <1>1, PlainStep DEF Load, At, Inv, TypeOK
  <1>2. CASE bootstrap # Absent
    <2> DEFINE u == [pc |-> "list", repo |-> bootstrap, count |-> 0]
    <2>1. bootstrap \in Inits /\ u \in RunState
      BY <1>2 DEF RunState, RunPc, Inv, TypeOK
    <2>2. RunOK(r, u, bootstrap', slots')
      BY <2>1 DEF RunOK, Load
    <2>3. run' = [run EXCEPT ![r] = u]
      BY <1>2 DEF Load, Become
    <2> HIDE DEF u
    <2>4. QED
      BY <2>1, <2>2, <2>3, OneRunSteps DEF Load, At, Inv, TypeOK
  <1>3. QED
    BY <1>1, <1>2

(* repository_key_slots and unlock_master_key: the slots are listed and the
   passphrase is tried on each. *)
LEMMA UnlockStep ==
    ASSUME Inv, NEW r \in Runs, Unlock(r) PROVE Inv'
  <1>1. CASE ~Unlocks(run[r].repo, slots, PassOf[r])
    BY <1>1, PlainStep DEF Unlock, At, Inv, TypeOK
  <1>2. CASE Unlocks(run[r].repo, slots, PassOf[r])
    <2> DEFINE pc == IF r \in Inits THEN "done" ELSE "add"
               u == [pc |-> pc, repo |-> run[r].repo, count |-> 1 + Cardinality(slots)]
    <2>1. /\ run[r].pc = "list" /\ run[r].repo = bootstrap /\ bootstrap \in Inits
      BY GoToState DEF RunOK, Unlock, At, RunPc
    <2>2. Cardinality(slots) \in Nat
      BY FS_CardinalityType DEF Inv, TypeOK
    <2>3. pc \in {"done", "add"} /\ (pc = "done" => r \notin Adds) /\ (pc = "add" => r \in Adds)
      BY BootstrapAssumption DEF Runs
    <2>4. u \in RunState
      BY <2>1, <2>2, <2>3 DEF RunState, RunPc
    <2>5. run' = [run EXCEPT ![r] = u]
      BY <1>2 DEF Unlock, Become
    <2>6. UNCHANGED <<bootstrap, slots, late>>
      BY DEF Unlock
    <2> HIDE DEF pc
    <2>7. RunOK(r, u, bootstrap', slots')
      BY <1>2, <2>1, <2>2, <2>3, <2>6 DEF RunOK
    <2> HIDE DEF u
    <2>8. QED
      BY <2>1, <2>4, <2>5, <2>6, <2>7, OneRunSteps DEF Inv, TypeOK
  <1>3. QED
    BY <1>1, <1>2

(* The slot a run is about to add is a new one. *)
LEMMA SlotIsNew ==
    ASSUME Inv, NEW r \in Runs, At(r, "add")
    PROVE  /\ r \in Adds
           /\ run[r].repo = bootstrap
           /\ Slot(r) \in Slots
           /\ Slot(r) \notin slots
           /\ IsFiniteSet(slots \cup {Slot(r)})
           /\ Cardinality(slots) \in Nat
           /\ Cardinality(slots \cup {Slot(r)}) = Cardinality(slots) + 1
  <1>1. r \in Adds /\ run[r].repo = bootstrap /\ bootstrap \in Inits
    BY GoToState DEF RunOK, At, RunPc
  <1>2. Slot(r) \in Slots /\ Slot(r).id = r
    BY <1>1 DEF Slot, Slots
  <1>3. Slot(r) \notin slots
    BY <1>2 DEF Inv, Ended, At
  <1>4. QED
    BY <1>1, <1>2, <1>3, FS_AddElement, FS_CardinalityType DEF Inv, TypeOK

(* add_repository_key_slot: the put of the slot is answered. *)
LEMMA PutSlotStep ==
    ASSUME Inv, NEW r \in Runs, PutSlot(r) PROVE Inv'
  <1>1. PICK created \in {0, 1} :
            Become(r, "done", run[r].repo, run[r].count + created)
    BY DEF PutSlot
  <1> DEFINE u == [pc |-> "done", repo |-> run[r].repo, count |-> run[r].count + created]
  <1>2. run[r].pc = "add" /\ UNCHANGED <<bootstrap, late>> /\ slots' = slots \cup {Slot(r)}
    BY DEF PutSlot, At
  <1>3. /\ run[r] \in RunState /\ bootstrap \in Inits /\ run[r].repo = bootstrap
        /\ run[r].count \in 1..(1 + Cardinality(slots))
        /\ Unlocks(bootstrap, slots, PassOf[r])
    BY <1>2, GoToState DEF RunOK, RunPc
  <1>4. /\ Slot(r) \in Slots
        /\ IsFiniteSet(slots')
        /\ Cardinality(slots) \in Nat
        /\ Cardinality(slots') = Cardinality(slots) + 1
    BY <1>2, SlotIsNew DEF At
  <1>5. u \in RunState
    BY <1>3 DEF RunState, RunPc
  <1>6. u.count \in 1..(1 + Cardinality(slots'))
    BY <1>3, <1>4
  <1>7. Slot(r) = [id |-> r, key |-> bootstrap] /\ Slot(r).id = r
    BY <1>3 DEF Slot
  <1>8. RunOK(r, u, bootstrap', slots')
    BY <1>2, <1>3, <1>6, <1>7, UnlocksGrows DEF RunOK
  <1>9. run' = [run EXCEPT ![r] = u] /\ u.pc = "done"
    BY <1>1 DEF Become
  <1> HIDE DEF u
  <1>10. QED
    BY <1>2, <1>4, <1>5, <1>7, <1>8, <1>9, OneRunSteps DEF Inv, TypeOK

(* add_repository_key_slot: the put of the slot ends in an error. *)
LEMMA PutSlotFailsStep ==
    ASSUME Inv, NEW r \in Runs, PutSlotFails(r) PROVE Inv'
  <1>1. Slot(r) \in Slots /\ Slot(r).id = r
    BY SlotIsNew DEF PutSlotFails, Slot
  <1>2. QED
    BY <1>1, PlainStep DEF PutSlotFails, At, Inv, TypeOK

(* A put given up earlier is executed. *)
LEMMA LandStep ==
    ASSUME Inv, NEW p \in late, Land(p) PROVE Inv'
  <1>1. /\ late' \subseteq late
        /\ run' = run
        /\ bootstrap' \in Inits \cup {Absent}
        /\ bootstrap = Absent \/ bootstrap' = bootstrap
    BY DEF Land, Inv, TypeOK
  <1>2. /\ slots \subseteq slots'
        /\ slots' \subseteq slots \cup (late \ Inits)
        /\ slots' \subseteq Slots
        /\ IsFiniteSet(slots')
    <2>1. CASE p \in Inits
      BY <2>1 DEF Land, Inv, TypeOK
    <2>2. CASE p \notin Inits
      <3>1. p \in Slots /\ slots' = slots \cup {p}
        BY <2>2 DEF Land, Inv, TypeOK
      <3>2. QED
        BY <2>2, <3>1, FS_AddElement DEF Inv, TypeOK
    <2>3. QED
      BY <2>1, <2>2
  <1>3. \A r \in Runs : RunOK(r, run'[r], bootstrap', slots')
    BY <1>1, <1>2, RunOKGrows DEF Inv
  <1>4. \A s \in slots' \cup (late' \ Inits) : run'[s.id].pc \in {"done", "failed"}
    BY <1>1, <1>2 DEF Inv, Ended
  <1>5. TypeOK'
    BY <1>1, <1>2 DEF Inv, TypeOK
  <1>6. QED
    BY <1>3, <1>4, <1>5 DEF Inv, Ended

(* Init and the steps of Next, together. *)
LEMMA InvAlways ==
    Spec => []Inv
  <1>1. Init => Inv
    <2> SUFFICES ASSUME Init PROVE Inv
      OBVIOUS
    <2>1. TypeOK
      BY FS_EmptySet DEF Init, TypeOK, RunState, RunPc
    <2>2. \A r \in Runs : RunOK(r, run[r], bootstrap, slots)
      BY DEF Init, RunOK
    <2>3. QED
      BY <2>1, <2>2 DEF Inv, Init
  <1>2. Inv /\ [Next]_vars => Inv'
    <2> SUFFICES ASSUME Inv, [Next]_vars PROVE Inv'
      OBVIOUS
    <2>1. CASE UNCHANGED vars
      BY <2>1 DEF vars, Inv, TypeOK, Ended, RunOK
    <2>2. ASSUME NEW p \in late, Land(p) PROVE Inv'
      BY <2>2, LandStep
    <2>3. ASSUME NEW r \in Runs, BeginAdd(r) \/ Stop(r) PROVE Inv'
      BY <2>3, PlainStep DEF BeginAdd, Stop, At, Inv, TypeOK
    <2>4. QED
      BY <2>1, <2>2, <2>3, BeginInitStep, PutBootstrapStep, PutBootstrapFailsStep,
         LoadStep, UnlockStep, PutSlotStep, PutSlotFailsStep DEF Next
  <1>3. QED
    BY <1>1, <1>2, PTL DEF Spec

-----------------------------------------------------------------------------
(* Theorems *)

(***************************************************************************)
(* The runs that succeed agree: whichever inits race, fail and have their  *)
(* puts executed late, the repository a create_repository, open_repository *)
(* or add_repository_key_slot returns is the one in the store, and the     *)
(* slots it counts are there.                                              *)
(***************************************************************************)
THEOREM SuccessfulRunsAgree ==
    Spec => []RunsAgree
  <1>1. Inv => RunsAgree
    BY DEF Inv, RunOK, RunsAgree, At
  <1>2. QED
    BY <1>1, InvAlways, PTL

(***************************************************************************)
(* Nobody is locked out: the passphrase a run succeeded with, and the one  *)
(* add_repository_key_slot has reported as added, open the repository in   *)
(* every later state.                                                      *)
(***************************************************************************)
THEOREM NobodyLockedOut ==
    Spec => []PassphrasesKeepOpening
  <1>1. Inv => PassphrasesKeepOpening
    BY DEF Inv, RunOK, PassphrasesKeepOpening, At, Unlocks
  <1>2. QED
    BY <1>1, InvAlways, PTL

(***************************************************************************)
(* What PassphrasesKeepOpening rests on: the bootstrap object is written   *)
(* once and a key slot is never taken away, by any step.                   *)
(***************************************************************************)
THEOREM KeysAreOnlyAdded ==
    Spec => [][/\ bootstrap # Absent => bootstrap' = bootstrap
               /\ slots \subseteq slots']_vars
  <1>1. Inv /\ [Next]_vars =>
            [/\ bootstrap # Absent => bootstrap' = bootstrap
             /\ slots \subseteq slots']_vars
    BY DEF Next, vars, BeginInit, PutBootstrap, PutBootstrapFails, BeginAdd, Load,
           Unlock, PutSlot, PutSlotFails, Stop, Land
  <1>2. QED
    BY <1>1, InvAlways, PTL DEF Spec
=============================================================================
