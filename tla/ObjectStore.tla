---------------------------- MODULE ObjectStore ----------------------------
(***************************************************************************)
(* What the ObjectStore trait promises the repository code about immutable *)
(* writes.  A put_if_absent call either creates the object at one instant, *)
(* or finds an object under its key and reports whether the bytes agree,   *)
(* or fails.  A failed call tells the caller nothing: the object may have  *)
(* been created.  An object never changes; it can only be deleted, or be   *)
(* gone after the machine has lost power.                                  *)
(*                                                                         *)
(* LocalStore is shown to implement this module.                           *)
(***************************************************************************)

CONSTANTS
    Clients,    \* the callers; each has at most one call in progress
    Keys,       \* object keys
    Bytes,      \* object contents
    Absent,     \* "no object under this key"
    NoCall      \* "this client is not in a call"

VARIABLES
    objects,    \* key -> stored bytes, or Absent
    call        \* client -> its put_if_absent call, or NoCall

vars == <<objects, call>>

(***************************************************************************)
(* PutStatus::Created, PutStatus::AlreadyPresent,                          *)
(* StorageError::ObjectAlreadyExists ("conflict") and every other          *)
(* StorageError ("error").                                                 *)
(***************************************************************************)
Outcomes == {"pending", "created", "already_present", "conflict", "error"}

Call == [key : Keys, bytes : Bytes, outcome : Outcomes]

TypeOK ==
    /\ objects \in [Keys -> Bytes \cup {Absent}]
    /\ call \in [Clients -> Call \cup {NoCall}]

Init ==
    /\ objects = [k \in Keys |-> Absent]
    /\ call = [c \in Clients |-> NoCall]

Resolve(c, outcome) == call' = [call EXCEPT ![c].outcome = outcome]

Begin(c, k, b) ==
    /\ call[c] = NoCall
    /\ call' = [call EXCEPT ![c] = [key |-> k, bytes |-> b, outcome |-> "pending"]]
    /\ UNCHANGED objects

Create(c) ==
    /\ call[c] # NoCall
    /\ call[c].outcome = "pending"
    /\ objects[call[c].key] = Absent
    /\ objects' = [objects EXCEPT ![call[c].key] = call[c].bytes]
    /\ Resolve(c, "created")

Compare(c) ==
    /\ call[c] # NoCall
    /\ call[c].outcome = "pending"
    /\ objects[call[c].key] # Absent
    /\ Resolve(c, IF objects[call[c].key] = call[c].bytes
                  THEN "already_present" ELSE "conflict")
    /\ UNCHANGED objects

Fail(c) ==
    /\ call[c] # NoCall
    /\ call[c].outcome \in {"pending", "created"}
    /\ Resolve(c, "error")
    /\ UNCHANGED objects

End(c) ==
    /\ call[c] # NoCall
    /\ call[c].outcome # "pending"
    /\ call' = [call EXCEPT ![c] = NoCall]
    /\ UNCHANGED objects

(* The callers in S stop without an answer: their process has died. *)
Abandon(S) ==
    /\ call' = [c \in Clients |-> IF c \in S THEN NoCall ELSE call[c]]
    /\ UNCHANGED objects

Delete(k) ==
    /\ objects' = [objects EXCEPT ![k] = Absent]
    /\ UNCHANGED call

(* Objects are gone, and all callers with them: the machine lost power. *)
Lose(S) ==
    /\ objects' = [k \in Keys |-> IF k \in S THEN Absent ELSE objects[k]]
    /\ call' = [c \in Clients |-> NoCall]

Next ==
    \/ \E c \in Clients :
          \/ \E k \in Keys, b \in Bytes : Begin(c, k, b)
          \/ Create(c)
          \/ Compare(c)
          \/ Fail(c)
          \/ End(c)
    \/ \E S \in SUBSET Clients : Abandon(S)
    \/ \E k \in Keys : Delete(k)
    \/ \E S \in SUBSET Keys : Lose(S)

Spec == Init /\ [][Next]_vars
=============================================================================
