----------------------------- MODULE RemoteStore -----------------------------
(***************************************************************************)
(* The S3-compatible backend: PolicyObjectStore (a limit on concurrent     *)
(* operations, a timeout per attempt, retries) around S3Store, around a    *)
(* remote service.                                                         *)
(*                                                                         *)
(* A timeout drops the future that waits for the answer, not the request:  *)
(* it may be executed at any later time, during another attempt, another   *)
(* call, or after the caller was told that its call has failed.            *)
(*                                                                         *)
(* put_if_absent is modelled, which has a get inside; the other operations *)
(* take the same way through the policy and change nothing.                *)
(***************************************************************************)
EXTENDS Naturals, FiniteSets

CONSTANTS
    Clients,        \* tasks, one call at a time each
    Keys, Bytes,
    Absent,         \* "no object"
    Setups,         \* configurations to look at: conditional_create, the
                    \* policy's max_concurrency, the bytes callers write
    MaxAttempts,    \* StoragePolicy::max_attempts
    MaxCalls        \* bound: client -> calls it may make

ASSUME RemoteAssumption ==
    /\ IsFiniteSet(Clients)
    /\ Absent \notin Bytes
    /\ Bytes \cap {"none", "ok", "exists", "not_found", "failed"} = {}
    /\ Setups \subseteq [conditional : BOOLEAN, max_concurrency : Nat \ {0},
                          bytes : SUBSET Bytes]
    /\ MaxAttempts \in Nat \ {0}
    /\ MaxCalls \in [Clients -> Nat]

VARIABLES
    setup,          \* the configuration of this behaviour; it never changes
    remote,         \* key -> bytes at the service, or Absent
    flight,         \* requests not yet executed, those given up included
    permits,        \* free permits of the semaphore
    client          \* client -> where run and put_if_absent are, the arguments,
                    \* the call and attempt, and the answer to its request

vars == <<setup, remote, flight, permits, client>>

Results == {"created", "already_present", "conflict", "error"}
Waiting == {"put", "get"}

Init ==
    /\ setup \in Setups
    /\ remote = [k \in Keys |-> Absent]
    /\ flight = {}
    /\ permits = setup.max_concurrency
    /\ \E k \in Keys, b \in Bytes :
          client = [c \in Clients |->
                      [pc |-> "idle", key |-> k, bytes |-> b, call |-> 0,
                       attempt |-> 0, reply |-> "none"]]

At(c, pc) == client[c].pc = pc
GoTo(c, pc) == client' = [client EXCEPT ![c].pc = pc, ![c].reply = "none"]

RequestOf(c, kind) ==
    [client |-> c, call |-> client[c].call, attempt |-> client[c].attempt,
     kind |-> kind, key |-> client[c].key, bytes |-> client[c].bytes]

-----------------------------------------------------------------------------
(* The caller and the policy *)

Call(c, k, b) ==
    /\ client[c].pc \in Results \cup {"idle"}
    /\ client[c].call < MaxCalls[c]
    /\ client' = [client EXCEPT ![c] = [pc |-> "queued", key |-> k, bytes |-> b,
                                        call |-> @.call + 1, attempt |-> 0,
                                        reply |-> "none"]]
    /\ UNCHANGED <<setup, remote, flight, permits>>

(* acquire_owned *)
Acquire(c) ==
    /\ At(c, "queued")
    /\ permits > 0
    /\ permits' = permits - 1
    /\ GoTo(c, "attempt")
    /\ UNCHANGED <<setup, remote, flight>>

(* Mutant of Finish: the permit is leaked when the call fails. *)
FinishLeaking(c, result) ==
    /\ GoTo(c, result)
    /\ permits' = IF result = "error" THEN permits ELSE permits + 1

(* The future completes: the permit is released. *)
Finish(c, result) ==
    /\ GoTo(c, result)
    /\ permits' = permits + 1

Stay(c, pc) == GoTo(c, pc) /\ UNCHANGED permits

(* A retryable error: another attempt if one is left, or the error. *)
Retry(c) ==
    IF client[c].attempt < MaxAttempts THEN Stay(c, "backoff") ELSE Finish(c, "error")

(* sleep(backoff) is over. *)
Wake(c) ==
    /\ At(c, "backoff")
    /\ Stay(c, "attempt")
    /\ UNCHANGED <<remote, flight>>

-----------------------------------------------------------------------------
(* S3Store::put_if_absent *)

(* Without conditional create, the existing object is read first. *)
FirstRequest == IF setup.conditional THEN "put" ELSE "get"

Attempt(c) ==
    /\ At(c, "attempt")
    /\ client' = [client EXCEPT ![c].pc = FirstRequest, ![c].reply = "none",
                                ![c].attempt = @ + 1]
    /\ flight' = flight \cup {[RequestOf(c, FirstRequest) EXCEPT !.attempt = @ + 1]}
    /\ UNCHANGED <<remote, permits>>

(* The second request of an attempt. *)
Follow(c, kind) ==
    /\ Stay(c, kind)
    /\ flight' = flight \cup {RequestOf(c, kind)}
    /\ UNCHANGED remote

Answer(c, result) == Finish(c, result) /\ UNCHANGED <<remote, flight>>

(* Mutant of PutAnswered: the error of the put is swallowed. *)
PutAnsweredBlind(c) ==
    /\ At(c, "put")
    /\ \/ client[c].reply \in {"ok", "failed"} /\ Answer(c, "created")
       \/ client[c].reply = "exists" /\ Follow(c, "get")

PutAnswered(c) ==
    /\ At(c, "put")
    /\ \/ client[c].reply = "ok" /\ Answer(c, "created")
       \/ client[c].reply = "exists" /\ Follow(c, "get")
       \/ client[c].reply = "failed" /\ Retry(c) /\ UNCHANGED <<remote, flight>>

(* Not found is not retryable; in the fallback it is what allows the write. *)
GetAnswered(c) ==
    /\ At(c, "get")
    /\ \/ client[c].reply = client[c].bytes /\ Answer(c, "already_present")
       \/ client[c].reply \in Bytes \ {client[c].bytes} /\ Answer(c, "conflict")
       \/ client[c].reply = "not_found" /\ IF setup.conditional THEN Answer(c, "error")
                                           ELSE Follow(c, "put")
       \/ client[c].reply = "failed" /\ Retry(c) /\ UNCHANGED <<remote, flight>>

(* The attempt's future is dropped; its request may still be executed. *)
Timeout(c) ==
    /\ client[c].pc \in Waiting
    /\ Retry(c)
    /\ UNCHANGED <<remote, flight>>

-----------------------------------------------------------------------------
(* The service *)

(* The answer reaches the client only while it waits for this very request. *)
Reply(q, answer) ==
    client' = IF At(q.client, q.kind) /\ RequestOf(q.client, q.kind) = q
              THEN [client EXCEPT ![q.client].reply = answer] ELSE client

(* PutMode::Create writes only if there is no object, PutMode::Overwrite always. *)
ExecutePut(q) ==
    /\ q.kind = "put"
    /\ IF setup.conditional /\ remote[q.key] # Absent
       THEN UNCHANGED remote /\ Reply(q, "exists")
       ELSE remote' = [remote EXCEPT ![q.key] = q.bytes] /\ Reply(q, "ok")
    /\ flight' = flight \ {q}
    /\ UNCHANGED <<setup, permits>>

ExecuteGet(q) ==
    /\ q.kind = "get"
    /\ Reply(q, IF remote[q.key] = Absent THEN "not_found" ELSE remote[q.key])
    /\ flight' = flight \ {q}
    /\ UNCHANGED <<setup, remote, permits>>

(* The request is refused, or never arrives. *)
Refuse(q) ==
    /\ Reply(q, "failed")
    /\ flight' = flight \ {q}
    /\ UNCHANGED <<setup, remote, permits>>

Step(c) ==
    /\ Attempt(c) \/ PutAnswered(c) \/ GetAnswered(c) \/ Timeout(c) \/ Wake(c)
    /\ UNCHANGED setup

Next ==
    \/ \E c \in Clients, k \in Keys, b \in setup.bytes : Call(c, k, b)
    \/ \E c \in Clients : Acquire(c) \/ Step(c)
    \/ \E q \in flight : ExecutePut(q) \/ ExecuteGet(q) \/ Refuse(q)

(***************************************************************************)
(* Tasks are polled and timers fire; tokio's semaphore is first come,      *)
(* first served.  Nothing is assumed of the service.                       *)
(***************************************************************************)
Fairness == \A c \in Clients : WF_vars(Step(c)) /\ SF_vars(Acquire(c))

Spec == Init /\ [][Next]_vars
FairSpec == Spec /\ Fairness

-----------------------------------------------------------------------------
(* Properties *)

(***************************************************************************)
(* What a call has answered stays true: after created or already present   *)
(* the object has the caller's bytes, and after a conflict it has others,  *)
(* although requests given up earlier are executed late, and an attempt    *)
(* that timed out may have created what the next one finds.  Without       *)
(* conditional create this is so only when all callers write the same      *)
(* bytes under a key, as setup.bytes then says; with it, at most one call  *)
(* is told that it created the object, which for the bootstrap object is   *)
(* to have created the repository.                                         *)
(***************************************************************************)
AnswersStayTrue ==
    \A c \in Clients :
        /\ client[c].pc \in {"created", "already_present"} =>
              remote[client[c].key] = client[c].bytes
        /\ At(c, "conflict") => remote[client[c].key] \notin {client[c].bytes, Absent}
        /\ setup.conditional /\ At(c, "created") =>
              \A d \in Clients \ {c} : At(d, "created") => client[c].key # client[d].key

(***************************************************************************)
(* Every call returns, even if the service never answers: attempts time    *)
(* out, retries are bounded, and permits come back on every path.          *)
(***************************************************************************)
EveryCallReturns ==
    \A c \in Clients : At(c, "queued") ~> client[c].pc \in Results
=============================================================================
