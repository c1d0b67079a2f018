------------------------- MODULE RemoteStoreProofs -------------------------
(***************************************************************************)
(* Proofs about RemoteStore, for any number of clients, calls, attempts    *)
(* and requests executed late.  With conditional create an object never    *)
(* changes once it is there; without it the same is true when all callers  *)
(* write the same bytes.  So what a client has been told of an object      *)
(* stays true of it.                                                       *)
(***************************************************************************)
EXTENDS RemoteStore, FiniteSetTheorems, TLAPS

-----------------------------------------------------------------------------
(* The inductive invariant *)

(* Without conditional create, all callers write the same bytes. *)
CallersAgree == \A s \in Setups : s.conditional \/ \A a, b \in s.bytes : a = b

ClientPc == {"idle", "queued", "attempt", "backoff", "put", "get"} \cup Results
Replies == {"none", "ok", "exists", "not_found", "failed"} \cup Bytes

ClientState == [pc : ClientPc, key : Keys, bytes : Bytes, call : Nat,
                attempt : Nat, reply : Replies]

Request == [client : Clients, call : Nat, attempt : Nat, kind : Waiting,
            key : Keys, bytes : Bytes]

(* The client has created the object, whether it has returned or not. *)
Creator(u) == u.pc = "created" \/ (u.pc = "put" /\ u.reply = "ok")

(* What a client in state u knows of the objects R at the service. *)
ClientOK(u, R) ==
    /\ u.pc # "idle" => u.bytes \in setup.bytes
    /\ Creator(u) \/ u.pc = "already_present" => R[u.key] = u.bytes
    /\ u.pc = "conflict" => R[u.key] \notin {u.bytes, Absent}
    /\ u.pc = "get" /\ u.reply \in Bytes => R[u.key] = u.reply

TypeOK ==
    /\ setup \in Setups
    /\ remote \in [Keys -> setup.bytes \cup {Absent}]
    /\ flight \subseteq Request
    /\ client \in [Clients -> ClientState]

OneCreator ==
    setup.conditional =>
        \A c, d \in Clients : c # d /\ Creator(client[c]) /\ Creator(client[d]) =>
            client[c].key # client[d].key

Inv ==
    /\ TypeOK
    /\ \A q \in flight : q.bytes \in setup.bytes
    /\ \A c \in Clients : ClientOK(client[c], remote)
    /\ OneCreator

-----------------------------------------------------------------------------
(* Lemmas *)

(* An object that is there does not change. *)
Kept(R) == \A k \in Keys : remote[k] # Absent => R[k] = remote[k]

(* What a client knows stays true. *)
LEMMA ClientOKKept ==
    ASSUME TypeOK, NEW u \in ClientState, NEW R, Kept(R), ClientOK(u, remote)
    PROVE  ClientOK(u, R)
  <1>1. u.key \in Keys /\ u.bytes \in Bytes
    BY DEF ClientState
  <1>2. u.bytes # Absent /\ (u.reply \in Bytes => u.reply # Absent)
    BY <1>1, RemoteAssumption
  <1>3. u.pc = "conflict" => remote[u.key] # Absent
    BY DEF ClientOK
  <1>4. QED
    BY <1>1, <1>2, <1>3 DEF ClientOK, Kept

(* A step that takes client c to state u. *)
LEMMA OneClientSteps ==
    ASSUME Inv, NEW c \in Clients, NEW u \in ClientState,
           client' = [client EXCEPT ![c] = u],
           UNCHANGED setup,
           remote' \in [Keys -> setup.bytes \cup {Absent}], Kept(remote'),
           flight' \subseteq Request, \A q \in flight' : q.bytes \in setup.bytes,
           ClientOK(u, remote'),
           setup.conditional /\ Creator(u) =>
               \/ Creator(client[c]) /\ client[c].key = u.key
               \/ remote[u.key] = Absent
    PROVE  Inv'
  <1>1. /\ client' \in [Clients -> ClientState]
        /\ client'[c] = u
        /\ \A d \in Clients : d # c => client'[d] = client[d]
    BY DEF Inv, TypeOK
  <1>2. TypeOK'
    BY <1>1 DEF Inv, TypeOK
  <1>3. ASSUME NEW d \in Clients PROVE ClientOK(client'[d], remote')
    <2>1. CASE d = c
      BY <1>1, <2>1
    <2>2. CASE d # c
      <3>1. ClientOK(client[d], remote) /\ client[d] \in ClientState
        BY DEF Inv, TypeOK
      <3>2. QED
        BY <1>1, <2>2, <3>1, ClientOKKept DEF Inv
    <2>3. QED
      BY <2>1, <2>2
  <1>4. \A d \in Clients : ClientOK(client[d], remote)'
    BY <1>3 DEF ClientOK
  <1>5. ASSUME setup.conditional, NEW d \in Clients, d # c, Creator(u), Creator(client[d])
        PROVE  u.key # client[d].key
    <2>1. ClientOK(client[d], remote) /\ client[d] \in ClientState
      BY DEF Inv, TypeOK
    <2>2. remote[client[d].key] # Absent
      BY <1>5, <2>1, RemoteAssumption DEF ClientOK, ClientState
    <2>3. QED
      BY <1>5, <2>2 DEF Inv, OneCreator
  <1>6. OneCreator'
    BY <1>1, <1>5 DEF Inv, OneCreator
  <1>7. QED
    BY <1>2, <1>4, <1>6 DEF Inv

(* A client in state u has the arguments of client c. *)
SameCall(u, c) ==
    u.key = client[c].key /\ u.bytes = client[c].bytes /\ u.reply = "none"

(* A client that moves on with its arguments, while the service rests. *)
LEMMA ClientMoves ==
    ASSUME Inv, NEW c \in Clients, NEW u \in ClientState,
           client' = [client EXCEPT ![c] = u],
           SameCall(u, c), u.pc \notin {"idle", "created"},
           client[c].pc # "idle", UNCHANGED <<setup, remote>>,
           flight' \subseteq Request, \A q \in flight' : q.bytes \in setup.bytes,
           u.pc = "already_present" => remote[client[c].key] = client[c].bytes,
           u.pc = "conflict" => remote[client[c].key] \notin {client[c].bytes, Absent}
    PROVE  Inv'
  <1>1. client[c] \in ClientState /\ ClientOK(client[c], remote)
    BY DEF Inv, TypeOK
  <1>2. ClientOK(u, remote) /\ ~Creator(u)
    BY <1>1, RemoteAssumption DEF ClientOK, Creator, SameCall
  <1>3. Kept(remote')
    BY DEF Kept
  <1>4. remote' \in [Keys -> setup.bytes \cup {Absent}]
    BY DEF Inv, TypeOK
  <1>5. QED
    BY <1>2, <1>3, <1>4, OneClientSteps

(* The state after GoTo. *)
LEMMA GoToState ==
    ASSUME Inv, NEW c \in Clients, NEW pc \in ClientPc, GoTo(c, pc)
    PROVE  \E u \in ClientState : /\ client' = [client EXCEPT ![c] = u]
                                  /\ SameCall(u, c)
                                  /\ u.pc = pc
  <1> DEFINE u == [client[c] EXCEPT !.pc = pc, !.reply = "none"]
  <1>1. client[c] \in ClientState
    BY DEF Inv, TypeOK
  <1>2. "none" \in Replies
    BY DEF Replies
  <1>3. u \in ClientState /\ SameCall(u, c) /\ u.pc = pc
    BY <1>1, <1>2 DEF ClientState, SameCall
  <1>4. client' = [client EXCEPT ![c] = u]
    BY DEF GoTo, Inv, TypeOK
  <1> HIDE DEF u
  <1>5. QED
    BY <1>3, <1>4

(* A client that only moves, and no claim comes with where it goes. *)
LEMMA GoToKeeps ==
    ASSUME Inv, NEW c \in Clients, NEW pc \in ClientPc \ {"idle", "created"}, GoTo(c, pc),
           client[c].pc # "idle", UNCHANGED <<setup, remote>>,
           flight' \subseteq flight \cup {RequestOf(c, "put"), RequestOf(c, "get")},
           pc = "already_present" => remote[client[c].key] = client[c].bytes,
           pc = "conflict" => remote[client[c].key] \notin {client[c].bytes, Absent}
    PROVE  Inv'
  <1>1. client[c] \in ClientState /\ client[c].bytes \in setup.bytes
    BY DEF Inv, TypeOK, ClientOK
  <1>2. \A kind \in Waiting : RequestOf(c, kind) \in Request /\ RequestOf(c, kind).bytes \in setup.bytes
    BY <1>1 DEF RequestOf, Request, ClientState
  <1>3. flight' \subseteq Request /\ \A q \in flight' : q.bytes \in setup.bytes
    BY <1>2 DEF Inv, TypeOK, Waiting
  <1>4. PICK u \in ClientState : /\ client' = [client EXCEPT ![c] = u]
                                 /\ SameCall(u, c)
                                 /\ u.pc = pc
    BY GoToState
  <1>5. QED
    BY <1>3, <1>4, ClientMoves

(* retry_delay, or the last error. *)
LEMMA RetryKeeps ==
    ASSUME Inv, NEW c \in Clients, Retry(c), client[c].pc # "idle",
           UNCHANGED <<setup, remote, flight>>
    PROVE  Inv'
  <1>1. PICK pc \in {"backoff", "error"} : GoTo(c, pc)
    BY DEF Retry, Stay, Finish
  <1>2. pc \in ClientPc \ {"idle", "created"} /\ pc # "already_present" /\ pc # "conflict"
    BY DEF ClientPc, Results
  <1>3. QED
    BY <1>1, <1>2, GoToKeeps

(* A new call. *)
LEMMA CallKeeps ==
    ASSUME Inv, NEW c \in Clients, NEW k \in Keys, NEW b \in setup.bytes, Call(c, k, b)
    PROVE  Inv'
  <1> DEFINE u == [pc |-> "queued", key |-> k, bytes |-> b, call |-> client[c].call + 1,
                   attempt |-> 0, reply |-> "none"]
  <1>1. client[c] \in ClientState /\ b \in Bytes
    BY RemoteAssumption DEF Inv, TypeOK
  <1>2. u \in ClientState
    BY <1>1 DEF ClientState, ClientPc, Replies
  <1>3. ClientOK(u, remote) /\ ~Creator(u)
    BY DEF ClientOK, Creator
  <1>4. client' = [client EXCEPT ![c] = u] /\ UNCHANGED <<setup, remote, flight>>
    BY DEF Call
  <1>5. Kept(remote')
    BY <1>4 DEF Kept
  <1> HIDE DEF u
  <1>6. QED
    BY <1>2, <1>3, <1>4, <1>5, OneClientSteps DEF Inv, TypeOK

(* An attempt begins: conditional put, or a get first. *)
LEMMA AttemptKeeps ==
    ASSUME Inv, NEW c \in Clients, Attempt(c), UNCHANGED setup
    PROVE  Inv'
  <1> DEFINE q == [RequestOf(c, FirstRequest) EXCEPT !.attempt = @ + 1]
             u == [client[c] EXCEPT !.pc = FirstRequest, !.reply = "none", !.attempt = @ + 1]
  <1>1. client[c] \in ClientState /\ client[c].bytes \in setup.bytes /\ client[c].pc # "idle"
    BY DEF Inv, TypeOK, ClientOK, Attempt, At
  <1>2. FirstRequest \in Waiting /\ FirstRequest \in ClientPc \ {"idle", "created"}
        /\ FirstRequest # "already_present" /\ FirstRequest # "conflict"
    BY <1>1 DEF FirstRequest, Waiting, ClientPc, Results, ClientState
  <1>3. RequestOf(c, FirstRequest) \in Request /\ RequestOf(c, FirstRequest).bytes = client[c].bytes
    BY <1>1, <1>2 DEF RequestOf, Request, ClientState
  <1>4. q \in Request /\ q.bytes \in setup.bytes
    BY <1>1, <1>3 DEF Request
  <1>5. u \in ClientState /\ SameCall(u, c) /\ u.pc = FirstRequest
    <2>1. "none" \in Replies
      BY DEF Replies
    <2>2. u = [client[c] EXCEPT !.pc = FirstRequest, !.reply = "none",
                                !.attempt = client[c].attempt + 1]
      OBVIOUS
    <2>3. client[c].attempt + 1 \in Nat
      BY <1>1 DEF ClientState
    <2> HIDE DEF u
    <2>4. QED
      BY <1>1, <1>2, <2>1, <2>2, <2>3 DEF ClientState, SameCall
  <1>6. client' = [client EXCEPT ![c] = u]
    BY DEF Attempt, Inv, TypeOK
  <1>7. flight' = flight \cup {q} /\ UNCHANGED remote
    BY DEF Attempt
  <1> HIDE DEF q, u
  <1>8. QED
    BY <1>1, <1>2, <1>4, <1>5, <1>6, <1>7, ClientMoves DEF Inv, TypeOK

(* The answer of a put has arrived. *)
LEMMA PutAnsweredKeeps ==
    ASSUME Inv, NEW c \in Clients, PutAnswered(c), UNCHANGED setup
    PROVE  Inv'
  <1>1. client[c].pc = "put" /\ client[c] \in ClientState /\ ClientOK(client[c], remote)
    BY DEF Inv, TypeOK, PutAnswered, At
  <1>2. CASE client[c].reply = "ok" /\ Answer(c, "created")
    <2>1. PICK u \in ClientState : /\ client' = [client EXCEPT ![c] = u]
                                   /\ SameCall(u, c)
                                   /\ u.pc = "created"
      BY <1>2, GoToState DEF Answer, Finish, ClientPc, Results
    <2>2. Creator(client[c]) /\ client[c].key = u.key
      BY <1>1, <1>2, <2>1 DEF Creator, SameCall
    <2>3. ClientOK(u, remote)
      BY <1>1, <2>1, <2>2 DEF ClientOK, SameCall
    <2>4. Kept(remote') /\ UNCHANGED <<remote, flight>>
      BY <1>2 DEF Kept, Answer
    <2>5. QED
      BY <2>1, <2>2, <2>3, <2>4, OneClientSteps DEF Inv, TypeOK
  <1>3. CASE client[c].reply = "exists" /\ Follow(c, "get")
    BY <1>1, <1>3, GoToKeeps DEF Follow, Stay, ClientPc
  <1>4. CASE client[c].reply = "failed" /\ Retry(c) /\ UNCHANGED <<remote, flight>>
    BY <1>1, <1>4, RetryKeeps
  <1>5. QED
    BY <1>2, <1>3, <1>4 DEF PutAnswered

(* The answer of a get has arrived. *)
LEMMA GetAnsweredKeeps ==
    ASSUME Inv, NEW c \in Clients, GetAnswered(c), UNCHANGED setup
    PROVE  Inv'
  <1>1. client[c].pc = "get" /\ client[c] \in ClientState /\ ClientOK(client[c], remote)
    BY DEF Inv, TypeOK, GetAnswered, At
  <1>2. client[c].bytes \in Bytes
    BY <1>1 DEF ClientState
  <1>3. CASE client[c].reply = client[c].bytes /\ Answer(c, "already_present")
    <2>1. remote[client[c].key] = client[c].bytes
      BY <1>1, <1>2, <1>3 DEF ClientOK
    <2>2. QED
      BY <1>1, <1>3, <2>1, GoToKeeps DEF Answer, Finish, ClientPc, Results
  <1>4. CASE client[c].reply \in Bytes \ {client[c].bytes} /\ Answer(c, "conflict")
    <2>1. remote[client[c].key] \notin {client[c].bytes, Absent}
      BY <1>1, <1>2, <1>4, RemoteAssumption DEF ClientOK
    <2>2. QED
      BY <1>1, <1>4, <2>1, GoToKeeps DEF Answer, Finish, ClientPc, Results
  <1>5. CASE Answer(c, "error")
    BY <1>1, <1>5, GoToKeeps DEF Answer, Finish, ClientPc, Results
  <1>6. CASE Follow(c, "put")
    BY <1>1, <1>6, GoToKeeps DEF Follow, Stay, ClientPc
  <1>7. CASE client[c].reply = "failed" /\ Retry(c) /\ UNCHANGED <<remote, flight>>
    BY <1>1, <1>7, RetryKeeps
  <1>8. QED
    BY <1>3, <1>4, <1>5, <1>6, <1>7 DEF GetAnswered

(***************************************************************************)
(* A reply reaches the client that waits for it, or nobody.                *)
(***************************************************************************)
LEMMA ReplyKeeps ==
    ASSUME Inv, NEW q \in flight, NEW answer \in Replies, Reply(q, answer),
           flight' \subseteq flight, UNCHANGED setup,
           remote' \in [Keys -> setup.bytes \cup {Absent}], Kept(remote'),
           q.kind = "put" /\ answer = "ok" =>
               /\ remote'[q.key] = q.bytes
               /\ setup.conditional => remote[q.key] = Absent,
           q.kind = "get" /\ answer \in Bytes => remote'[q.key] = answer
    PROVE  Inv'
  <1> DEFINE c == q.client
  <1>1. q \in Request /\ c \in Clients /\ q.kind \in Waiting
    BY DEF Inv, TypeOK, Request
  <1>2. client[c] \in ClientState /\ ClientOK(client[c], remote)
    BY <1>1 DEF Inv, TypeOK
  <1>3. flight' \subseteq Request /\ \A r \in flight' : r.bytes \in setup.bytes
    BY DEF Inv, TypeOK
  <1>4. CASE At(c, q.kind) /\ RequestOf(c, q.kind) = q
    <2> DEFINE u == [client[c] EXCEPT !.reply = answer]
    <2>1. client' = [client EXCEPT ![c] = u]
      BY <1>4 DEF Reply
    <2>2. /\ u \in ClientState
          /\ u.pc = client[c].pc /\ u.key = client[c].key
          /\ u.bytes = client[c].bytes /\ u.reply = answer
      BY <1>2 DEF ClientState
    <2>3. client[c].pc = q.kind /\ client[c].key = q.key /\ client[c].bytes = q.bytes
      BY <1>4 DEF At, RequestOf
    <2> HIDE DEF u
    <2>4. ClientOK(u, remote')
      BY <1>1, <1>2, <2>2, <2>3 DEF ClientOK, Creator, Waiting
    <2>5. setup.conditional /\ Creator(u) => remote[u.key] = Absent
      BY <1>1, <2>2, <2>3 DEF Creator, Waiting
    <2>6. QED
      BY <1>1, <1>3, <2>1, <2>2, <2>4, <2>5, OneClientSteps
  <1>5. CASE ~(At(c, q.kind) /\ RequestOf(c, q.kind) = q)
    <2>1. client' = client
      BY <1>5 DEF Reply
    <2>2. client' = [client EXCEPT ![c] = client[c]]
      BY <1>1, <2>1 DEF Inv, TypeOK
    <2>3. ClientOK(client[c], remote')
      BY <1>2, ClientOKKept DEF Inv
    <2>4. QED
      BY <1>1, <1>2, <1>3, <2>2, <2>3, OneClientSteps
  <1>6. QED
    BY <1>4, <1>5

(* A put is executed, in time or late: an object that is there stays. *)
LEMMA ExecutePutKeeps ==
    ASSUME Inv, CallersAgree, NEW q \in flight, ExecutePut(q)
    PROVE  Inv'
  <1>1. /\ q.key \in Keys /\ q.bytes \in setup.bytes
        /\ remote \in [Keys -> setup.bytes \cup {Absent}]
    BY DEF Inv, TypeOK, Request
  <1>2. flight' \subseteq flight /\ UNCHANGED setup /\ q.kind = "put"
    BY DEF ExecutePut
  <1>3. "exists" \in Replies /\ "ok" \in Replies
    BY DEF Replies
  <1>4. CASE setup.conditional /\ remote[q.key] # Absent
    <2>1. UNCHANGED remote /\ Reply(q, "exists")
      BY <1>4 DEF ExecutePut
    <2>2. Kept(remote')
      BY <2>1 DEF Kept
    <2>3. QED
      BY <1>1, <1>2, <1>3, <2>1, <2>2, ReplyKeeps
  <1>5. CASE ~(setup.conditional /\ remote[q.key] # Absent)
    <2>1. remote' = [remote EXCEPT ![q.key] = q.bytes] /\ Reply(q, "ok")
      BY <1>5 DEF ExecutePut
    <2>2. remote[q.key] # Absent => remote[q.key] = q.bytes
      <3>1. ~setup.conditional => \A a, b \in setup.bytes : a = b
        BY DEF CallersAgree, Inv, TypeOK
      <3>2. QED
        BY <1>1, <1>5, <3>1
    <2>3. Kept(remote') /\ remote' \in [Keys -> setup.bytes \cup {Absent}]
      BY <1>1, <2>1, <2>2 DEF Kept
    <2>4. remote'[q.key] = q.bytes
      BY <1>1, <2>1
    <2>5. QED
      BY <1>2, <1>3, <1>5, <2>1, <2>3, <2>4, ReplyKeeps
  <1>6. QED
    BY <1>4, <1>5

(* A get is executed. *)
LEMMA ExecuteGetKeeps ==
    ASSUME Inv, NEW q \in flight, ExecuteGet(q)
    PROVE  Inv'
  <1> DEFINE answer == IF remote[q.key] = Absent THEN "not_found" ELSE remote[q.key]
  <1>1. q.key \in Keys /\ remote \in [Keys -> setup.bytes \cup {Absent}] /\ setup.bytes \subseteq Bytes
    BY RemoteAssumption DEF Inv, TypeOK, Request
  <1>2. answer \in Replies /\ (answer \in Bytes => remote[q.key] = answer)
    BY <1>1, RemoteAssumption DEF Replies
  <1>3. /\ Reply(q, answer) /\ q.kind = "get"
        /\ flight' \subseteq flight /\ UNCHANGED <<setup, remote>>
    BY DEF ExecuteGet
  <1>4. Kept(remote')
    BY <1>3 DEF Kept
  <1> HIDE DEF answer
  <1>5. QED
    BY <1>1, <1>2, <1>3, <1>4, ReplyKeeps

(* A request is refused or lost. *)
LEMMA RefuseKeeps ==
    ASSUME Inv, NEW q \in flight, Refuse(q)
    PROVE  Inv'
  <1>1. "failed" \in Replies /\ "failed" \notin Bytes
    BY RemoteAssumption DEF Replies
  <1>2. /\ Reply(q, "failed") /\ flight' \subseteq flight /\ UNCHANGED <<setup, remote>>
    BY DEF Refuse
  <1>3. Kept(remote') /\ remote' \in [Keys -> setup.bytes \cup {Absent}]
    BY <1>2 DEF Kept, Inv, TypeOK
  <1>4. QED
    BY <1>1, <1>2, <1>3, ReplyKeeps

(* Init and the steps of Next, together. *)
LEMMA InvAlways ==
    ASSUME CallersAgree
    PROVE  Spec => []Inv
  <1>1. Init => Inv
    <2> SUFFICES ASSUME Init PROVE Inv
      OBVIOUS
    <2>1. PICK k \in Keys, b \in Bytes :
              client = [c \in Clients |->
                          [pc |-> "idle", key |-> k, bytes |-> b, call |-> 0,
                           attempt |-> 0, reply |-> "none"]]
      BY DEF Init
    <2>2. TypeOK
      BY <2>1 DEF Init, TypeOK, ClientState, ClientPc, Replies
    <2>3. \A c \in Clients : client[c].pc = "idle" /\ ~Creator(client[c])
      BY <2>1 DEF Creator
    <2>4. QED
      BY <2>2, <2>3 DEF Init, Inv, ClientOK, OneCreator
  <1>2. Inv /\ [Next]_vars => Inv'
    <2> SUFFICES ASSUME Inv, [Next]_vars PROVE Inv'
      OBVIOUS
    <2>1. CASE UNCHANGED vars
      BY <2>1 DEF vars, Inv, TypeOK, ClientOK, OneCreator
    <2>2. ASSUME NEW c \in Clients, Acquire(c) PROVE Inv'
      BY <2>2, GoToKeeps DEF Acquire, At, ClientPc
    <2>3. ASSUME NEW c \in Clients, Step(c) PROVE Inv'
      <3>1. CASE Timeout(c) /\ UNCHANGED setup
        BY <3>1, RetryKeeps DEF Timeout, Waiting
      <3>2. CASE Wake(c) /\ UNCHANGED setup
        BY <3>2, GoToKeeps DEF Wake, Stay, At, ClientPc
      <3>3. QED
        BY <2>3, <3>1, <3>2, AttemptKeeps, PutAnsweredKeeps, GetAnsweredKeeps DEF Step
    <2>4. ASSUME NEW q \in flight, ExecutePut(q) \/ ExecuteGet(q) \/ Refuse(q) PROVE Inv'
      BY <2>4, ExecutePutKeeps, ExecuteGetKeeps, RefuseKeeps
    <2>5. QED
      BY <2>1, <2>2, <2>3, <2>4, CallKeeps DEF Next
  <1>3. QED
    BY <1>1, <1>2, PTL DEF Spec

-----------------------------------------------------------------------------
(* Theorems *)

(***************************************************************************)
(* What put_if_absent has answered through the policy stays true, however  *)
(* many attempts have timed out and however late their requests are        *)
(* executed; with conditional create at most one call is told that it has  *)
(* created the object.  Without conditional create this needs callers that *)
(* agree on the bytes: the fallback's read and write are not one step.     *)
(***************************************************************************)
THEOREM AnswersRemainTrue ==
    ASSUME CallersAgree
    PROVE  Spec => []AnswersStayTrue
  <1>1. Inv => AnswersStayTrue
    BY DEF Inv, ClientOK, OneCreator, Creator, AnswersStayTrue, At
  <1>2. QED
    BY <1>1, InvAlways, PTL

-----------------------------------------------------------------------------
(* The semaphore of PolicyObjectStore *)

(* Where a call holds a permit. *)
Holds(pc) == pc \in {"attempt", "backoff"} \cup Waiting
Holders == {c \in Clients : Holds(client[c].pc)}

PermitInv ==
    /\ setup \in Setups
    /\ remote \in [Keys -> Bytes \cup {Absent}]
    /\ flight \subseteq Request
    /\ client \in [Clients -> ClientState]
    /\ permits \in Nat
    /\ permits + Cardinality(Holders) = setup.max_concurrency

(* A client that goes to state u takes or returns a permit, or neither. *)
LEMMA PermitStep ==
    ASSUME PermitInv, NEW c \in Clients, NEW u \in ClientState,
           client' = [client EXCEPT ![c] = u],
           UNCHANGED setup, remote' \in [Keys -> Bytes \cup {Absent}], flight' \subseteq Request,
           \/ Holds(u.pc) /\ Holds(client[c].pc) /\ permits' = permits
           \/ ~Holds(u.pc) /\ ~Holds(client[c].pc) /\ permits' = permits
           \/ Holds(u.pc) /\ ~Holds(client[c].pc) /\ permits > 0 /\ permits' = permits - 1
           \/ ~Holds(u.pc) /\ Holds(client[c].pc) /\ permits' = permits + 1
    PROVE  PermitInv'
  <1>1. /\ client' \in [Clients -> ClientState]
        /\ client'[c] = u
        /\ \A d \in Clients : d # c => client'[d] = client[d]
    BY DEF PermitInv
  <1>2. Holders \subseteq Clients /\ IsFiniteSet(Holders)
    BY RemoteAssumption, FS_Subset DEF Holders
  <1>3. Cardinality(Holders) \in Nat
    BY <1>2, FS_CardinalityType
  <1>4. CASE Holds(u.pc) /\ ~Holds(client[c].pc) /\ permits > 0 /\ permits' = permits - 1
    <2>1. Holders' = Holders \cup {c} /\ c \notin Holders
      BY <1>1, <1>4 DEF Holders
    <2>2. Cardinality(Holders') = Cardinality(Holders) + 1
      BY <1>2, <2>1, FS_AddElement
    <2>3. QED
      BY <1>1, <1>3, <1>4, <2>2 DEF PermitInv
  <1>5. CASE ~Holds(u.pc) /\ Holds(client[c].pc) /\ permits' = permits + 1
    <2>1. Holders' = Holders \ {c} /\ c \in Holders
      BY <1>1, <1>5 DEF Holders
    <2>2. Cardinality(Holders') = Cardinality(Holders) - 1
      BY <1>2, <2>1, FS_RemoveElement
    <2>3. QED
      BY <1>1, <1>3, <1>5, <2>2 DEF PermitInv
  <1>6. CASE (Holds(u.pc) <=> Holds(client[c].pc)) /\ permits' = permits
    <2>1. Holders' = Holders
      BY <1>1, <1>6 DEF Holders
    <2>2. QED
      BY <1>1, <1>6, <2>1 DEF PermitInv
  <1>7. QED
    BY <1>4, <1>5, <1>6

(* A step by GoTo, which keeps the call's arguments. *)
LEMMA PermitGoTo ==
    ASSUME PermitInv, NEW c \in Clients, NEW pc \in ClientPc, GoTo(c, pc),
           UNCHANGED <<setup, remote>>, flight' \subseteq Request,
           \/ Holds(pc) /\ Holds(client[c].pc) /\ permits' = permits
           \/ Holds(pc) /\ ~Holds(client[c].pc) /\ permits > 0 /\ permits' = permits - 1
           \/ ~Holds(pc) /\ Holds(client[c].pc) /\ permits' = permits + 1
    PROVE  PermitInv'
  <1> DEFINE u == [client[c] EXCEPT !.pc = pc, !.reply = "none"]
  <1>1. client[c] \in ClientState
    BY DEF PermitInv
  <1>2. "none" \in Replies
    BY DEF Replies
  <1>3. u \in ClientState /\ u.pc = pc
    BY <1>1, <1>2 DEF ClientState
  <1>4. client' = [client EXCEPT ![c] = u]
    BY DEF GoTo, PermitInv
  <1> HIDE DEF u
  <1>5. QED
    BY <1>3, <1>4, PermitStep DEF PermitInv

(* The ways a call in progress goes on: it stays, follows up or finishes. *)
LEMMA PermitFinish ==
    ASSUME PermitInv, NEW c \in Clients, NEW pc \in Results, Finish(c, pc),
           Holds(client[c].pc), UNCHANGED <<setup, remote, flight>>
    PROVE  PermitInv'
  BY PermitGoTo DEF Finish, Results, ClientPc, Holds, Waiting, PermitInv

LEMMA PermitStay ==
    ASSUME PermitInv, NEW c \in Clients, NEW pc \in {"attempt", "backoff", "put", "get"},
           Stay(c, pc), Holds(client[c].pc), UNCHANGED <<setup, remote>>, flight' \subseteq Request
    PROVE  PermitInv'
  BY PermitGoTo DEF Stay, ClientPc, Holds, Waiting

LEMMA PermitFollow ==
    ASSUME PermitInv, NEW c \in Clients, NEW kind \in Waiting, Follow(c, kind),
           Holds(client[c].pc), UNCHANGED setup
    PROVE  PermitInv'
  <1>1. client[c] \in ClientState
    BY DEF PermitInv
  <1>2. RequestOf(c, kind) \in Request
    BY <1>1 DEF RequestOf, Request, ClientState
  <1>3. QED
    BY <1>2, PermitStay DEF Follow, Waiting, PermitInv

LEMMA PermitRetry ==
    ASSUME PermitInv, NEW c \in Clients, Retry(c), Holds(client[c].pc),
           UNCHANGED <<setup, remote, flight>>
    PROVE  PermitInv'
  BY PermitStay, PermitFinish DEF Retry, Results, PermitInv

(* The answer to a request takes no permit and returns none. *)
LEMMA PermitReply ==
    ASSUME PermitInv, NEW q \in flight, NEW answer \in Replies, Reply(q, answer),
           UNCHANGED <<setup, permits>>, flight' \subseteq flight,
           remote' \in [Keys -> Bytes \cup {Absent}]
    PROVE  PermitInv'
  <1> DEFINE c == q.client
             u == [client[c] EXCEPT !.reply = answer]
  <1>1. c \in Clients /\ client[c] \in ClientState
    BY DEF PermitInv, Request
  <1>2. CASE client' = [client EXCEPT ![c] = u]
    <2>1. u \in ClientState /\ u.pc = client[c].pc
      BY <1>1 DEF ClientState
    <2> HIDE DEF u
    <2>2. QED
      BY <1>1, <1>2, <2>1, PermitStep DEF PermitInv
  <1>3. CASE client' = client
    BY <1>3 DEF PermitInv, Holders
  <1>4. QED
    BY <1>2, <1>3 DEF Reply

(***************************************************************************)
(* PolicyObjectStore's limit: at most max_concurrency operations hold a    *)
(* permit, and the permits in use and the free ones are always all of      *)
(* them, so that none is lost by an error, a retry or a timeout.           *)
(***************************************************************************)
THEOREM PermitsConserved ==
    Spec => [](/\ Cardinality(Holders) <= setup.max_concurrency
               /\ permits + Cardinality(Holders) = setup.max_concurrency)
  <1>1. Init => PermitInv
    <2> SUFFICES ASSUME Init PROVE PermitInv
      OBVIOUS
    <2>1. PICK k \in Keys, b \in Bytes :
              client = [c \in Clients |->
                          [pc |-> "idle", key |-> k, bytes |-> b, call |-> 0,
                           attempt |-> 0, reply |-> "none"]]
      BY DEF Init
    <2>2. client \in [Clients -> ClientState]
      BY <2>1 DEF ClientState, ClientPc, Replies
    <2>3. Holders = {}
      BY <2>1 DEF Holders, Holds, Waiting
    <2>4. setup.max_concurrency \in Nat
      BY RemoteAssumption DEF Init
    <2>5. QED
      BY <2>2, <2>3, <2>4, FS_EmptySet DEF Init, PermitInv
  <1>2. PermitInv /\ [Next]_vars => PermitInv'
    <2> SUFFICES ASSUME PermitInv, [Next]_vars PROVE PermitInv'
      OBVIOUS
    <2>1. CASE UNCHANGED vars
      BY <2>1 DEF vars, PermitInv, Holders
    <2>2. ASSUME NEW c \in Clients, NEW k \in Keys, NEW b \in setup.bytes, Call(c, k, b)
          PROVE  PermitInv'
      <3> DEFINE u == [pc |-> "queued", key |-> k, bytes |-> b, call |-> client[c].call + 1,
                       attempt |-> 0, reply |-> "none"]
      <3>1. b \in Bytes /\ client[c] \in ClientState
        BY RemoteAssumption DEF PermitInv
      <3>2. u \in ClientState /\ ~Holds(u.pc)
        BY <3>1 DEF ClientState, ClientPc, Replies, Holds, Waiting
      <3>3. client' = [client EXCEPT ![c] = u] /\ ~Holds(client[c].pc)
        BY <2>2 DEF Call, Holds, Waiting, Results
      <3> HIDE DEF u
      <3>4. QED
        BY <2>2, <3>2, <3>3, PermitStep DEF Call, PermitInv
    <2>3. ASSUME NEW c \in Clients, Acquire(c) PROVE PermitInv'
      <3>1. ~Holds(client[c].pc) /\ Holds("attempt") /\ "attempt" \in ClientPc
        BY <2>3 DEF Acquire, At, Holds, Waiting, ClientPc
      <3>2. QED
        BY <2>3, <3>1, PermitGoTo DEF Acquire, PermitInv
    <2>4. ASSUME NEW c \in Clients, Attempt(c), UNCHANGED setup PROVE PermitInv'
      <3> DEFINE u == [client[c] EXCEPT !.pc = FirstRequest, !.reply = "none",
                                        !.attempt = client[c].attempt + 1]
                 q == [RequestOf(c, FirstRequest) EXCEPT !.attempt = @ + 1]
      <3>1. client[c] \in ClientState /\ Holds(client[c].pc)
        BY <2>4 DEF PermitInv, Attempt, At, Holds
      <3>2. FirstRequest \in Waiting /\ FirstRequest \in ClientPc /\ Holds(FirstRequest)
        BY DEF FirstRequest, Waiting, ClientPc, Holds
      <3>3. "none" \in Replies /\ client[c].attempt + 1 \in Nat
        BY <3>1 DEF Replies, ClientState
      <3>4. u \in ClientState /\ u.pc = FirstRequest
        BY <3>1, <3>2, <3>3 DEF ClientState
      <3>5. RequestOf(c, FirstRequest) \in Request
        BY <3>1, <3>2 DEF RequestOf, Request, ClientState
      <3>6. q \in Request
        BY <3>5 DEF Request
      <3>7. client' = [client EXCEPT ![c] = u]
        BY <2>4 DEF Attempt, PermitInv
      <3>8. flight' = flight \cup {q} /\ UNCHANGED <<remote, permits>>
        BY <2>4 DEF Attempt
      <3>9. flight' \subseteq Request /\ remote' \in [Keys -> Bytes \cup {Absent}]
        BY <3>6, <3>8 DEF PermitInv
      <3> HIDE DEF u, q
      <3>10. QED
        BY <2>4, <3>1, <3>2, <3>4, <3>7, <3>8, <3>9, PermitStep
    <2>5. ASSUME NEW c \in Clients, PutAnswered(c) \/ GetAnswered(c), UNCHANGED setup
          PROVE  PermitInv'
      <3>1. Holds(client[c].pc)
        BY <2>5 DEF PutAnswered, GetAnswered, At, Holds, Waiting
      <3>2. \/ \E result \in Results : Answer(c, result)
            \/ \E kind \in Waiting : Follow(c, kind)
            \/ Retry(c) /\ UNCHANGED <<remote, flight>>
        BY <2>5 DEF PutAnswered, GetAnswered, Results, Waiting
      <3>3. QED
        BY <2>5, <3>1, <3>2, PermitFinish, PermitFollow, PermitRetry DEF Answer
    <2>6. ASSUME NEW c \in Clients, Timeout(c), UNCHANGED setup PROVE PermitInv'
      BY <2>6, PermitRetry DEF Timeout, Holds
    <2>7. ASSUME NEW c \in Clients, Wake(c), UNCHANGED setup PROVE PermitInv'
      BY <2>7, PermitStay DEF Wake, At, Holds, PermitInv
    <2>8. ASSUME NEW q \in flight, ExecutePut(q) PROVE PermitInv'
      <3>1. q.key \in Keys /\ q.bytes \in Bytes
        BY DEF PermitInv, Request
      <3>2. remote' \in [Keys -> Bytes \cup {Absent}]
        BY <2>8, <3>1 DEF ExecutePut, PermitInv
      <3>3. QED
        BY <2>8, <3>2, PermitReply DEF ExecutePut, Replies
    <2>9. ASSUME NEW q \in flight, ExecuteGet(q) PROVE PermitInv'
      <3>1. q.key \in Keys
        BY DEF PermitInv, Request
      <3>2. PICK answer \in Replies : Reply(q, answer)
        BY <2>9, <3>1 DEF ExecuteGet, Replies, PermitInv
      <3>3. QED
        BY <2>9, <3>2, PermitReply DEF ExecuteGet, PermitInv
    <2>10. ASSUME NEW q \in flight, Refuse(q) PROVE PermitInv'
      BY <2>10, PermitReply DEF Refuse, Replies, PermitInv
    <2>11. QED
      BY <2>1, <2>2, <2>3, <2>4, <2>5, <2>6, <2>7, <2>8, <2>9, <2>10 DEF Next, Step
  <1>3. PermitInv => /\ Cardinality(Holders) <= setup.max_concurrency
                     /\ permits + Cardinality(Holders) = setup.max_concurrency
    <2> SUFFICES ASSUME PermitInv PROVE Cardinality(Holders) <= setup.max_concurrency
      BY DEF PermitInv
    <2>1. Cardinality(Holders) \in Nat
      BY RemoteAssumption, FS_Subset, FS_CardinalityType DEF Holders
    <2>2. QED
      BY <2>1 DEF PermitInv
  <1>4. QED
    BY <1>1, <1>2, <1>3, PTL DEF Spec
=============================================================================
