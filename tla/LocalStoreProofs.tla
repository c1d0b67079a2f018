-------------------------- MODULE LocalStoreProofs --------------------------
(***************************************************************************)
(* Proofs about LocalStore, for any number of tasks and processes, any     *)
(* keys and any reuse of process ids.  Two calls in progress never have    *)
(* one temporary name, so that what a call has written and synced is what  *)
(* it links.  From this follow that objects are whole, and, step by step,  *)
(* the contract of ObjectStore.                                            *)
(***************************************************************************)
EXTENDS LocalStore, TLAPS

-----------------------------------------------------------------------------
(* The inductive invariant of put_if_absent *)

File == [data : Bytes \cup {Torn}, synced : BOOLEAN]
Object == [data : Bytes, synced : {TRUE}]

PutCall == [pc : PutPc, key : Keys, bytes : Bytes, temp : TempPaths]

StoreType ==
    /\ setup \in Setups
    /\ files \in [Keys -> Object \cup {Absent}]
    /\ temps \in [TempPaths -> File \cup {Absent}]
    /\ nextTempId \in [Pids -> Nat]
    /\ op \in [Clients -> PutCall \cup {NoCall}]

(* Call o of client c, the temporary files being T and the counters N. *)
CallOK(c, o, T, N) == o # NoCall =>
    /\ c \in DOMAIN Pid
    /\ o.temp.pid = Pid[c]
    /\ o.temp.id < N[Pid[c]]
    /\ o.pc \in {"write", "sync", "link"} => T[o.temp] \in File
    /\ o.pc \in {"sync", "link"} => T[o.temp].data = o.bytes
    /\ o.pc = "link" => T[o.temp] \in Object

TempsDistinct ==
    \A c, d \in Clients :
        c # d /\ op[c] # NoCall /\ op[d] # NoCall => op[c].temp # op[d].temp

PutInv ==
    /\ StoreType
    /\ \A c \in Clients : CallOK(c, op[c], temps, nextTempId)
    /\ TempsDistinct

-----------------------------------------------------------------------------
(* Lemmas *)

(* The model values are not among the records they stand beside. *)
LEMMA Constants ==
    /\ Absent \notin Bytes
    /\ Absent \notin File
    /\ Absent \notin Object
    /\ NoCall \notin PutCall
    /\ LastTempId \in [Pids -> Nat]
    /\ \A s \in Setups : DOMAIN s.pid \subseteq Clients /\ s.keys \subseteq Keys
    /\ \A s \in Setups : \A c \in DOMAIN s.pid : s.pid[c] \in Pids
  <1>1. Object \subseteq File
    BY DEF Object, File
  <1>2. Absent \notin File
    BY StoreAssumption DEF File
  <1>3. NoCall \notin PutCall
    BY StoreAssumption DEF PutCall
  <1>4. QED
    BY <1>1, <1>2, <1>3, StoreAssumption

(* The counter of a temporary path is a number. *)
LEMMA TempPathType ==
    /\ \A t \in TempPaths : t.id \in Nat
    /\ \A p \in Pids, k \in Keys, i \in Nat :
          i <= LastTempId[p] => [pid |-> p, key |-> k, id |-> i] \in TempPaths
  BY Constants DEF TempPaths

(* A step of the call of c that touches no temporary file but its own. *)
LEMMA CallMoves ==
    ASSUME PutInv, NEW c \in Clients, op[c] # NoCall, NEW pc \in PutPc, GoTo(c, pc),
           UNCHANGED <<setup, nextTempId>>,
           files' \in [Keys -> Object \cup {Absent}],
           temps' \in [TempPaths -> File \cup {Absent}],
           \A t \in TempPaths : t # op[c].temp => temps'[t] = temps[t],
           pc \in {"write", "sync", "link"} => temps'[op[c].temp] \in File,
           pc \in {"sync", "link"} => temps'[op[c].temp].data = op[c].bytes,
           pc = "link" => temps'[op[c].temp] \in Object
    PROVE  PutInv'
  <1> DEFINE o == [op[c] EXCEPT !.pc = pc]
  <1>1. op[c] \in PutCall
    BY DEF PutInv, StoreType
  <1>2. /\ o \in PutCall /\ o.temp = op[c].temp /\ o.bytes = op[c].bytes
        /\ o.key = op[c].key /\ o.pc = pc
    BY <1>1 DEF PutCall
  <1>3. op' = [op EXCEPT ![c] = o]
    BY DEF GoTo
  <1> HIDE DEF o
  <1>4. /\ op' \in [Clients -> PutCall \cup {NoCall}]
        /\ op'[c] = o
        /\ \A d \in Clients : d # c => op'[d] = op[d]
    BY <1>2, <1>3 DEF PutInv, StoreType
  <1>5. StoreType'
    BY <1>4 DEF PutInv, StoreType
  <1>6. ASSUME NEW d \in Clients PROVE CallOK(d, op[d], temps, nextTempId)
    BY DEF PutInv
  <1>7. CallOK(c, op[c], temps, nextTempId)'
    BY <1>2, <1>4, <1>6 DEF CallOK, Pid
  <1>8. ASSUME NEW d \in Clients, d # c
        PROVE  CallOK(d, op[d], temps, nextTempId)'
    <2>1. CASE op[d] = NoCall
      BY <1>4, <1>8, <2>1 DEF CallOK
    <2>2. CASE op[d] # NoCall
      <3>1. op[d] \in PutCall /\ op[d].temp # op[c].temp /\ op[d].temp \in TempPaths
        BY <1>8, <2>2 DEF PutInv, StoreType, TempsDistinct, PutCall
      <3>2. temps'[op[d].temp] = temps[op[d].temp]
        BY <3>1
      <3>3. QED
        BY <1>4, <1>6, <1>8, <2>2, <3>2 DEF CallOK, Pid
    <2>3. QED
      BY <2>1, <2>2
  <1>9. TempsDistinct'
    BY <1>2, <1>4 DEF PutInv, TempsDistinct
  <1>10. QED
    BY <1>4, <1>5, <1>7, <1>8, <1>9 DEF PutInv

(***************************************************************************)
(* The steps of put_if_absent.                                             *)
(***************************************************************************)
LEMMA CallStepKeeps ==
    ASSUME PutInv, NEW c \in DOMAIN Pid, CallStep(c), UNCHANGED setup
    PROVE  PutInv'
  <1> USE DEF At
  <1>0. c \in Clients
    BY Constants DEF PutInv, StoreType, Pid
  <1>1. op[c] # NoCall
    BY DEF CallStep, CreateTemp, WriteTemp, SyncTemp, LinkTemp, LinkFails, UnlinkTemp,
           CompareExisting, IoError, Return, Finished
  <1>2. /\ op[c] \in PutCall /\ op[c].temp \in TempPaths
        /\ op[c].key \in Keys /\ op[c].bytes \in Bytes
        /\ CallOK(c, op[c], temps, nextTempId)
    BY <1>0, <1>1 DEF PutInv, StoreType, PutCall
  <1>3. /\ files \in [Keys -> Object \cup {Absent}]
        /\ temps \in [TempPaths -> File \cup {Absent}]
        /\ op \in [Clients -> PutCall \cup {NoCall}]
    BY DEF PutInv, StoreType
  <1>4. CASE CreateTemp(c)
    <2>1. CASE temps[op[c].temp] = Absent
      <3>1. [data |-> Torn, synced |-> FALSE] \in File
        BY DEF File
      <3>2. QED
        BY <1>0, <1>1, <1>2, <1>3, <1>4, <2>1, <3>1, CallMoves DEF CreateTemp, PutPc
    <2>2. CASE temps[op[c].temp] # Absent
      BY <1>0, <1>1, <1>2, <1>3, <1>4, <2>2, CallMoves DEF CreateTemp, PutPc
    <2>3. QED
      BY <2>1, <2>2
  <1>5. CASE WriteTemp(c)
    <2> DEFINE f == [temps[op[c].temp] EXCEPT !.data = op[c].bytes]
    <2>1. temps[op[c].temp] \in File
      BY <1>2, <1>1, <1>5 DEF WriteTemp, CallOK
    <2>2. f \in File /\ f.data = op[c].bytes
      BY <1>2, <2>1 DEF File
    <2>3. temps' = [temps EXCEPT ![op[c].temp] = f]
      BY <1>5 DEF WriteTemp
    <2> HIDE DEF f
    <2>4. QED
      BY <1>0, <1>1, <1>2, <1>3, <1>5, <2>2, <2>3, CallMoves DEF WriteTemp, PutPc
  <1>6. CASE SyncTemp(c)
    <2> DEFINE f == [temps[op[c].temp] EXCEPT !.synced = TRUE]
    <2>1. temps[op[c].temp] \in File /\ temps[op[c].temp].data = op[c].bytes
      BY <1>2, <1>1, <1>6 DEF SyncTemp, CallOK
    <2>2. f \in File /\ f.data = op[c].bytes /\ f \in Object
      BY <1>2, <2>1 DEF File, Object
    <2>3. temps' = [temps EXCEPT ![op[c].temp] = f]
      BY <1>6 DEF SyncTemp
    <2> HIDE DEF f
    <2>4. /\ temps' \in [TempPaths -> File \cup {Absent}]
          /\ \A t \in TempPaths : t # op[c].temp => temps'[t] = temps[t]
          /\ temps'[op[c].temp] = f
      BY <1>2, <1>3, <2>2, <2>3
    <2>5. /\ GoTo(c, "link") /\ "link" \in PutPc
          /\ UNCHANGED <<files, nextTempId>>
      BY <1>6 DEF SyncTemp, PutPc
    <2>6. QED
      BY <1>0, <1>1, <1>3, <2>2, <2>4, <2>5, CallMoves
  <1>7. CASE LinkTemp(c)
    <2>1. temps[op[c].temp] \in Object
      BY <1>2, <1>1, <1>7 DEF LinkTemp, CallOK, File, Object
    <2>2. files' \in [Keys -> Object \cup {Absent}]
      BY <1>2, <1>3, <1>7, <2>1 DEF LinkTemp
    <2>3. QED
      BY <1>0, <1>1, <1>2, <1>3, <1>7, <2>2, CallMoves DEF LinkTemp, PutPc
  <1>8. CASE LinkFails(c)
    BY <1>0, <1>1, <1>2, <1>3, <1>8, CallMoves DEF LinkFails, PutPc
  <1>9. CASE UnlinkTemp(c)
    BY <1>0, <1>1, <1>2, <1>3, <1>9, CallMoves DEF UnlinkTemp, PutPc
  <1>10. CASE CompareExisting(c)
    <2>1. PICK pc \in {"error", "already_present", "conflict"} : GoTo(c, pc)
      BY <1>10 DEF CompareExisting
    <2>2. QED
      BY <1>0, <1>1, <1>2, <1>3, <1>10, <2>1, CallMoves DEF CompareExisting, PutPc
  <1>11. CASE IoError(c)
    BY <1>0, <1>1, <1>2, <1>3, <1>11, CallMoves DEF IoError, PutPc
  <1>12. CASE Return(c)
    <2>1. /\ op' \in [Clients -> PutCall \cup {NoCall}]
          /\ op'[c] = NoCall
          /\ \A d \in Clients : d # c => op'[d] = op[d]
      BY <1>0, <1>3, <1>12 DEF Return
    <2>2. UNCHANGED <<setup, files, temps, nextTempId>>
      BY <1>12 DEF Return
    <2>3. StoreType'
      BY <2>1, <2>2 DEF PutInv, StoreType
    <2>4. \A d \in Clients : CallOK(d, op[d], temps, nextTempId)'
      BY <2>1, <2>2 DEF PutInv, CallOK, Pid
    <2>5. TempsDistinct'
      BY <2>1 DEF PutInv, TempsDistinct
    <2>6. QED
      BY <2>3, <2>4, <2>5 DEF PutInv
  <1>13. QED
    BY <1>4, <1>5, <1>6, <1>7, <1>8, <1>9, <1>10, <1>11, <1>12 DEF CallStep

(* Nothing that is synced changes when the power is lost. *)
LEMMA RemainsWhole ==
    /\ \A f \in Object \cup {Absent} : Remains(f) = f
    /\ \A f \in File \cup {Absent} : Remains(f) \in File \cup {Absent}
  <1>1. ASSUME NEW f \in Object PROVE f.synced = TRUE
    BY DEF Object
  <1>2. [data |-> Torn, synced |-> TRUE] \in File
    BY DEF File
  <1>3. QED
    BY <1>1, <1>2 DEF Remains

(* A new call takes a number no call in progress of its process has. *)
LEMMA PutBeginKeeps ==
    ASSUME PutInv, NEW c \in DOMAIN Pid, NEW k \in Keys, NEW b \in Bytes,
           PutBegin(c, k, b), UNCHANGED setup
    PROVE  PutInv'
  <1> DEFINE p == Pid[c]
             t == [pid |-> p, key |-> k, id |-> nextTempId[p]]
             o == [pc |-> "create", key |-> k, bytes |-> b, temp |-> t]
  <1>1. c \in Clients /\ p \in Pids /\ nextTempId[p] \in Nat
    BY Constants DEF PutInv, StoreType, Pid
  <1>2. t \in TempPaths /\ t.pid = p /\ t.id = nextTempId[p]
    BY <1>1, TempPathType DEF PutBegin
  <1>3. o \in PutCall /\ o.temp = t /\ o.pc = "create"
    BY <1>2 DEF PutCall, PutPc
  <1>4. /\ op' = [op EXCEPT ![c] = o]
        /\ nextTempId' = [nextTempId EXCEPT ![p] = @ + 1]
        /\ UNCHANGED <<files, temps>>
    BY DEF PutBegin, TakeTempId
  <1> HIDE DEF o, t
  <1>5. /\ op' \in [Clients -> PutCall \cup {NoCall}]
        /\ op'[c] = o
        /\ \A d \in Clients : d # c => op'[d] = op[d]
    BY <1>1, <1>3, <1>4 DEF PutInv, StoreType
  <1>6. /\ nextTempId' \in [Pids -> Nat]
        /\ nextTempId'[p] = nextTempId[p] + 1
        /\ \A q \in Pids : nextTempId[q] <= nextTempId'[q]
    BY <1>1, <1>4 DEF PutInv, StoreType
  <1>7. StoreType'
    BY <1>4, <1>5, <1>6 DEF PutInv, StoreType
  <1>8. CallOK(c, op[c], temps, nextTempId)'
    BY <1>1, <1>2, <1>3, <1>5, <1>6 DEF CallOK, Pid
  <1>9. ASSUME NEW d \in Clients, d # c, op[d] # NoCall
        PROVE  /\ CallOK(d, op[d], temps, nextTempId)'
               /\ op[d].temp # t
    <2>1. /\ CallOK(d, op[d], temps, nextTempId)
          /\ op[d] \in PutCall
      BY <1>9 DEF PutInv, StoreType
    <2>2. d \in DOMAIN Pid /\ Pid[d] \in Pids /\ op[d].temp.id \in Nat
      BY <1>9, <2>1, Constants, TempPathType DEF CallOK, PutInv, StoreType, Pid, PutCall
    <2>3. /\ op[d].temp.id < nextTempId[Pid[d]]
          /\ op[d].temp.pid = Pid[d]
      BY <1>9, <2>1 DEF CallOK
    <2>4. op[d].temp.id < nextTempId'[Pid[d]]
      BY <1>6, <2>2, <2>3 DEF PutInv, StoreType
    <2>5. CallOK(d, op[d], temps, nextTempId)'
      BY <1>4, <1>5, <1>9, <2>1, <2>4 DEF CallOK, Pid
    <2>6. op[d].temp # t
      BY <1>1, <1>2, <2>2, <2>3
    <2>7. QED
      BY <2>5, <2>6
  <1>10. \A d \in Clients : CallOK(d, op[d], temps, nextTempId)'
    BY <1>5, <1>8, <1>9 DEF CallOK
  <1>11. TempsDistinct'
    BY <1>3, <1>5, <1>9 DEF PutInv, TempsDistinct
  <1>12. QED
    BY <1>7, <1>10, <1>11 DEF PutInv

(* delete. *)
LEMMA DeleteKeeps ==
    ASSUME PutInv, NEW k \in Keys, DeleteObject(k), UNCHANGED setup
    PROVE  PutInv'
  <1>1. files' \in [Keys -> Object \cup {Absent}] /\ UNCHANGED <<temps, nextTempId, op>>
    BY DEF PutInv, StoreType, DeleteObject
  <1>2. QED
    BY <1>1 DEF PutInv, StoreType, CallOK, TempsDistinct, Pid

(* A process that dies takes all the calls with its id with it. *)
LEMMA CrashKeeps ==
    ASSUME PutInv, NEW p \in Pids, CrashProcess(p), UNCHANGED setup
    PROVE  PutInv'
  <1>1. /\ nextTempId' \in [Pids -> Nat]
        /\ \A q \in Pids : q # p => nextTempId'[q] = nextTempId[q]
        /\ UNCHANGED <<files, temps>>
    BY DEF PutInv, StoreType, CrashProcess
  <1>2. /\ op' \in [Clients -> PutCall \cup {NoCall}]
        /\ \A c \in Clients : op'[c] # NoCall =>
              /\ op'[c] = op[c]
              /\ ~(c \in DOMAIN Pid /\ Pid[c] = p)
    BY DEF PutInv, StoreType, CrashProcess
  <1>3. StoreType'
    BY <1>1, <1>2 DEF PutInv, StoreType
  <1>4. ASSUME NEW c \in Clients
        PROVE  CallOK(c, op[c], temps, nextTempId)'
    <2>1. CASE op'[c] = NoCall
      BY <2>1 DEF CallOK
    <2>2. CASE op'[c] # NoCall
      <3>1. CallOK(c, op[c], temps, nextTempId) /\ op'[c] = op[c]
        BY <1>2, <2>2 DEF PutInv
      <3>2. Pid[c] \in Pids /\ Pid[c] # p
        BY <1>2, <2>2, <3>1, Constants DEF CallOK, PutInv, StoreType, Pid
      <3>3. QED
        BY <1>1, <2>2, <3>1, <3>2 DEF CallOK, Pid
    <2>3. QED
      BY <2>1, <2>2
  <1>5. TempsDistinct'
    BY <1>2 DEF PutInv, TempsDistinct
  <1>6. QED
    BY <1>3, <1>4, <1>5 DEF PutInv

(* The machine loses power. *)
LEMMA PowerLossKeeps ==
    ASSUME PutInv, NEW lost \in SUBSET Keys, PowerLoss(lost), UNCHANGED setup
    PROVE  PutInv'
  <1>1. files' \in [Keys -> Object \cup {Absent}]
    BY RemainsWhole DEF PutInv, StoreType, PowerLoss
  <1>2. temps' \in [TempPaths -> File \cup {Absent}]
    BY RemainsWhole DEF PutInv, StoreType, PowerLoss
  <1>3. /\ op' \in [Clients -> PutCall \cup {NoCall}]
        /\ \A c \in Clients : op'[c] = NoCall
        /\ nextTempId' \in [Pids -> Nat]
    BY DEF PowerLoss
  <1>4. QED
    BY <1>1, <1>2, <1>3 DEF PutInv, StoreType, CallOK, TempsDistinct

(* Init and the steps of Next, together. *)
LEMMA PutInvAlways ==
    Spec => []PutInv
  <1>1. Init => PutInv
    BY DEF Init, PutInv, StoreType, CallOK, TempsDistinct
  <1>2. PutInv /\ [Next]_vars => PutInv'
    <2> SUFFICES ASSUME PutInv, [Next]_vars PROVE PutInv'
      OBVIOUS
    <2>1. ASSUME UNCHANGED <<setup, files, temps, nextTempId, op>>
          PROVE  PutInv'
      BY <2>1 DEF PutInv, StoreType, CallOK, TempsDistinct, Pid
    <2>2. CASE UNCHANGED vars
      BY <2>1, <2>2 DEF vars
    <2>3. CASE ListStep /\ UNCHANGED setup
      BY <2>1, <2>3 DEF ListStep
    <2>4. CASE StoreStep /\ UNCHANGED setup
      <3>1. setup.keys \subseteq Keys
        BY Constants DEF PutInv, StoreType
      <3>2. ASSUME NEW k \in setup.keys, FlushEntry(k) PROVE PutInv'
        BY <2>1, <2>4, <3>2 DEF FlushEntry
      <3>3. QED
        BY <2>4, <3>1, <3>2, PutBeginKeeps, CallStepKeeps, DeleteKeeps, CrashKeeps,
           PowerLossKeeps DEF StoreStep
    <2>5. QED
      BY <2>2, <2>3, <2>4 DEF Next
  <1>3. QED
    BY <1>1, <1>2, PTL DEF Spec

-----------------------------------------------------------------------------
(* Theorems about put_if_absent *)

(***************************************************************************)
(* A visible object is whole: put_if_absent syncs its temporary file       *)
(* before it links it, no other call writes to that file, and so neither a *)
(* process that dies nor power loss leaves a torn object.                  *)
(***************************************************************************)
THEOREM ObjectsAreWhole ==
    Spec => []NoTornObject
  <1>1. PutInv => NoTornObject
    BY DEF PutInv, StoreType, NoTornObject, Object
  <1>2. QED
    BY <1>1, PutInvAlways, PTL

(***************************************************************************)
(* Live temporary names are distinct: whatever calls are in progress, in   *)
(* one process or in several, temp_path gives no two of them one name.     *)
(***************************************************************************)
THEOREM TempNamesAreDistinct ==
    Spec => []LiveTempNamesDistinct
  <1>1. PutInv => LiveTempNamesDistinct
    BY DEF PutInv, TempsDistinct, LiveTempNamesDistinct, OwnsTemp, At
  <1>2. QED
    BY <1>1, PutInvAlways, PTL

-----------------------------------------------------------------------------
(* The contract of ObjectStore, step by step *)

Objects == [k \in Keys |-> AbstractObject(files[k])]
Calls == [c \in Clients |-> AbstractCall(op[c])]

(* The call of the contract with the arguments of o. *)
MappedCall(o, outcome) == [key |-> o.key, bytes |-> o.bytes, outcome |-> outcome]

(* A call that moves on keeps its arguments, and its outcome is mapped. *)
LEMMA CallMapped ==
    ASSUME PutInv, NEW c \in Clients, op[c] # NoCall, NEW pc \in PutPc, GoTo(c, pc)
    PROVE  /\ Calls[c] = MappedCall(op[c], Outcome(op[c].pc))
           /\ Calls[c] # NoCall
           /\ Calls' = [Calls EXCEPT ![c] = MappedCall(op[c], Outcome(pc))]
  <1> DEFINE o == [op[c] EXCEPT !.pc = pc]
  <1>1. op[c] \in PutCall /\ op \in [Clients -> PutCall \cup {NoCall}]
    BY DEF PutInv, StoreType
  <1>2. Outcome(op[c].pc) \in {"pending", "created", "already_present", "conflict", "error"}
    BY <1>1 DEF Outcome
  <1>3. MappedCall(op[c], Outcome(op[c].pc)) # NoCall
    BY <1>1, <1>2, StoreAssumption DEF PutCall, MappedCall
  <1>4. /\ o # NoCall /\ o.key = op[c].key /\ o.bytes = op[c].bytes /\ o.pc = pc
    BY <1>1, Constants DEF PutCall
  <1>5. op' = [op EXCEPT ![c] = o]
    BY DEF GoTo
  <1> HIDE DEF o
  <1>6. Calls[c] = MappedCall(op[c], Outcome(op[c].pc))
    BY DEF Calls, AbstractCall, MappedCall
  <1>7. \A d \in Clients : Calls'[d] =
            IF d = c THEN MappedCall(op[c], Outcome(pc)) ELSE Calls[d]
    BY <1>1, <1>4, <1>5 DEF Calls, AbstractCall, MappedCall
  <1>8. Calls' = [Calls EXCEPT ![c] = MappedCall(op[c], Outcome(pc))]
    BY <1>7 DEF Calls
  <1>9. QED
    BY <1>3, <1>6, <1>8

(* A step of a call that the contract does not see. *)
LEMMA CallHidden ==
    ASSUME PutInv, NEW c \in Clients, op[c] # NoCall, NEW pc \in PutPc, GoTo(c, pc),
           Outcome(pc) = Outcome(op[c].pc)
    PROVE  Calls' = Calls
  <1>1. Calls' = [Calls EXCEPT ![c] = Calls[c]]
    BY CallMapped
  <1>2. QED
    BY <1>1 DEF Calls

(* A call that gets its outcome, as the contract has it. *)
LEMMA CallResolved ==
    ASSUME PutInv, NEW c \in Clients, op[c] # NoCall, NEW pc \in PutPc, GoTo(c, pc)
    PROVE  Contract!Resolve(c, Outcome(pc))
  <1>1. /\ Calls[c] = MappedCall(op[c], Outcome(op[c].pc))
        /\ Calls' = [Calls EXCEPT ![c] = MappedCall(op[c], Outcome(pc))]
    BY CallMapped
  <1>2. [MappedCall(op[c], Outcome(op[c].pc)) EXCEPT !.outcome = Outcome(pc)]
            = MappedCall(op[c], Outcome(pc))
    BY DEF MappedCall
  <1>3. Calls' = [Calls EXCEPT ![c] = [Calls[c] EXCEPT !.outcome = Outcome(pc)]]
    BY <1>1, <1>2
  <1>4. QED
    BY <1>3 DEF Contract!Resolve, Calls

(* A call that ends with an error fails in the contract. *)
LEMMA CallFails ==
    ASSUME PutInv, NEW c \in Clients, op[c] # NoCall, GoTo(c, "error"),
           Outcome(op[c].pc) \in {"pending", "created"}, UNCHANGED files
    PROVE  Contract!Fail(c)
  <1>1. Outcome("error") = "error" /\ "error" \in PutPc
    BY DEF Outcome, PutPc
  <1>2. /\ Calls[c] # NoCall
        /\ Calls[c].outcome \in {"pending", "created"}
    <2>1. Calls[c] # NoCall /\ Calls[c] = MappedCall(op[c], Outcome(op[c].pc))
      BY <1>1, CallMapped
    <2>2. QED
      BY <2>1 DEF MappedCall
  <1>3. Contract!Resolve(c, "error")
    BY <1>1, CallResolved
  <1>4. Objects' = Objects
    BY DEF Objects
  <1>5. QED
    BY <1>2, <1>3, <1>4 DEF Contract!Fail, Objects, Calls

(* What the object of a file is. *)
LEMMA ObjectMapped ==
    ASSUME PutInv, NEW k \in Keys
    PROVE  /\ (Objects[k] = Absent) <=> (files[k] = Absent)
           /\ files[k] # Absent => Objects[k] = files[k].data /\ files[k].data \in Bytes
  <1>1. files[k] # Absent => files[k].data \in Bytes
    BY DEF PutInv, StoreType, Object
  <1>2. QED
    BY <1>1, Constants DEF Objects, AbstractObject

(* The steps of put_if_absent: the object appears at the hard link. *)
LEMMA CallStepMaps ==
    ASSUME PutInv, NEW c \in DOMAIN Pid, CallStep(c)
    PROVE  \/ Contract!Create(c) \/ Contract!Compare(c) \/ Contract!Fail(c)
           \/ Contract!End(c)
           \/ Objects' = Objects /\ Calls' = Calls
  <1>0. c \in Clients
    BY Constants DEF PutInv, StoreType, Pid
  <1>1. op[c] # NoCall
    BY DEF CallStep, CreateTemp, WriteTemp, SyncTemp, LinkTemp, LinkFails, UnlinkTemp,
           CompareExisting, IoError, Return, Finished, At
  <1>2. op[c] \in PutCall /\ CallOK(c, op[c], temps, nextTempId)
    BY <1>0, <1>1 DEF PutInv, StoreType
  <1>3. op[c].key \in Keys /\ op[c].bytes \in Bytes
    BY <1>2 DEF PutCall
  <1>4. UNCHANGED files => Objects' = Objects
    BY DEF Objects
  <1>5. Calls[c] = MappedCall(op[c], Outcome(op[c].pc)) /\ Calls[c] # NoCall
    <2>1. Outcome(op[c].pc) \in {"pending", "created", "already_present", "conflict", "error"}
      BY <1>2 DEF Outcome
    <2>2. MappedCall(op[c], Outcome(op[c].pc)) # NoCall
      BY <1>3, <2>1, StoreAssumption DEF MappedCall
    <2>3. QED
      BY <1>0, <1>1, <2>2 DEF Calls, AbstractCall, MappedCall
  <1>6. /\ Calls[c].key = op[c].key /\ Calls[c].bytes = op[c].bytes
        /\ Calls[c].outcome = Outcome(op[c].pc)
    BY <1>5 DEF MappedCall
  <1>7. CASE CreateTemp(c)
    <2>1. CASE GoTo(c, "write")
      BY <1>0, <1>1, <1>4, <1>7, <2>1, CallHidden DEF CreateTemp, At, Outcome, PutPc
    <2>2. CASE GoTo(c, "error")
      BY <1>0, <1>1, <1>7, <2>2, CallFails DEF CreateTemp, At, Outcome
    <2>3. QED
      BY <1>7, <2>1, <2>2 DEF CreateTemp
  <1>8. CASE WriteTemp(c)
    BY <1>0, <1>1, <1>4, <1>8, CallHidden DEF WriteTemp, At, Outcome, PutPc
  <1>9. CASE SyncTemp(c)
    BY <1>0, <1>1, <1>4, <1>9, CallHidden DEF SyncTemp, At, Outcome, PutPc
  <1>10. CASE LinkTemp(c)
    <2>1. CASE files[op[c].key] = Absent
      <3>1. op[c].pc = "link" /\ Outcome(op[c].pc) = "pending"
        BY <1>10 DEF LinkTemp, At, Outcome
      <3>2. GoTo(c, "unlink_created") /\ Outcome("unlink_created") = "created"
        BY <1>10, <2>1 DEF LinkTemp, Outcome
      <3>3. Contract!Resolve(c, "created")
        BY <1>0, <1>1, <3>2, CallResolved DEF PutPc
      <3>4. temps[op[c].temp] \in File /\ temps[op[c].temp].data = op[c].bytes
        BY <1>1, <1>2, <3>1 DEF CallOK
      <3>5. AbstractObject(temps[op[c].temp]) = op[c].bytes
        BY <3>4, Constants DEF AbstractObject
      <3>6. files' = [files EXCEPT ![op[c].key] = temps[op[c].temp]]
        BY <1>10, <2>1 DEF LinkTemp
      <3>7. Objects' = [Objects EXCEPT ![op[c].key] = op[c].bytes]
        BY <1>3, <3>5, <3>6 DEF Objects, PutInv, StoreType
      <3>8. Objects[op[c].key] = Absent
        BY <1>3, <2>1, ObjectMapped
      <3>9. Contract!Create(c)
        BY <1>5, <1>6, <3>1, <3>3, <3>7, <3>8 DEF Contract!Create, Objects, Calls
      <3>10. QED
        BY <3>9
    <2>2. CASE files[op[c].key] # Absent
      BY <1>0, <1>1, <1>4, <1>10, <2>2, CallHidden DEF LinkTemp, At, Outcome, PutPc
    <2>3. QED
      BY <2>1, <2>2
  <1>11. CASE LinkFails(c)
    BY <1>0, <1>1, <1>4, <1>11, CallHidden DEF LinkFails, At, Outcome, PutPc
  <1>12. CASE UnlinkTemp(c)
    <2>1. CASE At(c, "unlink_created") /\ GoTo(c, "created")
      BY <1>0, <1>1, <1>4, <1>12, <2>1, CallHidden DEF UnlinkTemp, At, Outcome, PutPc
    <2>2. CASE At(c, "unlink_exists") /\ GoTo(c, "compare")
      BY <1>0, <1>1, <1>4, <1>12, <2>2, CallHidden DEF UnlinkTemp, At, Outcome, PutPc
    <2>3. CASE At(c, "unlink_failed") /\ GoTo(c, "error")
      BY <1>0, <1>1, <1>12, <2>3, CallFails DEF UnlinkTemp, At, Outcome
    <2>4. QED
      BY <1>12, <2>1, <2>2, <2>3 DEF UnlinkTemp
  <1>13. CASE CompareExisting(c)
    <2>1. op[c].pc = "compare" /\ Outcome(op[c].pc) = "pending" /\ UNCHANGED files
      BY <1>13 DEF CompareExisting, At, Outcome
    <2>2. CASE files[op[c].key] = Absent
      BY <1>0, <1>1, <1>13, <2>1, <2>2, CallFails DEF CompareExisting
    <2>3. CASE files[op[c].key] # Absent
      <3> DEFINE pc == IF files[op[c].key].data = op[c].bytes
                       THEN "already_present" ELSE "conflict"
      <3>1. GoTo(c, pc) /\ pc \in PutPc /\ Outcome(pc) = pc
        BY <1>13, <2>3 DEF CompareExisting, PutPc, Outcome
      <3>2. Contract!Resolve(c, pc)
        <4> HIDE DEF pc
        <4>1. Contract!Resolve(c, Outcome(pc))
          BY <1>0, <1>1, <3>1, CallResolved
        <4>2. QED
          BY <3>1, <4>1
      <3>3. Objects[op[c].key] = files[op[c].key].data /\ Objects[op[c].key] # Absent
        BY <1>3, <2>3, ObjectMapped
      <3>4. Contract!Compare(c)
        BY <1>4, <1>5, <1>6, <2>1, <3>2, <3>3 DEF Contract!Compare, Objects, Calls
      <3>5. QED
        BY <3>4
    <2>4. QED
      BY <2>2, <2>3
  <1>14. CASE IoError(c)
    <2>1. Outcome(op[c].pc) \in {"pending", "created"}
      BY <1>14 DEF IoError, At, Outcome
    <2>2. QED
      BY <1>0, <1>1, <1>14, <2>1, CallFails DEF IoError
  <1>15. CASE Return(c)
    <2>1. Outcome(op[c].pc) # "pending"
      BY <1>15 DEF Return, Finished, At, Outcome
    <2>2. Calls' = [Calls EXCEPT ![c] = NoCall]
      BY <1>0, <1>15 DEF Return, Calls, AbstractCall, PutInv, StoreType
    <2>3. UNCHANGED files
      BY <1>15 DEF Return
    <2>4. Contract!End(c)
      BY <1>4, <1>5, <1>6, <2>1, <2>2, <2>3 DEF Contract!End, Objects, Calls
    <2>5. QED
      BY <2>4
  <1>16. QED
    BY <1>7, <1>8, <1>9, <1>10, <1>11, <1>12, <1>13, <1>14, <1>15 DEF CallStep

(* A new call begins in the contract. *)
LEMMA PutBeginMaps ==
    ASSUME PutInv, NEW c \in DOMAIN Pid, NEW k \in Keys, NEW b \in Bytes, PutBegin(c, k, b)
    PROVE  Contract!Begin(c, k, b)
  <1> DEFINE o == [pc |-> "create", key |-> k, bytes |-> b,
                   temp |-> [pid |-> Pid[c], key |-> k, id |-> nextTempId[Pid[c]]]]
  <1>1. c \in Clients /\ Pid[c] \in Pids /\ nextTempId[Pid[c]] \in Nat
    BY Constants DEF PutInv, StoreType, Pid
  <1>2. o \in PutCall /\ o.key = k /\ o.bytes = b /\ o.pc = "create"
    BY <1>1, TempPathType DEF PutCall, PutPc, PutBegin
  <1>3. op' = [op EXCEPT ![c] = o] /\ op[c] = NoCall /\ UNCHANGED files
    BY DEF PutBegin
  <1> HIDE DEF o
  <1>4. AbstractCall(o) = [key |-> k, bytes |-> b, outcome |-> "pending"]
    BY <1>2, Constants DEF AbstractCall, Outcome
  <1>5. Calls' = [Calls EXCEPT ![c] = [key |-> k, bytes |-> b, outcome |-> "pending"]]
    BY <1>1, <1>3, <1>4 DEF Calls, PutInv, StoreType
  <1>6. Calls[c] = NoCall /\ Objects' = Objects
    BY <1>1, <1>3 DEF Calls, Objects, AbstractCall
  <1>7. QED
    BY <1>5, <1>6 DEF Contract!Begin, Calls, Objects

(* delete. *)
LEMMA DeleteMaps ==
    ASSUME PutInv, NEW k \in Keys, DeleteObject(k)
    PROVE  Contract!Delete(k)
  <1>1. Objects' = [Objects EXCEPT ![k] = Absent]
    BY DEF Objects, AbstractObject, DeleteObject, PutInv, StoreType
  <1>2. Calls' = Calls
    BY DEF Calls, DeleteObject
  <1>3. QED
    BY <1>1, <1>2 DEF Contract!Delete, Calls, Objects

(* A process that dies abandons its calls. *)
LEMMA CrashMaps ==
    ASSUME PutInv, NEW p \in Pids, CrashProcess(p)
    PROVE  \E S \in SUBSET Clients : Contract!Abandon(S)
  <1> DEFINE S == {c \in Clients : c \in DOMAIN Pid /\ Pid[c] = p}
  <1>1. Calls' = [c \in Clients |-> IF c \in S THEN NoCall ELSE Calls[c]]
    BY DEF Calls, AbstractCall, CrashProcess
  <1>2. Objects' = Objects
    BY DEF Objects, CrashProcess
  <1>3. Contract!Abandon(S)
    BY <1>1, <1>2 DEF Contract!Abandon, Calls, Objects
  <1>4. QED
    BY <1>3

(* Power loss loses objects, and changes none. *)
LEMMA PowerLossMaps ==
    ASSUME PutInv, NEW lost \in SUBSET Keys, PowerLoss(lost)
    PROVE  Contract!Lose(lost)
  <1>1. Objects' = [k \in Keys |-> IF k \in lost THEN Absent ELSE Objects[k]]
    BY RemainsWhole DEF Objects, AbstractObject, PowerLoss, PutInv, StoreType
  <1>2. Calls' = [c \in Clients |-> NoCall]
    BY DEF Calls, AbstractCall, PowerLoss
  <1>3. QED
    BY <1>1, <1>2 DEF Contract!Lose, Calls, Objects

(***************************************************************************)
(* The local backend implements the contract of the ObjectStore trait: an  *)
(* object appears once, whole, and is never replaced, and every answer of  *)
(* put_if_absent but an error is true of the store at one instant of the   *)
(* call, whatever tasks, processes and the machine do.                     *)
(***************************************************************************)
THEOREM LocalStoreImplementsContract ==
    Spec => ImplementsContract
  <1>1. Init => Contract!Init
    BY DEF Init, Contract!Init, AbstractObject, AbstractCall
  <1>2. PutInv /\ [Next]_vars => [Contract!Next]_(Contract!vars)
    <2> SUFFICES ASSUME PutInv, [Next]_vars
                 PROVE  Contract!Next \/ (Objects' = Objects /\ Calls' = Calls)
      BY DEF Contract!vars, Objects, Calls
    <2>1. ASSUME UNCHANGED <<files, op>>
          PROVE  Objects' = Objects /\ Calls' = Calls
      BY <2>1 DEF Objects, Calls
    <2>2. CASE UNCHANGED vars
      BY <2>1, <2>2 DEF vars
    <2>3. CASE ListStep
      BY <2>1, <2>3 DEF ListStep
    <2>4. CASE StoreStep
      <3>1. setup.keys \subseteq Keys /\ DOMAIN Pid \subseteq Clients
        BY Constants DEF PutInv, StoreType, Pid
      <3>2. ASSUME NEW k \in setup.keys, FlushEntry(k)
            PROVE  Objects' = Objects /\ Calls' = Calls
        BY <2>1, <3>2 DEF FlushEntry
      <3>3. ASSUME NEW c \in DOMAIN Pid, CallStep(c)
            PROVE  Contract!Next \/ (Objects' = Objects /\ Calls' = Calls)
        BY <3>1, <3>3, CallStepMaps DEF Contract!Next
      <3>4. ASSUME NEW c \in DOMAIN Pid, NEW k \in Keys, NEW b \in Bytes, PutBegin(c, k, b)
            PROVE  Contract!Next
        BY <3>1, <3>4, PutBeginMaps DEF Contract!Next
      <3>5. ASSUME NEW k \in setup.keys, DeleteObject(k) PROVE Contract!Next
        BY <3>1, <3>5, DeleteMaps DEF Contract!Next
      <3>6. ASSUME NEW p \in Pids, CrashProcess(p) PROVE Contract!Next
        BY <3>6, CrashMaps DEF Contract!Next
      <3>7. ASSUME NEW lost \in SUBSET Keys, PowerLoss(lost) PROVE Contract!Next
        BY <3>7, PowerLossMaps DEF Contract!Next
      <3>8. QED
        BY <2>4, <3>2, <3>3, <3>4, <3>5, <3>6, <3>7 DEF StoreStep
    <2>5. QED
      BY <2>2, <2>3, <2>4 DEF Next
  <1>3. QED
    BY <1>1, <1>2, PutInvAlways, PTL DEF Spec, ImplementsContract, Contract!Spec

-----------------------------------------------------------------------------
(* list_prefix: the inductive invariant *)

(* The directories on the way to object k, and the next step to it from d. *)
Above(k) == {d \in Prefixes(k) : d # k}
Child(d, k) == SubSeq(k, 1, Len(d) + 1)

There == {k \in Keys : files[k] # Absent}

(* Every object has its directories, and so has every object to come. *)
DirsOK ==
    /\ dirs \cap Keys = {}
    /\ \A k \in There : Above(k) \subseteq dirs
    /\ \A c \in Clients : op[c] # NoCall => Above(op[c].key) \subseteq dirs

Listing(D) ==
    [pc : {"idle", "open", "read", "filter", "done", "failed"},
     prefix : Seq(STRING), todo : SUBSET D, dir : D \cup {<<>>},
     base : SUBSET (Keys \cup D \cup {TempFile}),
     out : SUBSET (Keys \cup {TempFile})]

ListType ==
    /\ listing \in Listing(dirs)
    /\ seen \in [through : SUBSET Keys, ever : SUBSET Keys]

(* The listing l has object k, or will come to it. *)
Reaches(l, k) ==
    \/ k \in l.out
    \/ \E d \in l.todo : d \in Above(k)
    \/ l.pc = "read" /\ l.dir \in Above(k) /\ Child(l.dir, k) \in l.base

Listed(l, s) ==
    /\ l.pc \in {"open", "read", "filter"} =>
          /\ s.through \subseteq There
          /\ \A k \in s.through : IsPrefix(l.prefix, k) => Reaches(l, k)
          /\ l.out \subseteq s.ever \cup {TempFile}
          /\ l.base \subseteq s.ever \cup dirs \cup {TempFile}
    /\ l.pc = "filter" => l.todo = {}
    /\ l.pc = "done" =>
          /\ {k \in s.through : IsPrefix(l.prefix, k)} \subseteq l.out
          /\ l.out \subseteq {k \in s.ever : IsPrefix(l.prefix, k)}

ListInv == DirsOK /\ ListType /\ Listed(listing, seen)

-----------------------------------------------------------------------------
(* Lemmas about paths *)

(* From a directory above an object the next step leads to another, or to
   the object. *)
LEMMA AboveChild ==
    ASSUME NEW k \in Keys, NEW d \in Above(k)
    PROVE  /\ d \notin Keys
           /\ Child(d, k) \in Above(k) \cup {k}
           /\ Child(d, k) # <<>>
           /\ Front(Child(d, k)) = d
  <1>1. k \in Seq(STRING)
    BY StoreAssumption
  <1>2. PICK n \in 0..Len(k) : d = SubSeq(k, 1, n)
    BY DEF Above, Prefixes
  <1>3. n < Len(k) /\ Len(d) = n /\ d \in Seq(STRING)
    BY <1>1, <1>2 DEF Above
  <1>4. IsPrefix(d, k) /\ d # k
    BY <1>1, <1>2, <1>3 DEF IsPrefix, Above
  <1>5. d \notin Keys
    BY <1>4, StoreAssumption
  <1>6. Child(d, k) \in Prefixes(k) /\ Len(Child(d, k)) = n + 1
    BY <1>1, <1>3 DEF Child, Prefixes
  <1>7. Front(Child(d, k)) = d
    BY <1>1, <1>2, <1>3, <1>6 DEF Child, Front
  <1>8. QED
    BY <1>5, <1>6, <1>7 DEF Above

(* A prefix of an object's key is its key or a directory above it. *)
LEMMA PrefixAbove ==
    ASSUME NEW k \in Keys, NEW p \in Seq(STRING), IsPrefix(p, k)
    PROVE  p = k \/ p \in Above(k)
  <1>1. k \in Seq(STRING)
    BY StoreAssumption
  <1>2. p = SubSeq(k, 1, Len(p)) /\ Len(p) \in 0..Len(k)
    BY <1>1 DEF IsPrefix
  <1>3. QED
    BY <1>2 DEF Above, Prefixes

(* The temporary directory and the root are no objects. *)
LEMMA TempDirNoKey ==
    /\ <<>> \notin Keys /\ TempDir \notin Keys /\ TempFile \notin Keys
    /\ TempFile[1] = TempDir[1]
    /\ \A k \in Keys : k[1] # TempDir[1]
  <1>1. TempDir[1] = ".fileferry-tmp" /\ TempFile[1] = ".fileferry-tmp"
    BY DEF TempDir, TempFile
  <1>2. QED
    BY <1>1, StoreAssumption

-----------------------------------------------------------------------------
(* Steps of the store while a listing goes on *)

(* Every step leaves each object its directories. *)
LEMMA StoreKeepsDirs ==
    ASSUME PutInv, DirsOK, StoreStep
    PROVE  DirsOK' /\ dirs \subseteq dirs'
  <1>1. ASSUME UNCHANGED dirs, There' \subseteq There,
               \A c \in Clients : op'[c] # NoCall =>
                   op[c] # NoCall /\ op'[c].key = op[c].key
        PROVE  DirsOK' /\ dirs \subseteq dirs'
    BY <1>1 DEF DirsOK
  <1>2. ASSUME NEW c \in DOMAIN Pid, NEW k \in Keys, NEW b \in Bytes, PutBegin(c, k, b)
        PROVE  DirsOK' /\ dirs \subseteq dirs'
    <2>1. c \in Clients /\ op \in [Clients -> PutCall \cup {NoCall}]
      BY Constants DEF PutInv, StoreType, Pid
    <2>2. dirs' = dirs \cup {<<>>, TempDir} \cup Above(k) /\ There' = There
      BY <1>2 DEF PutBegin, Above, There
    <2>3. \A d \in Clients : op'[d] # NoCall =>
              \/ op'[d] = op[d]
              \/ op'[d].key = k
      BY <1>2, <2>1 DEF PutBegin
    <2>4. Above(k) \cap Keys = {}
      BY AboveChild
    <2>5. QED
      BY <2>2, <2>3, <2>4, TempDirNoKey DEF DirsOK
  <1>3. ASSUME NEW c \in DOMAIN Pid, CallStep(c), UNCHANGED dirs
        PROVE  DirsOK' /\ dirs \subseteq dirs'
    <2>1. c \in Clients /\ op \in [Clients -> PutCall \cup {NoCall}]
      BY Constants DEF PutInv, StoreType, Pid
    <2>2. op[c] # NoCall
      BY <1>3 DEF CallStep, CreateTemp, WriteTemp, SyncTemp, LinkTemp, LinkFails,
                  UnlinkTemp, CompareExisting, IoError, Return, Finished, At
    <2>3. op[c] \in PutCall /\ op[c].key \in Keys
      BY <2>1, <2>2 DEF PutCall
    <2>4. (\E pc : GoTo(c, pc)) \/ op' = [op EXCEPT ![c] = NoCall]
      BY <1>3 DEF CallStep, CreateTemp, WriteTemp, SyncTemp, LinkTemp, LinkFails,
                  UnlinkTemp, CompareExisting, IoError, Return
    <2>5. \A d \in Clients : op'[d] # NoCall =>
              op[d] # NoCall /\ op'[d].key = op[d].key
      <3>1. CASE op' = [op EXCEPT ![c] = NoCall]
        BY <2>1, <3>1
      <3>2. ASSUME NEW pc, GoTo(c, pc)
            PROVE  \A d \in Clients : op'[d] # NoCall =>
                       op[d] # NoCall /\ op'[d].key = op[d].key
        <4>1. op' = [op EXCEPT ![c] = [op[c] EXCEPT !.pc = pc]]
          BY <3>2 DEF GoTo
        <4>2. [op[c] EXCEPT !.pc = pc].key = op[c].key
          BY <2>3 DEF PutCall
        <4>3. QED
          BY <2>1, <2>2, <4>1, <4>2
      <3>3. QED
        BY <2>4, <3>1, <3>2
    <2>6. There' \subseteq There \cup {op[c].key}
      BY <1>3, <2>3 DEF CallStep, CreateTemp, WriteTemp, SyncTemp, LinkTemp, LinkFails,
                  UnlinkTemp, CompareExisting, IoError, Return, There, PutInv, StoreType
    <2>7. QED
      BY <1>3, <2>1, <2>2, <2>5, <2>6 DEF DirsOK
  <1>4. ASSUME NEW k \in setup.keys, DeleteObject(k) \/ FlushEntry(k), UNCHANGED dirs
        PROVE  DirsOK' /\ dirs \subseteq dirs'
    <2>1. There' \subseteq There /\ UNCHANGED op
      BY <1>4, Constants DEF DeleteObject, FlushEntry, There, PutInv, StoreType
    <2>2. QED
      BY <1>1, <1>4, <2>1
  <1>5. ASSUME NEW p \in Pids, CrashProcess(p), UNCHANGED dirs
        PROVE  DirsOK' /\ dirs \subseteq dirs'
    <2>1. There' = There /\ \A c \in Clients : op'[c] # NoCall => op'[c] = op[c]
      BY <1>5 DEF CrashProcess, There
    <2>2. QED
      BY <1>1, <1>5, <2>1
  <1>6. ASSUME NEW lost \in SUBSET Keys, PowerLoss(lost), UNCHANGED dirs
        PROVE  DirsOK' /\ dirs \subseteq dirs'
    <2>1. There' \subseteq There /\ \A c \in Clients : op'[c] = NoCall
      BY <1>6, RemainsWhole DEF PowerLoss, There, PutInv, StoreType
    <2>2. QED
      BY <1>1, <1>6, <2>1
  <1>7. QED
    BY <1>2, <1>3, <1>4, <1>5, <1>6 DEF StoreStep

(* What Observe makes of a listing that goes on, and of one that rests. *)
LEMMA ObserveEffect ==
    ASSUME Observe, ListType
    PROVE  /\ listing.pc \in {"open", "read", "filter"}
                  /\ listing'.pc \in {"open", "read", "filter", "done"} =>
                 seen' = [through |-> seen.through \cap There', ever |-> seen.ever \cup There']
           /\ listing.pc = "idle" /\ listing'.pc \in {"open", "filter"} =>
                 seen' = [through |-> There', ever |-> There']
           /\ (\/ listing.pc = "idle" /\ listing'.pc = "idle"
               \/ listing.pc \in {"open", "read", "failed"} /\ listing'.pc = "failed") =>
                 seen' = [through |-> {}, ever |-> {}]
           /\ listing.pc = "done" /\ listing'.pc = "done" => seen' = seen
  <1>1. There' = {k \in Keys : files'[k] # Absent}
    BY DEF There
  <1>2. CASE \/ listing.pc = "idle" /\ listing'.pc = "idle"
             \/ listing.pc \in {"open", "read", "failed"} /\ listing'.pc = "failed"
    BY <1>2 DEF Observe
  <1>3. CASE listing.pc = "idle" /\ listing'.pc \in {"open", "filter"}
    BY <1>1, <1>3 DEF Observe
  <1>4. CASE listing.pc = "done" /\ listing'.pc = "done"
    BY <1>4 DEF Observe
  <1>5. CASE /\ listing.pc \in {"open", "read", "filter"}
             /\ listing'.pc \in {"open", "read", "filter", "done"}
    BY <1>1, <1>5 DEF Observe
  <1>6. QED
    BY <1>2, <1>3, <1>4, <1>5

(* The listing that has failed. *)
LEMMA FailedListing ==
    ASSUME NEW D
    PROVE  /\ [NoListing EXCEPT !.pc = "failed"] \in Listing(D)
           /\ [NoListing EXCEPT !.pc = "failed"].pc = "failed"
  <1>1. NoListing \in Listing(D)
    BY DEF NoListing, Listing
  <1>2. QED
    BY <1>1 DEF Listing

(* A listing in progress keeps its way to every object that stays. *)
LEMMA StoreKeepsListing ==
    ASSUME PutInv, ListInv, StoreStep, Observe
    PROVE  ListInv'
  <1>1. DirsOK' /\ dirs \subseteq dirs'
    BY StoreKeepsDirs DEF ListInv
  <1> DEFINE Gone == {k \in Keys : files[k] # Absent /\ files'[k] = Absent}
  <1>2. \/ listing' = listing
        \/ listing.pc = "read" /\ \E gone \in SUBSET Gone :
               listing' = [listing EXCEPT !.base = @ \ gone]
        \/ listing.pc \in {"open", "read"} /\ listing' = [NoListing EXCEPT !.pc = "failed"]
    BY DEF StoreStep, Missed, Reading
  <1>3. CASE listing.pc \in {"open", "read"} /\ listing' = [NoListing EXCEPT !.pc = "failed"]
    <2>1. listing'.pc = "failed" /\ listing' \in Listing(dirs')
      BY <1>3, FailedListing
    <2>2. seen' = [through |-> {}, ever |-> {}]
      BY <1>3, <2>1, ObserveEffect DEF ListInv
    <2>3. QED
      BY <1>1, <2>1, <2>2 DEF ListInv, ListType, Listed
  <1>4. ASSUME NEW gone \in SUBSET Gone,
               listing.pc = "read" \/ gone = {},
               listing' \in Listing(dirs'),
               listing'.pc = listing.pc, listing'.prefix = listing.prefix,
               listing'.todo = listing.todo, listing'.dir = listing.dir,
               listing'.base = listing.base \ gone, listing'.out = listing.out
        PROVE  ListInv'
    <2>1. CASE listing.pc \in {"open", "read", "filter"}
      <3>1. /\ seen' = [through |-> seen.through \cap There', ever |-> seen.ever \cup There']
            /\ seen'.through = seen.through \cap There' /\ seen'.ever = seen.ever \cup There'
            /\ seen' \in [through : SUBSET Keys, ever : SUBSET Keys]
        <4>1. seen' = [through |-> seen.through \cap There', ever |-> seen.ever \cup There']
          BY <1>4, <2>1, ObserveEffect DEF ListInv
        <4>2. QED
          BY <4>1 DEF ListInv, ListType, There
      <3>2. ASSUME NEW k \in seen'.through, IsPrefix(listing'.prefix, k)
            PROVE  Reaches(listing', k)
        <4>1. k \in Keys /\ k \in There' /\ Reaches(listing, k)
          BY <1>4, <2>1, <3>1, <3>2 DEF ListInv, Listed, There
        <4>2. CASE listing.pc = "read" /\ listing.dir \in Above(k)
                      /\ Child(listing.dir, k) \in listing.base
          <5>1. Child(listing.dir, k) \notin gone
            BY <4>1, <4>2, AboveChild DEF There
          <5>2. QED
            BY <1>4, <4>2, <5>1 DEF Reaches
        <4>3. QED
          BY <1>4, <4>1, <4>2 DEF Reaches
      <3>3. Listed(listing, seen)'
        BY <1>1, <1>4, <2>1, <3>1, <3>2 DEF ListInv, Listed
      <3>4. QED
        BY <1>1, <1>4, <3>1, <3>3 DEF ListInv, ListType
    <2>2. CASE listing.pc \in {"idle", "failed"}
      <3>1. seen' = [through |-> {}, ever |-> {}]
        BY <1>4, <2>2, ObserveEffect DEF ListInv
      <3>2. QED
        BY <1>1, <1>4, <2>2, <3>1 DEF ListInv, ListType, Listed
    <2>3. CASE listing.pc = "done"
      <3>1. seen' = seen
        BY <1>4, <2>3, ObserveEffect DEF ListInv
      <3>2. QED
        BY <1>1, <1>4, <2>3, <3>1 DEF ListInv, ListType, Listed
    <2>4. QED
      BY <2>1, <2>2, <2>3 DEF ListInv, ListType, Listing
  <1>5. CASE listing' = listing
    <2>1. listing' \in Listing(dirs')
      BY <1>1, <1>5 DEF ListInv, ListType, Listing
    <2>2. listing.base = listing.base \ {} /\ {} \in SUBSET Gone
      OBVIOUS
    <2>3. QED
      BY <1>4, <1>5, <2>1, <2>2
  <1>6. ASSUME NEW gone \in SUBSET Gone, listing.pc = "read",
               listing' = [listing EXCEPT !.base = @ \ gone]
        PROVE  ListInv'
    <2>1. /\ listing' \in Listing(dirs')
          /\ listing'.pc = listing.pc /\ listing'.prefix = listing.prefix
          /\ listing'.todo = listing.todo /\ listing'.dir = listing.dir
          /\ listing'.base = listing.base \ gone /\ listing'.out = listing.out
      BY <1>1, <1>6 DEF ListInv, ListType, Listing
    <2>2. QED
      BY <1>4, <1>6, <2>1
  <1>7. QED
    BY <1>2, <1>3, <1>5, <1>6

-----------------------------------------------------------------------------
(* Steps of the listing *)

(* What the listing's steps have in common: the store stands still. *)
LEMMA ListingMoves ==
    ASSUME ListInv, UNCHANGED <<files, op, dirs>>,
           listing' \in Listing(dirs),
           seen' \in [through : SUBSET Keys, ever : SUBSET Keys],
           Listed(listing', seen')
    PROVE  ListInv'
  <1>1. DirsOK' /\ There' = There
    BY DEF ListInv, DirsOK, There
  <1>2. QED
    BY <1>1 DEF ListInv, ListType, Listed

(* The objects seen by a step that goes on with the listing. *)
LEMMA SeenGoesOn ==
    ASSUME ListInv, Observe, UNCHANGED files,
           listing.pc \in {"open", "read", "filter"},
           listing'.pc \in {"open", "read", "filter", "done"}
    PROVE  /\ seen' \in [through : SUBSET Keys, ever : SUBSET Keys]
           /\ seen'.through = seen.through
           /\ seen'.ever = seen.ever \cup There
  <1>1. There' = There
    BY DEF There
  <1>2. seen' = [through |-> seen.through \cap There, ever |-> seen.ever \cup There]
    BY <1>1, ObserveEffect DEF ListInv
  <1>3. seen.through \subseteq There /\ There \subseteq Keys
    BY DEF ListInv, Listed, There
  <1>4. QED
    BY <1>2, <1>3 DEF ListInv, ListType

(* metadata of the prefix. *)
LEMMA ListBeginKeeps ==
    ASSUME PutInv, ListInv, Observe, UNCHANGED <<files, op, dirs>>,
           NEW prefix \in setup.lists, ListBegin(prefix)
    PROVE  ListInv'
  <1>1. prefix \in Seq(STRING)
    BY StoreAssumption DEF PutInv, StoreType
  <1>2. NoListing \in Listing(dirs)
    BY DEF NoListing, Listing
  <1>3. /\ listing' \in Listing(dirs)
        /\ listing'.pc = IF prefix \in dirs THEN "open" ELSE "filter"
        /\ listing'.prefix = prefix
        /\ listing'.todo = dirs \cap {prefix}
        /\ listing'.out = {k \in Keys \cap {prefix} : files[k] # Absent}
        /\ listing'.base = {}
    <2>1. NoListing.base = {}
      BY DEF NoListing
    <2>2. QED
      BY <1>1, <1>2, <2>1 DEF ListBegin, Listing
  <1>4. There' = There /\ There \subseteq Keys
    BY DEF There
  <1>5. seen' = [through |-> There, ever |-> There]
    BY <1>3, <1>4, ObserveEffect DEF ListBegin, ListInv
  <1>6. ASSUME NEW k \in There, IsPrefix(prefix, k) PROVE Reaches(listing', k)
    <2>1. CASE prefix = k
      BY <1>3, <1>4, <1>6, <2>1 DEF Reaches, There
    <2>2. CASE prefix \in Above(k)
      BY <1>3, <1>6, <2>2 DEF Reaches, ListInv, DirsOK
    <2>3. QED
      BY <1>1, <1>4, <1>6, <2>1, <2>2, PrefixAbove
  <1>7. Listed(listing', seen')
    BY <1>3, <1>5, <1>6 DEF Listed, There
  <1>8. QED
    BY <1>3, <1>4, <1>5, <1>7, ListingMoves

(* collect_files opens the next directory of its stack. *)
LEMMA OpenDirKeeps ==
    ASSUME ListInv, Observe, UNCHANGED <<files, op, dirs>>,
           NEW d \in listing.todo, OpenDir(d)
    PROVE  ListInv'
  <1>1. listing \in Listing(dirs) /\ listing.pc = "open" /\ d \in dirs
    BY DEF ListInv, ListType, Listing, OpenDir
  <1>2. Entries(d) \subseteq There \cup dirs \cup {TempFile} /\ There \subseteq Keys
    BY DEF Entries, There
  <1>3. /\ listing' \in Listing(dirs)
        /\ listing'.pc = "read" /\ listing'.prefix = listing.prefix
        /\ listing'.todo = listing.todo \ {d} /\ listing'.dir = d
        /\ listing'.base = Entries(d) /\ listing'.out = listing.out
    BY <1>1, <1>2 DEF OpenDir, Listing
  <1>4. /\ seen' \in [through : SUBSET Keys, ever : SUBSET Keys]
        /\ seen'.through = seen.through /\ seen'.ever = seen.ever \cup There
    BY <1>1, <1>3, SeenGoesOn
  <1>5. ASSUME NEW k \in seen.through, IsPrefix(listing.prefix, k)
        PROVE  Reaches(listing', k)
    <2>1. k \in Keys /\ k \in There /\ Reaches(listing, k)
      BY <1>1, <1>5 DEF ListInv, Listed, There
    <2>2. CASE d \in Above(k)
      <3>1. /\ Child(d, k) \in Above(k) \cup {k}
            /\ Child(d, k) # <<>> /\ Front(Child(d, k)) = d
        BY <2>1, <2>2, AboveChild
      <3>2. Above(k) \subseteq dirs
        BY <2>1 DEF ListInv, DirsOK
      <3>3. Child(d, k) \in Entries(d)
        BY <2>1, <3>1, <3>2 DEF Entries, There
      <3>4. QED
        BY <1>3, <2>2, <3>3 DEF Reaches
    <2>3. CASE d \notin Above(k)
      BY <1>1, <1>3, <2>1, <2>3 DEF Reaches
    <2>4. QED
      BY <2>2, <2>3
  <1>6. Listed(listing', seen')
    BY <1>1, <1>2, <1>3, <1>4, <1>5 DEF ListInv, Listed
  <1>7. QED
    BY <1>3, <1>4, <1>6, ListingMoves

(* collect_files has read a directory. *)
LEMMA ReadDirKeeps ==
    ASSUME ListInv, Observe, UNCHANGED <<files, op, dirs>>, ReadDir
    PROVE  ListInv'
  <1>1. listing \in Listing(dirs) /\ listing.pc = "read"
    BY DEF ListInv, ListType, ReadDir
  <1>2. Entries(listing.dir) \subseteq There \cup dirs \cup {TempFile} /\ There \subseteq Keys
    BY DEF Entries, There
  <1>3. PICK late \in SUBSET (Entries(listing.dir) \ listing.base) :
            LET found == listing.base \cup late
                todo == listing.todo \cup (found \cap dirs) IN
            listing' = [listing EXCEPT !.todo = todo, !.out = @ \cup (found \ dirs),
                                       !.pc = IF todo = {} THEN "filter" ELSE "open",
                                       !.dir = <<>>, !.base = {}]
    BY DEF ReadDir
  <1> DEFINE found == listing.base \cup late
             todo == listing.todo \cup (found \cap dirs)
  <1>4. found \subseteq Keys \cup dirs \cup {TempFile}
    BY <1>1, <1>2 DEF Listing
  <1>5. /\ listing' \in Listing(dirs)
        /\ listing'.pc = (IF todo = {} THEN "filter" ELSE "open")
        /\ listing'.prefix = listing.prefix
        /\ listing'.todo = todo /\ listing'.out = listing.out \cup (found \ dirs)
        /\ listing'.base = {}
    BY <1>1, <1>3, <1>4 DEF Listing
  <1>6. found \ dirs \subseteq seen.ever \cup There \cup {TempFile}
    BY <1>1, <1>2 DEF ListInv, Listed
  <1> HIDE DEF found, todo
  <1>7. /\ seen' \in [through : SUBSET Keys, ever : SUBSET Keys]
        /\ seen'.through = seen.through /\ seen'.ever = seen.ever \cup There
    BY <1>1, <1>5, SeenGoesOn
  <1>8. ASSUME NEW k \in seen.through, IsPrefix(listing.prefix, k)
        PROVE  Reaches(listing', k)
    <2>1. k \in Keys /\ k \in There /\ Reaches(listing, k)
      BY <1>1, <1>8 DEF ListInv, Listed, There
    <2>2. CASE k \in listing.out \/ \E d \in listing.todo : d \in Above(k)
      BY <1>5, <2>2 DEF Reaches, todo
    <2>3. CASE listing.dir \in Above(k) /\ Child(listing.dir, k) \in listing.base
      <3>1. Child(listing.dir, k) \in Above(k) \cup {k} /\ Child(listing.dir, k) \in found
        BY <2>1, <2>3, AboveChild DEF found
      <3>2. Above(k) \subseteq dirs /\ k \notin dirs
        BY <2>1 DEF ListInv, DirsOK
      <3>3. QED
        BY <1>5, <3>1, <3>2 DEF Reaches, todo
    <2>4. QED
      BY <2>1, <2>2, <2>3 DEF Reaches
  <1>9. Listed(listing', seen')
    BY <1>1, <1>5, <1>6, <1>7, <1>8 DEF ListInv, Listed
  <1>10. QED
    BY <1>5, <1>7, <1>9, ListingMoves

(* retain, after the walk. *)
LEMMA RetainKeeps ==
    ASSUME ListInv, Observe, UNCHANGED <<files, op, dirs>>, Retain
    PROVE  ListInv'
  <1>1. listing \in Listing(dirs) /\ listing.pc = "filter"
    BY DEF ListInv, ListType, Retain
  <1>2. /\ listing' \in Listing(dirs)
        /\ listing'.pc = "done" /\ listing'.prefix = listing.prefix
        /\ listing'.out = {k \in listing.out : IsPrefix(listing.prefix, k) /\ k[1] # TempDir[1]}
    BY <1>1 DEF Retain, Listing
  <1>3. /\ seen' \in [through : SUBSET Keys, ever : SUBSET Keys]
        /\ seen'.through = seen.through /\ seen'.ever = seen.ever \cup There
    BY <1>1, <1>2, SeenGoesOn
  <1>4. \A k \in seen.through : IsPrefix(listing.prefix, k) => k \in listing'.out
    BY <1>1, <1>2, TempDirNoKey DEF ListInv, ListType, Listed, Reaches
  <1>5. listing'.out \subseteq {k \in seen.ever : IsPrefix(listing.prefix, k)}
    BY <1>1, <1>2, TempDirNoKey DEF ListInv, Listed
  <1>6. Listed(listing', seen')
    BY <1>2, <1>3, <1>4, <1>5 DEF Listed
  <1>7. QED
    BY <1>2, <1>3, <1>6, ListingMoves

(* read_dir or metadata fails. *)
LEMMA ListFailsKeeps ==
    ASSUME ListInv, Observe, UNCHANGED <<files, op, dirs>>, ListFails
    PROVE  ListInv'
  <1>1. listing' \in Listing(dirs) /\ listing'.pc = "failed"
    BY FailedListing DEF ListFails
  <1>2. seen' = [through |-> {}, ever |-> {}]
    BY <1>1, ObserveEffect DEF ListInv, ListFails, Reading
  <1>3. Listed(listing', seen')
    BY <1>1 DEF Listed
  <1>4. QED
    BY <1>1, <1>2, <1>3, ListingMoves

(***************************************************************************)
(* list_prefix is complete: whatever is put and deleted while it reads the *)
(* directories, it lists every object below its prefix that was there all  *)
(* the time, and nothing but objects below it that were there at some      *)
(* time, at any depth and in any order of the directories.                 *)
(***************************************************************************)
THEOREM ListingsAreComplete ==
    Spec => []ListingIsComplete
  <1>1. Init => ListInv
    <2> SUFFICES ASSUME Init PROVE ListInv
      OBVIOUS
    <2>1. NoListing \in Listing({}) /\ NoListing.pc = "idle"
      BY DEF NoListing, Listing
    <2>2. QED
      BY <2>1 DEF Init, ListInv, DirsOK, ListType, Listed, There
  <1>2. PutInv /\ ListInv /\ [Next]_vars => ListInv'
    <2> SUFFICES ASSUME PutInv, ListInv, [Next]_vars PROVE ListInv'
      OBVIOUS
    <2>1. CASE UNCHANGED vars
      <3>1. There' = There
        BY <2>1 DEF There, vars
      <3>2. QED
        BY <2>1, <3>1 DEF vars, ListInv, DirsOK, ListType, Listed
    <2>2. CASE StoreStep /\ Observe
      BY <2>2, StoreKeepsListing
    <2>3. CASE ListStep /\ Observe
      BY <2>3, ListBeginKeeps, OpenDirKeeps, ReadDirKeeps, RetainKeeps, ListFailsKeeps
         DEF ListStep
    <2>4. QED
      BY <2>1, <2>2, <2>3 DEF Next
  <1>3. ListInv => ListingIsComplete
    BY DEF ListInv, Listed, ListingIsComplete
  <1>4. QED
    BY <1>1, <1>2, <1>3, PutInvAlways, PTL DEF Spec
=============================================================================
