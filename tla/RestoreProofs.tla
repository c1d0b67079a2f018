--------------------------- MODULE RestoreProofs ---------------------------
(***************************************************************************)
(* Proofs about Restore, for any manifest, any selection, any destination  *)
(* and any number of paths.  What the checks before the first write found  *)
(* stays true of every entry until it is written, because a manifest has   *)
(* no entry below a file or a link; what is written stays as it is; and    *)
(* times are applied when nothing is made any more.                        *)
(***************************************************************************)
EXTENDS Restore, TLAPS

-----------------------------------------------------------------------------
(* Types *)

RunPc == {"idle", "check", "mkdir", "open", "write", "verify", "link", "times",
          "planned", "refused", "failed", "killed", "done"}

Run == [pc : RunPc, snapshot : [Paths -> Entry] \cup {<<>>}, selected : SUBSET Paths,
        overwrite : BOOLEAN, dry_run : BOOLEAN, todo : SUBSET Paths, open : BOOLEAN,
        warned : SUBSET Paths]

TypeOK ==
    /\ setup \in DOMAIN Setups
    /\ dest \in [Paths -> Node]
    /\ before \in [Paths -> Node]
    /\ runs \in Nat
    /\ run \in Run
    /\ run.pc # "idle" => run.snapshot \in [Paths -> Entry]

-----------------------------------------------------------------------------
(* The inductive invariant *)

Writing == {"mkdir", "open", "write", "verify", "link"}

(* The restore r has a valid manifest, and the entries left are of its phase. *)
RunOK(r) ==
    /\ r.pc \notin {"idle", "refused"} =>
          /\ ValidManifest(r.snapshot)
          /\ \A q \in r.selected, p \in Paths :
                IsPrefix(q, p) /\ r.snapshot[p].kind # "none" => p \in r.selected
    /\ r.pc # "idle" => \A p \in r.selected : r.snapshot[p].kind # "none"
    /\ r.pc \in {"check"} \cup Writing => r.todo \subseteq Plan(r.snapshot, r.selected)
    /\ r.pc = "times" => r.todo \subseteq TimePlan(r.snapshot, r.selected)
    /\ r.pc \notin {"check", "times"} \cup Writing => r.todo = {}
    /\ r.open => r.pc = "write"
    /\ r.dry_run => r.pc \in {"check", "refused", "planned", "killed"}
    /\ runs = 0 => r.pc = "idle"

(* Entry p of restore r is in place in destination d. *)
Placed(r, d, p) == d[p].kind = r.snapshot[p].kind /\ d[p].data = r.snapshot[p].data

(* Path p is as it was in b, or a directory had to be made there. *)
Kept(d, b, p) ==
    \/ d[p].kind = b[p].kind /\ d[p].data = b[p].data
    \/ b[p].kind = "none" /\ d[p].kind = "dir"

(* What Safe(p) says of the restore r and the destination d. *)
SafeIn(r, d, p) ==
    /\ \A q \in Ancestors(p) : d[q].kind \in {"none", "dir"}
    /\ \/ r.snapshot[p].kind = "dir" /\ d[p].kind \in {"none", "dir"}
       \/ r.snapshot[p].kind = "file" /\ (d[p].kind = "none" \/ (d[p].kind = "file" /\ r.overwrite))
       \/ r.snapshot[p].kind = "link" /\ d[p].kind = "none"

(* The entry at which a restore is that is writing. *)
AtEntry(r, p) == First(p, r.todo, r.snapshot, WriteOrder)

(* What a restore that is writing knows of the entry it is at. *)
EntryOK(r, d, p) ==
    /\ r.pc \in {"open", "link"} => p = <<>> \/ d[Front(p)].kind = "dir"
    /\ r.pc \in {"open", "write", "verify"} => r.snapshot[p].kind = "file"
    /\ r.pc = "link" => r.snapshot[p].kind = "link"
    /\ r.pc = "write" => r.open
    /\ r.pc \in {"write", "verify"} => d[p].kind = "file"
    /\ r.pc = "verify" => Placed(r, d, p)

(* The restore r of what was in b, alone in the destination d. *)
AloneOK(r, d, b) ==
    LET s == r.snapshot
        plan == Plan(s, r.selected) IN
    /\ r.pc # "failed"
    /\ r.pc \in {"check", "refused", "planned"} \/ r.dry_run => d = b
    /\ r.pc = "check" => \A p \in plan : p \in r.todo \/ SafeIn(r, d, p)
    /\ r.pc \in Writing =>
          /\ \A p \in r.todo : AtEntry(r, p) => EntryOK(r, d, p)
          /\ \A p \in r.todo : \/ SafeIn(r, d, p)
                               \/ AtEntry(r, p) /\ r.pc \in {"write", "verify"}
    /\ r.pc \in Writing \cup {"times", "done"} =>
          /\ \A p \in plan : Placed(r, d, p) \/ (p \in r.todo /\ r.pc # "times")
          /\ \A p \in Paths \ plan : Kept(d, b, p)
    /\ r.pc \in {"check"} \cup Writing => r.warned = Uncaptured(s, r.selected, {"link"})
    /\ r.pc = "times" =>
          r.warned = Uncaptured(s, r.selected, {"link"})
                     \cup (Uncaptured(s, r.selected, {"file", "dir"}) \ r.todo)
    /\ r.pc \in {"planned", "done"} =>
          r.warned = Uncaptured(s, r.selected, {"file", "dir", "link"})
    /\ r.pc \in {"times", "done"} =>
          \A p \in TimePlan(s, r.selected) :
             p \in r.todo \/ ~s[p].time \/ d[p].time = "captured"

(* Nothing but a file has contents. *)
DataOK(d) == \A p \in Paths : d[p].kind # "file" => d[p].data = ""

(* The first restore has at most one file half-written, the one it is at. *)
PartialOK(r, d) ==
    /\ \A p \in Paths : d[p].data = "partial" =>
          /\ r.pc \in {"write", "killed"} /\ p \in r.selected
          /\ r.pc = "write" => AtEntry(r, p)
          /\ \A q \in Paths : d[q].data = "partial" => p = q

(* Where restores are repeated, the destination has no kind but the tree's. *)
TreeOK(r, d) ==
    /\ \A tree \in Trees(Given) : \A p \in Paths : d[p].kind \in {"none", tree[p]}
    /\ r.pc = "refused" /\ r.overwrite => \E p \in Paths : d[p].kind = "link"

-----------------------------------------------------------------------------
(* Paths *)

LEMMA PathsAreSequences == Paths \subseteq Seq(STRING) /\ <<>> \in Paths
  <1>1. \A S : Order \in Seq(S) => \A i \in DOMAIN Order : Order[i] \in S
    OBVIOUS
  <1>2. \A i \in DOMAIN Order : Order[i] \in Seq(STRING)
    BY <1>1, RestoreAssumption
  <1>3. <<>> \in Paths
    BY RestoreAssumption
  <1>4. QED
    BY <1>2, <1>3 DEF Paths

(* The directory a path is in is one of its ancestors. *)
LEMMA FrontIsAncestor ==
    ASSUME NEW p \in Paths, p # <<>>
    PROVE  Front(p) \in Ancestors(p)
  <1>1. p \in Seq(STRING) /\ Front(p) \in Paths
    BY PathsAreSequences, RestoreAssumption
  <1>2. Len(p) \in Nat /\ Len(p) # 0
    BY <1>1
  <1>3. /\ Front(p) \in Seq(STRING) /\ Front(p) = SubSeq(p, 1, Len(p) - 1)
        /\ Len(Front(p)) = Len(p) - 1
    <2>1. Front(p) \in Seq(STRING)
      BY <1>1, PathsAreSequences
    <2>2. Front(p) = SubSeq(p, 1, Len(p) - 1)
      BY DEF Front
    <2>3. Len(SubSeq(p, 1, Len(p) - 1)) = Len(p) - 1
      <3>1. PICK n \in 0..Len(p) : n = Len(p) - 1
        BY <1>2
      <3>2. Len(SubSeq(p, 1, n)) = n
        BY <1>1
      <3>3. QED
        BY <3>1, <3>2
    <2>4. QED
      BY <2>1, <2>2, <2>3
  <1>4. SubSeq(Front(p), 1, Len(Front(p))) = Front(p)
    BY <1>3
  <1>5. IsPrefix(Front(p), p)
    BY <1>1, <1>2, <1>3, <1>4 DEF IsPrefix
  <1>6. Front(p) # p
    BY <1>2, <1>3
  <1>7. QED
    BY <1>1, <1>5, <1>6 DEF Ancestors, IsStrictPrefix

(* Being a prefix is transitive. *)
LEMMA PrefixTransitive ==
    ASSUME NEW u \in Seq(STRING), NEW q \in Paths, NEW p \in Paths,
           IsPrefix(u, q), IsPrefix(q, p)
    PROVE  IsPrefix(u, p)
  <1>1. q \in Seq(STRING) /\ p \in Seq(STRING)
    BY PathsAreSequences
  <1>2. Len(u) <= Len(q) /\ Len(q) <= Len(p) /\ Len(u) \in Nat /\ Len(q) \in Nat
        /\ Len(p) \in Nat
    BY <1>1 DEF IsPrefix
  <1>3. \A i \in 1..Len(u) : u[i] = q[i]
    <2>1. SubSeq(u, 1, Len(u)) = SubSeq(q, 1, Len(u))
      BY DEF IsPrefix
    <2>2. \A i \in 1..Len(u) : SubSeq(u, 1, Len(u))[i] = u[i]
                               /\ SubSeq(q, 1, Len(u))[i] = q[i]
      BY <1>1, <1>2
    <2>3. QED
      BY <2>1, <2>2
  <1>4. \A i \in 1..Len(q) : q[i] = p[i]
    <2>1. SubSeq(q, 1, Len(q)) = SubSeq(p, 1, Len(q))
      BY DEF IsPrefix
    <2>2. \A i \in 1..Len(q) : SubSeq(q, 1, Len(q))[i] = q[i]
                               /\ SubSeq(p, 1, Len(q))[i] = p[i]
      BY <1>1, <1>2
    <2>3. QED
      BY <2>1, <2>2
  <1>5. SubSeq(u, 1, Len(u)) = SubSeq(p, 1, Len(u))
    <2>1. /\ SubSeq(u, 1, Len(u)) \in Seq(STRING) /\ Len(SubSeq(u, 1, Len(u))) = Len(u)
          /\ SubSeq(p, 1, Len(u)) \in Seq(STRING) /\ Len(SubSeq(p, 1, Len(u))) = Len(u)
      BY <1>1, <1>2
    <2>2. \A i \in 1..Len(u) : SubSeq(u, 1, Len(u))[i] = SubSeq(p, 1, Len(u))[i]
      BY <1>1, <1>2, <1>3, <1>4
    <2>3. QED
      BY <2>1, <2>2
  <1>6. QED
    BY <1>2, <1>5 DEF IsPrefix

(* At most one entry is the first. *)
LEMMA FirstIsOne ==
    ASSUME NEW p \in Paths, NEW q \in Paths, NEW todo, NEW s,
           First(p, todo, s, WriteOrder), First(q, todo, s, WriteOrder)
    PROVE  p = q
  <1>1. PICK i, j \in DOMAIN WriteOrder, m, n \in DOMAIN Order :
           /\ s[p].kind = WriteOrder[i] /\ s[q].kind = WriteOrder[j]
           /\ Order[m] = p /\ Order[n] = q
           /\ i < j \/ (i = j /\ m <= n)
    BY DEF First
  <1>2. PICK k, l \in DOMAIN WriteOrder, u, v \in DOMAIN Order :
           /\ s[q].kind = WriteOrder[k] /\ s[p].kind = WriteOrder[l]
           /\ Order[u] = q /\ Order[v] = p
           /\ k < l \/ (k = l /\ u <= v)
    BY DEF First
  <1>3. m = v /\ n = u
    BY <1>1, <1>2, RestoreAssumption
  <1>4. m \in Nat /\ n \in Nat
    <2>1. \A S : Order \in Seq(S) => DOMAIN Order \subseteq Nat
      OBVIOUS
    <2>2. QED
      BY <2>1, RestoreAssumption
  <1>5. i = l /\ j = k /\ i \in 1..3 /\ j \in 1..3
    <2>1. DOMAIN WriteOrder = 1..3
      BY DEF WriteOrder
    <2>2. \A x, y \in 1..3 : WriteOrder[x] = WriteOrder[y] => x = y
      BY DEF WriteOrder
    <2>3. QED
      BY <1>1, <1>2, <2>1, <2>2
  <1>6. m = n
    BY <1>1, <1>2, <1>3, <1>4, <1>5
  <1>7. QED
    BY <1>1, <1>6

-----------------------------------------------------------------------------
(* What a step does to the destination *)

LEMMA Touched ==
    ASSUME NEW d \in [Paths -> Node], NEW p \in Paths
    PROVE  /\ Touch(d, p) \in [Paths -> Node]
           /\ \A q \in Paths : /\ Touch(d, p)[q].kind = d[q].kind
                               /\ Touch(d, p)[q].data = d[q].data
  <1>1. ASSUME NEW q \in Paths
        PROVE  /\ [d[q] EXCEPT !.time = "now"] \in Node
               /\ [d[q] EXCEPT !.time = "now"].kind = d[q].kind
               /\ [d[q] EXCEPT !.time = "now"].data = d[q].data
    BY <1>1 DEF Node
  <1>2. QED
    BY <1>1 DEF Touch

(* Everything else keeps its kind and its contents when p is changed. *)
OnlyAt(p) ==
    /\ dest' \in [Paths -> Node]
    /\ \A q \in Paths : q # p => dest'[q].kind = dest[q].kind /\ dest'[q].data = dest[q].data

LEMMA Made ==
    ASSUME TypeOK, NEW p \in Paths, NEW kind \in {"dir", "file", "link"},
           NEW data \in {"", "old", "partial"}, Make(p, kind, data)
    PROVE  OnlyAt(p) /\ dest'[p].kind = kind /\ dest'[p].data = data
  <1>1. PICK n \in Node : n = [kind |-> kind, data |-> data, time |-> "now"]
    BY DEF Node
  <1>2. n.kind = kind /\ n.data = data
    BY <1>1
  <1>3. PICK d \in [Paths -> Node] :
           /\ d = Touch(dest, p)
           /\ \A q \in Paths : d[q].kind = dest[q].kind /\ d[q].data = dest[q].data
    BY Touched DEF TypeOK
  <1>4. dest' = [d EXCEPT ![p] = n]
    BY <1>1, <1>3 DEF Make
  <1>5. QED
    BY <1>2, <1>3, <1>4 DEF OnlyAt

LEMMA Gone ==
    ASSUME TypeOK, NEW p \in Paths, dest' = [Touch(dest, p) EXCEPT ![p] = Nothing]
    PROVE  dest' \in [Paths -> Node]
  <1>1. Nothing \in Node
    BY DEF Nothing, Node
  <1>2. Touch(dest, p) \in [Paths -> Node]
    BY Touched DEF TypeOK
  <1>3. QED
    BY <1>1, <1>2

(* A file is written, or given a time. *)
LEMMA Written ==
    ASSUME TypeOK, NEW p \in Paths, NEW data \in {"", "old", "new", "partial"},
           dest' = Fill(p, data)
    PROVE  OnlyAt(p) /\ dest'[p].kind = dest[p].kind /\ dest'[p].data = data
  <1>1. PICK e \in Node : e = dest[p]
    BY DEF TypeOK
  <1>2. PICK n \in Node : n = [e EXCEPT !.data = data, !.time = "now"]
    BY DEF Node
  <1>3. n.kind = dest[p].kind /\ n.data = data
    BY <1>1, <1>2 DEF Node
  <1>4. dest' = [dest EXCEPT ![p] = n]
    BY <1>1, <1>2 DEF Fill
  <1>5. QED
    BY <1>3, <1>4 DEF OnlyAt, TypeOK

LEMMA Timed ==
    ASSUME TypeOK, NEW p \in Paths, dest' = [dest EXCEPT ![p].time = "captured"]
    PROVE  /\ OnlyAt(p) /\ dest'[p].kind = dest[p].kind /\ dest'[p].data = dest[p].data
           /\ dest'[p].time = "captured"
           /\ \A q \in Paths : q # p => dest'[q].time = dest[q].time
  <1>1. PICK e \in Node : e = dest[p]
    BY DEF TypeOK
  <1>2. PICK n \in Node : n = [e EXCEPT !.time = "captured"]
    BY DEF Node
  <1>3. n.kind = dest[p].kind /\ n.data = dest[p].data /\ n.time = "captured"
    BY <1>1, <1>2 DEF Node
  <1>4. dest' = [dest EXCEPT ![p] = n]
    BY <1>1, <1>2 DEF TypeOK
  <1>5. QED
    BY <1>3, <1>4 DEF OnlyAt, TypeOK

-----------------------------------------------------------------------------
(* What a step does to the restore *)

(* The restore goes on, or ends, at pc. *)
Moves(pc, todo, open, warned) ==
    /\ run' \in Run
    /\ run'.pc = pc /\ run'.todo = todo /\ run'.open = open /\ run'.warned = warned
    /\ run'.snapshot = run.snapshot /\ run'.selected = run.selected
    /\ run'.overwrite = run.overwrite /\ run'.dry_run = run.dry_run

LEMMA Failed ==
    ASSUME TypeOK, Fail
    PROVE  Moves("failed", {}, FALSE, run.warned)
  BY DEF Fail, Moves, TypeOK, Run, RunPc

LEMMA PlansTyped ==
    ASSUME TypeOK
    PROVE  /\ Plan(run.snapshot, run.selected) \in SUBSET Paths
           /\ TimePlan(run.snapshot, run.selected) \in SUBSET Paths
           /\ \A kinds : Uncaptured(run.snapshot, run.selected, kinds) \in SUBSET Paths
           /\ \A p \in Paths : IsNext(p) => p \in run.todo
  <1>1. run.selected \in SUBSET Paths
    BY DEF TypeOK, Run
  <1>2. QED
    BY <1>1 DEF Plan, TimePlan, Uncaptured, IsNext, First

LEMMA WritesFrom ==
    ASSUME TypeOK, NEW T \in SUBSET Paths, WriteFrom(T)
    PROVE  \/ T = {} /\ Moves("times", TimePlan(run.snapshot, run.selected), FALSE, run.warned)
           \/ T # {} /\ Moves("mkdir", T, FALSE, run.warned)
  <1>1. PICK U \in SUBSET Paths : U = TimePlan(run.snapshot, run.selected)
    BY PlansTyped
  <1>2. CASE T = {}
    <2>1. run' = [run EXCEPT !.pc = "times", !.open = FALSE, !.todo = U]
      BY <1>1, <1>2 DEF WriteFrom
    <2>2. Moves("times", U, FALSE, run.warned)
      BY <2>1 DEF Moves, TypeOK, Run, RunPc
    <2>3. QED
      BY <1>1, <1>2, <2>2
  <1>3. CASE T # {}
    <2>1. run' = [run EXCEPT !.pc = "mkdir", !.open = FALSE, !.todo = T]
      BY <1>3 DEF WriteFrom
    <2>2. Moves("mkdir", T, FALSE, run.warned)
      BY <2>1 DEF Moves, TypeOK, Run, RunPc
    <2>3. QED
      BY <1>3, <2>2
  <1>4. QED
    BY <1>2, <1>3

-----------------------------------------------------------------------------
(* What each action does *)

Quiet == runs' = runs /\ before' = before

(* The restore goes on to the next entry of T, or to the times. *)
Goes(T) ==
    \/ T = {} /\ Moves("times", TimePlan(run.snapshot, run.selected), FALSE, run.warned)
    \/ T # {} /\ Moves("mkdir", T, FALSE, run.warned)

Does(pc) == Moves(pc, run.todo, run.open, run.warned)

LEMMA NextIsAtEntry ==
    ASSUME NEW p, IsNext(p)
    PROVE  p \in run.todo /\ (run.pc # "times" => AtEntry(run, p))
  BY DEF IsNext, First, AtEntry

LEMMA CheckEntryDoes ==
    ASSUME TypeOK, NEW p \in Paths, CheckEntry(p)
    PROVE  /\ run.pc = "check" /\ p \in run.todo /\ AtEntry(run, p)
           /\ Quiet /\ dest' = dest
           /\ \/ /\ SafeIn(run, dest, p)
                 /\ Moves("check", run.todo \ {p}, run.open, run.warned)
              \/ ~SafeIn(run, dest, p) /\ Moves("refused", {}, run.open, run.warned)
  <1>1. Safe(p) <=> SafeIn(run, dest, p)
    BY DEF Safe, SafeIn, AncestorsClear, IsKind
  <1>2. run.pc = "check" /\ p \in run.todo /\ AtEntry(run, p) /\ Quiet /\ dest' = dest
    BY NextIsAtEntry DEF CheckEntry, Quiet
  <1>3. CASE Safe(p)
    <2>1. run' = [run EXCEPT !.todo = @ \ {p}]
      BY <1>3 DEF CheckEntry
    <2>2. Moves("check", run.todo \ {p}, run.open, run.warned)
      BY <1>2, <2>1 DEF Moves, TypeOK, Run
    <2>3. QED
      BY <1>1, <1>2, <1>3, <2>2
  <1>4. CASE ~Safe(p)
    <2>1. run' = [run EXCEPT !.pc = "refused", !.todo = {}]
      BY <1>4 DEF CheckEntry
    <2>2. Moves("refused", {}, run.open, run.warned)
      BY <2>1 DEF Moves, TypeOK, Run, RunPc
    <2>3. QED
      BY <1>1, <1>2, <1>4, <2>2
  <1>5. QED
    BY <1>3, <1>4

LEMMA CheckDoneDoes ==
    ASSUME TypeOK, CheckDone
    PROVE  /\ run.pc = "check" /\ run.todo = {} /\ Quiet /\ dest' = dest
           /\ \/ /\ run.dry_run
                 /\ Moves("planned", {}, run.open,
                          run.warned \cup Uncaptured(run.snapshot, run.selected, {"file", "dir"}))
              \/ ~run.dry_run /\ Goes(Plan(run.snapshot, run.selected))
  <1>1. run.pc = "check" /\ run.todo = {} /\ Quiet /\ dest' = dest
    BY DEF CheckDone, Quiet
  <1>2. CASE run.dry_run
    <2>1. PICK U \in SUBSET Paths : U = Uncaptured(run.snapshot, run.selected, {"file", "dir"})
      BY PlansTyped
    <2>2. run' = [run EXCEPT !.pc = "planned", !.warned = @ \cup U]
      BY <1>2, <2>1 DEF CheckDone
    <2>3. Moves("planned", {}, run.open, run.warned \cup U)
      BY <1>1, <2>2 DEF Moves, TypeOK, Run, RunPc
    <2>4. QED
      BY <1>1, <1>2, <2>1, <2>3
  <1>3. CASE ~run.dry_run
    <2>1. WriteFrom(Plan(run.snapshot, run.selected))
      BY <1>3 DEF CheckDone
    <2>2. Goes(Plan(run.snapshot, run.selected))
      BY <2>1, PlansTyped, WritesFrom DEF Goes
    <2>3. QED
      BY <1>1, <1>3, <2>2
  <1>4. QED
    BY <1>2, <1>3

LEMMA MakeDirsDoes ==
    ASSUME TypeOK, NEW p \in Paths, MakeDirs(p)
    PROVE  /\ run.pc = "mkdir" /\ p \in run.todo /\ AtEntry(run, p) /\ Quiet
           /\ \/ /\ \E q \in Wanted(p) : dest[q].kind \notin {"none", "dir"}
                 /\ Moves("failed", {}, FALSE, run.warned) /\ dest' = dest
              \/ /\ \E q \in Wanted(p) : /\ dest[q].kind = "none"
                                         /\ OnlyAt(q) /\ dest'[q].kind = "dir"
                                         /\ dest'[q].data = ""
                 /\ run' = run
              \/ /\ \A q \in Wanted(p) : dest[q].kind = "dir"
                 /\ \/ run.snapshot[p].kind = "dir" /\ Goes(run.todo \ {p})
                    \/ run.snapshot[p].kind = "file" /\ Does("open")
                    \/ run.snapshot[p].kind \notin {"dir", "file"} /\ Does("link")
                 /\ dest' = dest
  <1>1. run.pc = "mkdir" /\ p \in run.todo /\ AtEntry(run, p) /\ Quiet
    BY NextIsAtEntry DEF MakeDirs, Quiet
  <1>2. Wanted(p) \subseteq Paths
    BY DEF Wanted, Ancestors
  <1>3. CASE /\ \E q \in Wanted(p) : dest[q].kind \notin {"none", "dir"}
             /\ Fail /\ UNCHANGED dest
    BY <1>1, <1>3, Failed
  <1>4. CASE /\ \E q \in Wanted(p) : dest[q].kind = "none" /\ Make(q, "dir", "")
             /\ UNCHANGED run
    <2>1. PICK q \in Wanted(p) : dest[q].kind = "none" /\ Make(q, "dir", "")
      BY <1>4
    <2>2. OnlyAt(q) /\ dest'[q].kind = "dir" /\ dest'[q].data = ""
      BY <1>2, <2>1, Made
    <2>3. QED
      BY <1>1, <1>4, <2>1, <2>2
  <1>5. CASE /\ \A q \in Wanted(p) : dest[q].kind = "dir"
             /\ \/ IsKind(p, "dir") /\ WriteFrom(run.todo \ {p})
                \/ IsKind(p, "file") /\ run' = [run EXCEPT !.pc = "open"]
                \/ ~IsKind(p, "dir") /\ ~IsKind(p, "file") /\ run' = [run EXCEPT !.pc = "link"]
             /\ UNCHANGED dest
    <2>1. run.todo \ {p} \in SUBSET Paths
      BY DEF TypeOK, Run
    <2>2. ASSUME WriteFrom(run.todo \ {p}) PROVE Goes(run.todo \ {p})
      BY <2>1, <2>2, WritesFrom DEF Goes
    <2>3. ASSUME run' = [run EXCEPT !.pc = "open"] PROVE Does("open")
      BY <2>3 DEF Does, Moves, TypeOK, Run, RunPc
    <2>4. ASSUME run' = [run EXCEPT !.pc = "link"] PROVE Does("link")
      BY <2>4 DEF Does, Moves, TypeOK, Run, RunPc
    <2>5. QED
      BY <1>1, <1>5, <2>2, <2>3, <2>4 DEF IsKind
  <1>6. \/ /\ \E q \in Wanted(p) : dest[q].kind \notin {"none", "dir"}
           /\ Fail /\ UNCHANGED dest
        \/ /\ \E q \in Wanted(p) : dest[q].kind = "none" /\ Make(q, "dir", "")
           /\ UNCHANGED run
        \/ /\ \A q \in Wanted(p) : dest[q].kind = "dir"
           /\ \/ IsKind(p, "dir") /\ WriteFrom(run.todo \ {p})
              \/ IsKind(p, "file") /\ run' = [run EXCEPT !.pc = "open"]
              \/ ~IsKind(p, "dir") /\ ~IsKind(p, "file") /\ run' = [run EXCEPT !.pc = "link"]
           /\ UNCHANGED dest
    BY DEF MakeDirs
  <1>7. QED
    BY <1>3, <1>4, <1>5, <1>6

LEMMA OpenFileDoes ==
    ASSUME TypeOK, NEW p \in Paths, OpenFile(p)
    PROVE  /\ run.pc = "open" /\ p \in run.todo /\ AtEntry(run, p) /\ Quiet
           /\ \/ /\ dest[p].kind = "none" \/ (dest[p].kind = "file" /\ run.overwrite)
                 /\ OnlyAt(p) /\ dest'[p].kind = "file" /\ dest'[p].data = "partial"
                 /\ Moves("write", run.todo, TRUE, run.warned)
              \/ /\ IF dest[p].kind = "none" THEN ~Inside(p)
                    ELSE ~(dest[p].kind = "file" /\ run.overwrite)
                 /\ Moves("failed", {}, FALSE, run.warned) /\ dest' = dest
  <1>1. run.pc = "open" /\ p \in run.todo /\ AtEntry(run, p) /\ Quiet
    BY NextIsAtEntry DEF OpenFile, Quiet
  <1>2. ASSUME run' = [run EXCEPT !.pc = "write", !.open = TRUE]
        PROVE  Moves("write", run.todo, TRUE, run.warned)
    BY <1>2 DEF Moves, TypeOK, Run, RunPc
  <1>3. CASE /\ dest[p].kind = "none" /\ Make(p, "file", "partial")
             /\ run' = [run EXCEPT !.pc = "write", !.open = TRUE]
    <2>1. OnlyAt(p) /\ dest'[p].kind = "file" /\ dest'[p].data = "partial"
      BY <1>3, Made
    <2>2. QED
      BY <1>1, <1>2, <1>3, <2>1
  <1>4. CASE /\ dest[p].kind = "file" /\ run.overwrite
             /\ dest' = Fill(p, "partial")
             /\ run' = [run EXCEPT !.pc = "write", !.open = TRUE]
    <2>1. OnlyAt(p) /\ dest'[p].kind = "file" /\ dest'[p].data = "partial"
      BY <1>4, Written
    <2>2. QED
      BY <1>1, <1>2, <1>4, <2>1
  <1>5. CASE /\ IF dest[p].kind = "none" THEN ~Inside(p)
                ELSE ~(dest[p].kind = "file" /\ run.overwrite)
             /\ Fail /\ UNCHANGED dest
    BY <1>1, <1>5, Failed
  <1>6. QED
    BY <1>3, <1>4, <1>5 DEF OpenFile

LEMMA WriteFileDoes ==
    ASSUME TypeOK, NEW p \in Paths, WriteFile(p)
    PROVE  /\ run.pc = "write" /\ p \in run.todo /\ AtEntry(run, p) /\ Quiet
           /\ Moves("verify", run.todo, FALSE, run.warned)
           /\ run.open => /\ OnlyAt(p) /\ dest'[p].kind = dest[p].kind
                          /\ dest'[p].data = run.snapshot[p].data
           /\ ~run.open => dest' = dest
  <1>1. run.pc = "write" /\ p \in run.todo /\ AtEntry(run, p) /\ Quiet
    BY NextIsAtEntry DEF WriteFile, Quiet
  <1>2. Moves("verify", run.todo, FALSE, run.warned)
    <2>1. run' = [run EXCEPT !.pc = "verify", !.open = FALSE]
      BY DEF WriteFile
    <2>2. QED
      BY <2>1 DEF Moves, TypeOK, Run, RunPc
  <1>3. run.snapshot[p].data \in {"", "old", "new", "partial"}
    BY <1>1 DEF TypeOK, Entry
  <1>4. ASSUME run.open
        PROVE  /\ OnlyAt(p) /\ dest'[p].kind = dest[p].kind
               /\ dest'[p].data = run.snapshot[p].data
    <2>1. dest' = Fill(p, run.snapshot[p].data)
      BY <1>4 DEF WriteFile
    <2>2. QED
      BY <1>3, <2>1, Written
  <1>5. ~run.open => dest' = dest
    BY DEF WriteFile
  <1>6. QED
    BY <1>1, <1>2, <1>4, <1>5

LEMMA VerifyFileDoes ==
    ASSUME TypeOK, NEW p \in Paths, VerifyFile(p)
    PROVE  /\ run.pc = "verify" /\ p \in run.todo /\ AtEntry(run, p) /\ Quiet /\ dest' = dest
           /\ \/ /\ dest[p].kind = "file" /\ dest[p].data = run.snapshot[p].data
                 /\ Goes(run.todo \ {p})
              \/ /\ ~(dest[p].kind = "file" /\ dest[p].data = run.snapshot[p].data)
                 /\ Moves("failed", {}, FALSE, run.warned)
  <1>1. /\ run.pc = "verify" /\ p \in run.todo /\ AtEntry(run, p) /\ Quiet /\ dest' = dest
    BY NextIsAtEntry DEF VerifyFile, Quiet
  <1>2. run.todo \ {p} \in SUBSET Paths
    BY DEF TypeOK, Run
  <1>3. WriteFrom(run.todo \ {p}) => Goes(run.todo \ {p})
    BY <1>2, WritesFrom DEF Goes
  <1>4. QED
    BY <1>1, <1>3, Failed DEF VerifyFile

LEMMA MakeLinkDoes ==
    ASSUME TypeOK, NEW p \in Paths, MakeLink(p)
    PROVE  /\ run.pc = "link" /\ p \in run.todo /\ AtEntry(run, p) /\ Quiet
           /\ \/ /\ dest[p].kind = "none"
                 /\ OnlyAt(p) /\ dest'[p].kind = "link" /\ dest'[p].data = ""
                 /\ Goes(run.todo \ {p})
              \/ /\ ~(dest[p].kind = "none" /\ Inside(p)) /\ dest' = dest
                 /\ Moves("failed", {}, FALSE, run.warned)
  <1>1. run.pc = "link" /\ p \in run.todo /\ AtEntry(run, p) /\ Quiet
    BY NextIsAtEntry DEF MakeLink, Quiet
  <1>2. CASE dest[p].kind = "none" /\ Inside(p)
    <2>1. Make(p, "link", "") /\ WriteFrom(run.todo \ {p})
      BY <1>2 DEF MakeLink
    <2>2. OnlyAt(p) /\ dest'[p].kind = "link" /\ dest'[p].data = ""
      BY <2>1, Made
    <2>3. run.todo \ {p} \in SUBSET Paths
      BY DEF TypeOK, Run
    <2>4. Goes(run.todo \ {p})
      BY <2>1, <2>3, WritesFrom DEF Goes
    <2>5. QED
      BY <1>1, <1>2, <2>2, <2>4
  <1>3. CASE ~(dest[p].kind = "none" /\ Inside(p))
    BY <1>1, <1>3, Failed DEF MakeLink
  <1>4. QED
    BY <1>2, <1>3

LEMMA SetTimeDoes ==
    ASSUME TypeOK, NEW p \in Paths, SetTime(p)
    PROVE  /\ run.pc = "times" /\ p \in run.todo /\ Quiet
           /\ \A q \in Paths : dest'[q].kind = dest[q].kind /\ dest'[q].data = dest[q].data
           /\ dest' \in [Paths -> Node]
           /\ \A q \in Paths : q # p => dest'[q].time = dest[q].time
           /\ \/ /\ run.snapshot[p].time /\ Openable(p) /\ dest'[p].time = "captured"
                 /\ Moves("times", run.todo \ {p}, run.open, run.warned)
              \/ /\ ~(run.snapshot[p].time /\ Openable(p)) /\ dest' = dest
                 /\ Moves("times", run.todo \ {p}, run.open, run.warned \cup {p})
  <1>1. run.pc = "times" /\ p \in run.todo /\ Quiet
    BY NextIsAtEntry DEF SetTime, Quiet
  <1>2. CASE run.snapshot[p].time /\ Openable(p)
    <2>1. dest' = [dest EXCEPT ![p].time = "captured"]
      BY <1>2 DEF SetTime
    <2>2. run' = [run EXCEPT !.todo = @ \ {p}, !.warned = @]
      BY <1>2 DEF SetTime
    <2>3. Moves("times", run.todo \ {p}, run.open, run.warned)
      BY <1>1, <2>2 DEF Moves, TypeOK, Run
    <2>4. QED
      BY <1>1, <1>2, <2>1, <2>3, Timed DEF OnlyAt
  <1>3. CASE ~(run.snapshot[p].time /\ Openable(p))
    <2>1. dest' = dest
      BY <1>3 DEF SetTime
    <2>2. run' = [run EXCEPT !.todo = @ \ {p}, !.warned = @ \cup {p}]
      BY <1>3 DEF SetTime
    <2>3. Moves("times", run.todo \ {p}, run.open, run.warned \cup {p})
      BY <1>1, <2>2 DEF Moves, TypeOK, Run
    <2>4. QED
      BY <1>1, <1>3, <2>1, <2>3 DEF TypeOK
  <1>4. QED
    BY <1>2, <1>3

LEMMA TimesDoneDoes ==
    ASSUME TypeOK, TimesDone
    PROVE  run.pc = "times" /\ run.todo = {} /\ Quiet /\ dest' = dest /\ Does("done")
  <1>1. run' = [run EXCEPT !.pc = "done"]
    BY DEF TimesDone
  <1>2. Does("done")
    BY <1>1 DEF Does, Moves, TypeOK, Run, RunPc
  <1>3. QED
    BY <1>2 DEF TimesDone, Quiet

LEMMA KillDoes ==
    ASSUME TypeOK, Kill
    PROVE  /\ Running /\ Quiet /\ dest' = dest
           /\ Moves("killed", {}, FALSE, run.warned)
  <1>1. run' = [run EXCEPT !.pc = "killed", !.todo = {}, !.open = FALSE]
    BY DEF Kill
  <1>2. Moves("killed", {}, FALSE, run.warned)
    BY <1>1 DEF Moves, TypeOK, Run, RunPc
  <1>3. QED
    BY <1>2 DEF Kill, Quiet

(* Other programs only act where the destination is busy. *)
OthersStep ==
    \E p \in Paths : \/ OtherMakes(p, "file") \/ OtherMakes(p, "dir")
                     \/ OtherWrites(p) \/ OtherRemoves(p)

LEMMA OthersDo ==
    ASSUME TypeOK, OthersStep
    PROVE  /\ Given.busy /\ Running /\ Quiet /\ dest' \in [Paths -> Node]
           /\ run' = run \/ (run.open /\ Moves(run.pc, run.todo, FALSE, run.warned))
  <1>1. PICK p \in Paths : \/ OtherMakes(p, "file") \/ OtherMakes(p, "dir")
                           \/ OtherWrites(p) \/ OtherRemoves(p)
    BY DEF OthersStep
  <1>2. CASE OtherMakes(p, "file")
    BY <1>2, Made DEF OtherMakes, Quiet, OnlyAt
  <1>3. CASE OtherMakes(p, "dir")
    BY <1>3, Made DEF OtherMakes, Quiet, OnlyAt
  <1>4. CASE OtherWrites(p)
    BY <1>4, Written DEF OtherWrites, Quiet, OnlyAt
  <1>5. CASE OtherRemoves(p)
    <2>1. dest' \in [Paths -> Node]
      BY <1>5, Gone DEF OtherRemoves
    <2>2. run' = run \/ (run.open /\ run' = [run EXCEPT !.open = FALSE])
      BY <1>5 DEF OtherRemoves, Unlinks
    <2>3. ASSUME run' = [run EXCEPT !.open = FALSE]
          PROVE  Moves(run.pc, run.todo, FALSE, run.warned)
      BY <2>3 DEF Moves, TypeOK, Run
    <2>4. QED
      BY <1>5, <2>1, <2>2, <2>3 DEF OtherRemoves, Quiet
  <1>6. QED
    BY <1>1, <1>2, <1>3, <1>4, <1>5

(* What a restore is asked for, and whether it is accepted. *)
Asked(request) == {Normalize(path) : path \in request}

Accepted(s, request) ==
    /\ \A path \in request : IsRelative(path)
    /\ ValidManifest(s) /\ RequestExists(s, Asked(request))

LEMMA BeginDoes ==
    ASSUME TypeOK, NEW s \in Given.snapshots, NEW request \in Given.requests,
           NEW overwrite \in BOOLEAN, NEW dry_run \in BOOLEAN,
           Begin(s, request, overwrite, dry_run)
    PROVE  /\ MayBegin /\ runs' = runs + 1 /\ before' = dest /\ dest' = dest
           /\ run' \in Run /\ s \in [Paths -> Entry]
           /\ run'.snapshot = s /\ run'.selected = Selected(s, Asked(request))
           /\ run'.overwrite = overwrite /\ run'.dry_run = dry_run /\ run'.open = FALSE
           /\ \/ /\ Accepted(s, request) /\ run'.pc = "check"
                 /\ run'.todo = Plan(s, Selected(s, Asked(request)))
                 /\ run'.warned = Uncaptured(s, Selected(s, Asked(request)), {"link"})
              \/ ~Accepted(s, request) /\ run'.pc = "refused" /\ run'.todo = {}
  <1>1. s \in [Paths -> Entry]
    BY RestoreAssumption DEF Given, TypeOK
  <1>2. PICK S \in SUBSET Paths : S = Selected(s, Asked(request))
    BY DEF Selected
  <1>3. PICK P \in SUBSET Paths : P = Plan(s, S)
    BY <1>2 DEF Plan
  <1>4. PICK U \in SUBSET Paths : U = Uncaptured(s, S, {"link"})
    BY <1>2 DEF Uncaptured
  <1>5. MayBegin /\ runs' = runs + 1 /\ before' = dest /\ dest' = dest
    BY DEF Begin
  <1>6. CASE Accepted(s, request)
    <2>1. run' = [pc |-> "check", snapshot |-> s, selected |-> S, overwrite |-> overwrite,
                  dry_run |-> dry_run, todo |-> P, open |-> FALSE, warned |-> U]
      BY <1>2, <1>3, <1>4, <1>6 DEF Begin, Accepted, Asked
    <2>2. run' \in Run
      BY <1>1, <2>1 DEF Run, RunPc
    <2>3. QED
      BY <1>1, <1>2, <1>3, <1>4, <1>5, <1>6, <2>1, <2>2
  <1>7. CASE ~Accepted(s, request)
    <2>1. run' = [pc |-> "refused", snapshot |-> s, selected |-> S, overwrite |-> overwrite,
                  dry_run |-> dry_run, todo |-> {}, open |-> FALSE, warned |-> {}]
      BY <1>2, <1>7 DEF Begin, Accepted, Asked
    <2>2. run' \in Run
      BY <1>1, <2>1 DEF Run, RunPc
    <2>3. QED
      BY <1>1, <1>2, <1>5, <1>7, <2>1, <2>2
  <1>8. QED
    BY <1>6, <1>7

BeginStep ==
    \E s \in Given.snapshots, request \in Given.requests, overwrite, dry_run \in BOOLEAN :
       Begin(s, request, overwrite, dry_run)

LEMMA NextCases ==
    ASSUME Next
    PROVE  setup' = setup /\ (BeginStep \/ RunStep \/ Kill \/ OthersStep)
  BY DEF Next, Step, BeginStep, OthersStep

-----------------------------------------------------------------------------
(* Types are preserved *)

(* The same restore after a step. *)
SameRun ==
    /\ run' \in Run
    /\ run'.snapshot = run.snapshot /\ run'.selected = run.selected
    /\ run'.overwrite = run.overwrite /\ run'.dry_run = run.dry_run

LEMMA MovesOrGoes ==
    ASSUME TypeOK
    PROVE  /\ run' = run => SameRun
           /\ \A pc, todo, open, warned : Moves(pc, todo, open, warned) => SameRun
           /\ \A pc : Does(pc) => SameRun
           /\ \A T : Goes(T) => SameRun
  BY DEF SameRun, Moves, Goes, Does, TypeOK

(* What every step of a restore has in common. *)
LEMMA RunStepDoes ==
    ASSUME TypeOK, RunStep
    PROVE  run.pc # "idle" /\ Quiet /\ SameRun /\ dest' \in [Paths -> Node]
  <1>1. CASE CheckDone
    BY <1>1, CheckDoneDoes, MovesOrGoes DEF TypeOK
  <1>2. CASE TimesDone
    BY <1>2, TimesDoneDoes, MovesOrGoes DEF TypeOK
  <1>3. ASSUME NEW p \in Paths, CheckEntry(p)
        PROVE  run.pc # "idle" /\ Quiet /\ SameRun /\ dest' \in [Paths -> Node]
    BY <1>3, CheckEntryDoes, MovesOrGoes DEF TypeOK
  <1>4. ASSUME NEW p \in Paths, MakeDirs(p)
        PROVE  run.pc # "idle" /\ Quiet /\ SameRun /\ dest' \in [Paths -> Node]
    BY <1>4, MakeDirsDoes, MovesOrGoes DEF TypeOK, OnlyAt
  <1>5. ASSUME NEW p \in Paths, OpenFile(p)
        PROVE  run.pc # "idle" /\ Quiet /\ SameRun /\ dest' \in [Paths -> Node]
    BY <1>5, OpenFileDoes, MovesOrGoes DEF TypeOK, OnlyAt
  <1>6. ASSUME NEW p \in Paths, WriteFile(p)
        PROVE  run.pc # "idle" /\ Quiet /\ SameRun /\ dest' \in [Paths -> Node]
    BY <1>6, WriteFileDoes, MovesOrGoes DEF TypeOK, OnlyAt
  <1>7. ASSUME NEW p \in Paths, VerifyFile(p)
        PROVE  run.pc # "idle" /\ Quiet /\ SameRun /\ dest' \in [Paths -> Node]
    BY <1>7, VerifyFileDoes, MovesOrGoes DEF TypeOK
  <1>8. ASSUME NEW p \in Paths, MakeLink(p)
        PROVE  run.pc # "idle" /\ Quiet /\ SameRun /\ dest' \in [Paths -> Node]
    BY <1>8, MakeLinkDoes, MovesOrGoes DEF TypeOK, OnlyAt
  <1>9. ASSUME NEW p \in Paths, SetTime(p)
        PROVE  run.pc # "idle" /\ Quiet /\ SameRun /\ dest' \in [Paths -> Node]
    BY <1>9, SetTimeDoes, MovesOrGoes DEF TypeOK
  <1>10. QED
    BY <1>1, <1>2, <1>3, <1>4, <1>5, <1>6, <1>7, <1>8, <1>9 DEF RunStep

LEMMA TypeInit == Init => TypeOK
  <1> SUFFICES ASSUME Init PROVE TypeOK
    OBVIOUS
  <1>1. setup \in DOMAIN Setups /\ dest \in [Paths -> Node] /\ before \in [Paths -> Node]
    BY RestoreAssumption DEF Init, Given
  <1>2. run = [pc |-> "idle", snapshot |-> <<>>, selected |-> {}, overwrite |-> FALSE,
               dry_run |-> FALSE, todo |-> {}, open |-> FALSE, warned |-> {}] /\ runs = 0
    BY DEF Init
  <1>3. run \in Run
    BY <1>2 DEF Run, RunPc
  <1>4. run.pc = "idle"
    BY <1>2
  <1>5. QED
    BY <1>1, <1>2, <1>3, <1>4 DEF TypeOK

LEMMA TypeStays == TypeOK /\ [Next]_vars => TypeOK'
  <1> SUFFICES ASSUME TypeOK, [Next]_vars PROVE TypeOK'
    OBVIOUS
  <1>1. CASE UNCHANGED vars
    BY <1>1 DEF TypeOK, vars
  <1>2. ASSUME setup' = setup, Quiet, SameRun, dest' \in [Paths -> Node], run.pc # "idle"
        PROVE  TypeOK'
    BY <1>2 DEF TypeOK, Quiet, SameRun
  <1>3. CASE Next
    <2>1. setup' = setup
      BY <1>3, NextCases
    <2>2. CASE BeginStep
      <3>1. PICK s \in Given.snapshots, request \in Given.requests,
                 overwrite \in BOOLEAN, dry_run \in BOOLEAN :
               Begin(s, request, overwrite, dry_run)
        BY <2>2 DEF BeginStep
      <3>2. /\ runs' = runs + 1 /\ before' = dest /\ dest' = dest
            /\ run' \in Run /\ s \in [Paths -> Entry] /\ run'.snapshot = s
        BY <3>1, BeginDoes
      <3>3. QED
        BY <2>1, <3>2 DEF TypeOK
    <2>3. CASE RunStep
      BY <1>2, <2>1, <2>3, RunStepDoes
    <2>4. CASE Kill
      <3>1. run.pc # "idle"
        BY <2>4, KillDoes DEF Running
      <3>2. QED
        BY <1>2, <2>1, <2>4, <3>1, KillDoes, MovesOrGoes DEF TypeOK
    <2>5. CASE OthersStep
      <3>1. run.pc # "idle"
        BY <2>5, OthersDo DEF Running
      <3>2. QED
        BY <1>2, <2>1, <2>5, <3>1, OthersDo, MovesOrGoes
    <2>6. QED
      BY <1>3, <2>2, <2>3, <2>4, <2>5, NextCases
  <1>4. QED
    BY <1>1, <1>3

(***************************************************************************)
(* Every step of a restore and of the programs around it leaves a state of *)
(* the types above: a destination of nodes and a restore of one manifest.  *)
(***************************************************************************)
THEOREM TypeCorrect == Spec => []TypeOK
  <1>1. QED
    BY TypeInit, TypeStays, PTL DEF Spec

-----------------------------------------------------------------------------
(* The entries left are entries of the plan *)

(* A restore that is running has been accepted. *)
LEMMA SelectionIsClosed ==
    ASSUME TypeOK, NEW s \in [Paths -> Entry], NEW request \in Given.requests,
           NEW q \in Selected(s, Asked(request)), NEW p \in Paths,
           IsPrefix(q, p), s[p].kind # "none"
    PROVE  p \in Selected(s, Asked(request))
  <1>1. q \in Paths /\ Matches(q, Asked(request))
    BY DEF Selected
  <1>2. CASE Asked(request) = {}
    BY <1>2 DEF Selected, Matches
  <1>3. ASSUME NEW u \in Asked(request), IsPrefix(u, q)
        PROVE  p \in Selected(s, Asked(request))
    <2>1. u \in Seq(STRING)
      BY <1>3, NormalAssumption DEF Asked, TypeOK, Given
    <2>2. IsPrefix(u, p)
      BY <1>1, <1>3, <2>1, PrefixTransitive
    <2>3. QED
      BY <2>2 DEF Selected, Matches
  <1>4. QED
    BY <1>1, <1>2, <1>3 DEF Matches

LEMMA RunOKMoves ==
    ASSUME TypeOK, RunOK(run), Quiet, run.pc \notin {"idle", "refused"},
           NEW pc, NEW todo, NEW open, NEW warned, Moves(pc, todo, open, warned),
           pc # "idle",
           pc \in {"check"} \cup Writing => todo \subseteq Plan(run.snapshot, run.selected),
           pc = "times" => todo \subseteq TimePlan(run.snapshot, run.selected),
           pc \notin {"check", "times"} \cup Writing => todo = {},
           open => pc = "write",
           run.dry_run => pc \in {"check", "refused", "planned", "killed"}
    PROVE  RunOK(run)'
  BY DEF RunOK, Moves, Quiet, Writing, ValidManifest, Plan, TimePlan

LEMMA RunOKGoes ==
    ASSUME TypeOK, RunOK(run), Quiet, run.pc \notin {"idle", "refused"}, ~run.dry_run,
           NEW T, T \subseteq Plan(run.snapshot, run.selected), Goes(T)
    PROVE  RunOK(run)'
  <1>1. CASE /\ T = {}
             /\ Moves("times", TimePlan(run.snapshot, run.selected), FALSE, run.warned)
    BY <1>1, RunOKMoves DEF Writing
  <1>2. CASE T # {} /\ Moves("mkdir", T, FALSE, run.warned)
    BY <1>2, RunOKMoves DEF Writing
  <1>3. QED
    BY <1>1, <1>2 DEF Goes

LEMMA RunOKStays == TypeOK /\ RunOK(run) /\ [Next]_vars => RunOK(run)'
  <1> SUFFICES ASSUME TypeOK, RunOK(run), [Next]_vars PROVE RunOK(run)'
    OBVIOUS
  <1>1. CASE UNCHANGED vars
    BY <1>1 DEF RunOK, vars
  <1>2. CASE BeginStep
    <2>1. PICK s \in Given.snapshots, request \in Given.requests,
               overwrite \in BOOLEAN, dry_run \in BOOLEAN :
             Begin(s, request, overwrite, dry_run)
      BY <1>2 DEF BeginStep
    <2>2. /\ runs' = runs + 1 /\ s \in [Paths -> Entry] /\ run'.snapshot = s
          /\ run'.selected = Selected(s, Asked(request)) /\ run'.open = FALSE
          /\ \/ /\ Accepted(s, request) /\ run'.pc = "check"
                /\ run'.todo = Plan(s, Selected(s, Asked(request)))
             \/ run'.pc = "refused" /\ run'.todo = {}
      BY <2>1, BeginDoes
    <2>3. \A q \in run'.selected, p \in Paths :
             IsPrefix(q, p) /\ s[p].kind # "none" => p \in run'.selected
      BY <2>2, SelectionIsClosed
    <2>4. \A p \in run'.selected : s[p].kind # "none"
      BY <2>2 DEF Selected
    <2>5. runs' # 0
      BY <2>2 DEF TypeOK
    <2>6. run'.pc = "check" => ValidManifest(s)
      BY <2>2 DEF Accepted
    <2>7. QED
      BY <2>2, <2>3, <2>4, <2>5, <2>6 DEF RunOK, Writing
  <1>3. ASSUME NEW p \in Paths, CheckEntry(p) PROVE RunOK(run)'
    <2>1. run.pc = "check" /\ run.todo \subseteq Plan(run.snapshot, run.selected) /\ ~run.open
      BY <1>3, CheckEntryDoes DEF RunOK
    <2>2. CASE Moves("check", run.todo \ {p}, run.open, run.warned) /\ Quiet
      BY <2>1, <2>2, RunOKMoves DEF Writing
    <2>3. CASE Moves("refused", {}, run.open, run.warned) /\ Quiet
      BY <2>1, <2>3, RunOKMoves DEF Writing
    <2>4. QED
      BY <1>3, <2>2, <2>3, CheckEntryDoes
  <1>4. CASE CheckDone
    <2>1. run.pc = "check" /\ ~run.open
      BY <1>4, CheckDoneDoes DEF RunOK
    <2>2. QED
      BY <1>4, <2>1, CheckDoneDoes, RunOKMoves, RunOKGoes DEF Writing
  <1>5. ASSUME run.pc \in Writing
        PROVE  /\ ~run.dry_run /\ run.todo \subseteq Plan(run.snapshot, run.selected)
               /\ run.pc \notin {"idle", "refused"}
    BY <1>5 DEF RunOK, Writing
  <1>6. ASSUME NEW p \in Paths, MakeDirs(p) PROVE RunOK(run)'
    <2>1. run.pc = "mkdir" /\ Quiet
      BY <1>6, MakeDirsDoes
    <2>2. /\ ~run.dry_run /\ run.todo \subseteq Plan(run.snapshot, run.selected) /\ ~run.open
      BY <1>5, <2>1 DEF Writing, RunOK
    <2>3. CASE Moves("failed", {}, FALSE, run.warned)
      BY <2>1, <2>2, <2>3, RunOKMoves DEF Writing
    <2>4. CASE run' = run
      BY <2>1, <2>4 DEF RunOK, Quiet
    <2>5. CASE Goes(run.todo \ {p})
      BY <2>1, <2>2, <2>5, RunOKGoes
    <2>6. CASE Does("open")
      BY <2>1, <2>2, <2>6, RunOKMoves DEF Writing, Does
    <2>7. CASE Does("link")
      BY <2>1, <2>2, <2>7, RunOKMoves DEF Writing, Does
    <2>8. QED
      BY <1>6, <2>3, <2>4, <2>5, <2>6, <2>7, MakeDirsDoes
  <1>7. ASSUME NEW p \in Paths, OpenFile(p) PROVE RunOK(run)'
    BY <1>5, <1>7, OpenFileDoes, RunOKMoves DEF Writing
  <1>8. ASSUME NEW p \in Paths, WriteFile(p) PROVE RunOK(run)'
    BY <1>5, <1>8, WriteFileDoes, RunOKMoves DEF Writing
  <1>9. ASSUME NEW p \in Paths, VerifyFile(p) PROVE RunOK(run)'
    <2>1. run.pc = "verify" /\ Quiet
      BY <1>9, VerifyFileDoes
    <2>2. ~run.dry_run /\ run.todo \subseteq Plan(run.snapshot, run.selected)
      BY <1>5, <2>1 DEF Writing
    <2>3. CASE Goes(run.todo \ {p})
      BY <2>1, <2>2, <2>3, RunOKGoes
    <2>4. CASE Moves("failed", {}, FALSE, run.warned)
      BY <2>1, <2>2, <2>4, RunOKMoves DEF Writing
    <2>5. QED
      BY <1>9, <2>3, <2>4, VerifyFileDoes
  <1>10. ASSUME NEW p \in Paths, MakeLink(p) PROVE RunOK(run)'
    <2>1. run.pc = "link" /\ Quiet
      BY <1>10, MakeLinkDoes
    <2>2. ~run.dry_run /\ run.todo \subseteq Plan(run.snapshot, run.selected)
      BY <1>5, <2>1 DEF Writing
    <2>3. CASE Goes(run.todo \ {p})
      BY <2>1, <2>2, <2>3, RunOKGoes
    <2>4. CASE Moves("failed", {}, FALSE, run.warned)
      BY <2>1, <2>2, <2>4, RunOKMoves DEF Writing
    <2>5. QED
      BY <1>10, <2>3, <2>4, MakeLinkDoes
  <1>11. ASSUME NEW p \in Paths, SetTime(p) PROVE RunOK(run)'
    <2>1. /\ run.pc = "times" /\ Quiet /\ ~run.open /\ ~run.dry_run
          /\ run.todo \subseteq TimePlan(run.snapshot, run.selected)
      BY <1>11, SetTimeDoes DEF RunOK
    <2>2. QED
      BY <1>11, <2>1, SetTimeDoes, RunOKMoves DEF Writing
  <1>12. CASE TimesDone
    <2>1. run.pc = "times" /\ Quiet /\ ~run.open /\ ~run.dry_run
      BY <1>12, TimesDoneDoes DEF RunOK
    <2>2. QED
      BY <1>12, <2>1, TimesDoneDoes, RunOKMoves DEF Writing, Does
  <1>13. CASE Kill
    <2>1. run.pc \notin {"idle", "refused"}
      BY <1>13, KillDoes DEF Running
    <2>2. QED
      BY <1>13, <2>1, KillDoes, RunOKMoves DEF Writing
  <1>14. CASE OthersStep
    <2>1. CASE run' = run /\ Quiet
      BY <2>1 DEF RunOK, Quiet
    <2>2. CASE Moves(run.pc, run.todo, FALSE, run.warned) /\ Quiet /\ Running
      <3>1. run.pc \notin {"idle", "refused"}
        BY <2>2 DEF Running
      <3>2. QED
        BY <2>2, <3>1, RunOKMoves DEF RunOK
    <2>3. QED
      BY <1>14, <2>1, <2>2, OthersDo
  <1>15. CASE Next
    BY <1>2, <1>3, <1>4, <1>6, <1>7, <1>8, <1>9, <1>10, <1>11, <1>12, <1>13, <1>14,
       <1>15, NextCases DEF RunStep
  <1>16. QED
    BY <1>1, <1>15

LEMMA RunOKInit == Init => RunOK(run)
  <1> SUFFICES ASSUME Init PROVE RunOK(run)
    OBVIOUS
  <1>1. run.pc = "idle" /\ run.todo = {} /\ ~run.open /\ ~run.dry_run
    BY DEF Init
  <1>2. QED
    BY <1>1 DEF RunOK, Writing

-----------------------------------------------------------------------------
(* Nothing is damaged *)

(***************************************************************************)
(* Whatever other programs do between two system calls of a restore, no    *)
(* step of it changes the kind or the contents of anything that was there, *)
(* except the file it has open and, with --overwrite, selected files.      *)
(***************************************************************************)
THEOREM RestoreDamagesNothing == Spec => NeverDamages
  <1> DEFINE Spared(p) == \/ dest[p].kind = "none"
                          \/ run.open /\ IsNext(p)
                          \/ dest'[p].kind = dest[p].kind /\ dest'[p].data = dest[p].data
                          \/ /\ run.overwrite /\ p \in run.selected
                             /\ dest[p].kind = "file" /\ dest'[p].kind = "file"
  <1>1. ASSUME TypeOK, RunOK(run), RunStep, NEW q \in Paths
        PROVE  Spared(q)
    <2>1. CASE dest' = dest
      BY <2>1
    <2>2. ASSUME NEW p \in Paths, MakeDirs(p) PROVE Spared(q)
      BY <2>2, <2>1, <1>1, MakeDirsDoes DEF OnlyAt
    <2>3. ASSUME NEW p \in Paths, OpenFile(p) PROVE Spared(q)
      <3>1. p \in run.selected
        BY <1>1, <2>3, OpenFileDoes DEF RunOK, Writing, Plan
      <3>2. QED
        BY <2>3, <2>1, <3>1, <1>1, OpenFileDoes DEF OnlyAt
    <2>4. ASSUME NEW p \in Paths, WriteFile(p) PROVE Spared(q)
      BY <2>4, <2>1, <1>1, WriteFileDoes DEF OnlyAt, WriteFile
    <2>5. ASSUME NEW p \in Paths, MakeLink(p) PROVE Spared(q)
      BY <2>5, <2>1, <1>1, MakeLinkDoes DEF OnlyAt
    <2>6. ASSUME NEW p \in Paths, SetTime(p) PROVE Spared(q)
      BY <2>6, <1>1, SetTimeDoes
    <2>7. ASSUME \/ CheckDone \/ TimesDone
                 \/ \E p \in Paths : CheckEntry(p) \/ VerifyFile(p)
          PROVE  Spared(q)
      BY <1>1, <2>1, <2>7, CheckDoneDoes, TimesDoneDoes, CheckEntryDoes, VerifyFileDoes
    <2>8. QED
      BY <1>1, <2>2, <2>3, <2>4, <2>5, <2>6, <2>7 DEF RunStep
  <1>2. TypeOK /\ RunOK(run) =>
           [RunStep => \A p \in Paths : Spared(p)]_vars
    BY <1>1
  <1>3. Spec => [](TypeOK /\ RunOK(run))
    BY TypeInit, TypeStays, RunOKInit, RunOKStays, PTL DEF Spec
  <1>4. QED
    BY <1>2, <1>3, PTL DEF NeverDamages

-----------------------------------------------------------------------------
(* A restore that is alone in its destination *)

Alone == AloneOK(run, dest, before) /\ DataOK(dest)

LEMMA PlansContain ==
    ASSUME NEW s, NEW S
    PROVE  /\ TimePlan(s, S) \subseteq Plan(s, S)
           /\ Uncaptured(s, S, {"file", "dir"}) \subseteq TimePlan(s, S)
           /\ Uncaptured(s, S, {"file", "dir", "link"})
                = Uncaptured(s, S, {"link"}) \cup Uncaptured(s, S, {"file", "dir"})
           /\ Plan(s, S) \subseteq S
           /\ \A p \in Plan(s, S) : s[p].kind \in {"dir", "file", "link"}
           /\ \A p \in TimePlan(s, S) : s[p].kind \in {"dir", "file"}
           /\ \A p \in TimePlan(s, S) : ~s[p].time <=> p \in Uncaptured(s, S, {"file", "dir"})
  BY DEF TimePlan, Plan, Uncaptured

(* What SafeIn, Placed and Kept say depends on these only. *)
LEMMA RunIsTheSame ==
    ASSUME SameRun, NEW d, NEW p
    PROVE  /\ SafeIn(run', d, p) <=> SafeIn(run, d, p)
           /\ Placed(run', d, p) <=> Placed(run, d, p)
           /\ run'.todo = run.todo => (AtEntry(run', p) <=> AtEntry(run, p))
  BY DEF SafeIn, Placed, AtEntry, SameRun

(* The invariant of a restore that goes on writing. *)
LEMMA AloneWriting ==
    ASSUME TypeOK, Quiet, ~run.dry_run,
           run.warned = Uncaptured(run.snapshot, run.selected, {"link"}),
           NEW pc \in Writing, NEW todo, NEW open, Moves(pc, todo, open, run.warned),
           \A x \in todo : AtEntry(run', x) => EntryOK(run', dest', x),
           \A x \in todo : \/ SafeIn(run, dest', x)
                           \/ AtEntry(run', x) /\ pc \in {"write", "verify"},
           \A x \in Plan(run.snapshot, run.selected) : Placed(run, dest', x) \/ x \in todo,
           \A x \in Paths \ Plan(run.snapshot, run.selected) : Kept(dest', before, x)
    PROVE  AloneOK(run, dest, before)'
  <1>1. SameRun
    BY MovesOrGoes
  <1>2. /\ run'.pc = pc /\ run'.todo = todo /\ run'.warned = run.warned
        /\ run'.snapshot = run.snapshot /\ run'.selected = run.selected
        /\ run'.dry_run = run.dry_run /\ before' = before
    BY DEF Moves, Quiet
  <1>3. \A x \in todo : SafeIn(run', dest', x) \/ (AtEntry(run', x) /\ pc \in {"write", "verify"})
    BY <1>1, RunIsTheSame
  <1>4. \A x \in Plan(run.snapshot, run.selected) : Placed(run', dest', x) \/ x \in todo
    BY <1>1, RunIsTheSame
  <1>5. pc \notin {"failed", "check", "refused", "planned", "times", "done"}
    BY DEF Writing
  <1>6. QED
    BY <1>2, <1>3, <1>4, <1>5 DEF AloneOK

(* The same when it goes to the next entry or to the times. *)
LEMMA AloneGoes ==
    ASSUME TypeOK, RunOK(run), Quiet, ~run.dry_run,
           run.warned = Uncaptured(run.snapshot, run.selected, {"link"}),
           NEW T, T \subseteq Plan(run.snapshot, run.selected), Goes(T),
           \A x \in T : SafeIn(run, dest', x),
           \A x \in Plan(run.snapshot, run.selected) : Placed(run, dest', x) \/ x \in T,
           \A x \in Paths \ Plan(run.snapshot, run.selected) : Kept(dest', before, x)
    PROVE  AloneOK(run, dest, before)'
  <1>1. SameRun
    BY MovesOrGoes
  <1>2. CASE T # {} /\ Moves("mkdir", T, FALSE, run.warned)
    <2>1. \A x \in T : EntryOK(run', dest', x)
      BY <1>2 DEF EntryOK, Moves
    <2>2. QED
      BY <1>2, <2>1, AloneWriting DEF Writing
  <1>3. CASE /\ T = {}
             /\ Moves("times", TimePlan(run.snapshot, run.selected), FALSE, run.warned)
    <2>1. /\ run'.pc = "times" /\ run'.todo = TimePlan(run.snapshot, run.selected)
          /\ run'.warned = run.warned
          /\ run'.snapshot = run.snapshot /\ run'.selected = run.selected
          /\ run'.dry_run = run.dry_run /\ before' = before
      BY <1>3 DEF Moves, Quiet
    <2>2. \A x \in Plan(run.snapshot, run.selected) : Placed(run', dest', x)
      BY <1>1, <1>3, RunIsTheSame
    <2>3. run.warned = Uncaptured(run.snapshot, run.selected, {"link"})
             \cup (Uncaptured(run.snapshot, run.selected, {"file", "dir"})
                     \ TimePlan(run.snapshot, run.selected))
      BY PlansContain
    <2>4. QED
      BY <2>1, <2>2, <2>3 DEF AloneOK, Writing
  <1>4. QED
    BY <1>2, <1>3 DEF Goes

LEMMA DataOKStays ==
    ASSUME TypeOK, DataOK(dest), NEW p \in Paths, OnlyAt(p),
           dest'[p].kind # "file" => dest'[p].data = ""
    PROVE  DataOK(dest)'
  BY DEF DataOK, OnlyAt

(* Nothing has an entry below a file or a link. *)
LEMMA NothingBelow ==
    ASSUME TypeOK, ValidManifest(run.snapshot), NEW p \in Paths, NEW x \in Paths,
           run.snapshot[x].kind # "none", p \in Ancestors(x)
    PROVE  run.snapshot[p].kind \in {"none", "dir"}
  BY DEF ValidManifest

(* Writing a file or a link leaves all else as it is, checks included. *)
LEMMA Elsewhere ==
    ASSUME TypeOK, RunOK(run), run.pc \in Writing,
           NEW p \in Plan(run.snapshot, run.selected), OnlyAt(p),
           run.snapshot[p].kind \in {"file", "link"}
    PROVE  /\ \A x \in Plan(run.snapshot, run.selected) \ {p} :
                 /\ SafeIn(run, dest, x) => SafeIn(run, dest', x)
                 /\ Placed(run, dest, x) => Placed(run, dest', x)
           /\ \A x \in Paths \ Plan(run.snapshot, run.selected) :
                 Kept(dest, before, x) => Kept(dest', before, x)
  <1>1. /\ ValidManifest(run.snapshot)
        /\ Plan(run.snapshot, run.selected) \subseteq Paths
        /\ \A x \in Plan(run.snapshot, run.selected) : run.snapshot[x].kind # "none"
    BY PlansTyped, PlansContain DEF RunOK, Writing
  <1>2. ASSUME NEW x \in Plan(run.snapshot, run.selected) \ {p}
        PROVE  p \notin Ancestors(x)
    BY <1>1, <1>2, NothingBelow
  <1>3. ASSUME NEW x \in Plan(run.snapshot, run.selected) \ {p}
        PROVE  /\ SafeIn(run, dest, x) => SafeIn(run, dest', x)
               /\ Placed(run, dest, x) => Placed(run, dest', x)
    <2>1. /\ dest'[x].kind = dest[x].kind /\ dest'[x].data = dest[x].data
          /\ \A q \in Ancestors(x) : dest'[q].kind = dest[q].kind
      BY <1>1, <1>2, <1>3 DEF OnlyAt, Ancestors
    <2>2. QED
      BY <2>1 DEF SafeIn, Placed
  <1>4. ASSUME NEW x \in Paths \ Plan(run.snapshot, run.selected)
        PROVE  Kept(dest, before, x) => Kept(dest', before, x)
    BY <1>4 DEF OnlyAt, Kept
  <1>5. QED
    BY <1>3, <1>4

(* What the invariant gives while a restore is writing entry p. *)
LEMMA AtWriting ==
    ASSUME TypeOK, RunOK(run), Alone, run.pc \in Writing,
           NEW p \in Paths, p \in run.todo, AtEntry(run, p)
    PROVE  /\ run.warned = Uncaptured(run.snapshot, run.selected, {"link"})
           /\ ~run.dry_run /\ ValidManifest(run.snapshot)
           /\ run.todo \subseteq Plan(run.snapshot, run.selected)
           /\ p \in Plan(run.snapshot, run.selected)
           /\ EntryOK(run, dest, p)
           /\ run.pc \notin {"write", "verify"} => SafeIn(run, dest, p)
           /\ \A x \in run.todo \ {p} : SafeIn(run, dest, x)
           /\ \A x \in Plan(run.snapshot, run.selected) : Placed(run, dest, x) \/ x \in run.todo
           /\ \A x \in Paths \ Plan(run.snapshot, run.selected) : Kept(dest, before, x)
  <1>1. \A x \in run.todo : AtEntry(run, x) => x = p
    <2>1. run.todo \subseteq Paths
      BY DEF TypeOK, Run
    <2>2. QED
      BY <2>1, FirstIsOne DEF AtEntry
  <1>2. /\ run.warned = Uncaptured(run.snapshot, run.selected, {"link"})
        /\ EntryOK(run, dest, p)
        /\ run.pc \notin {"write", "verify"} => SafeIn(run, dest, p)
        /\ \A x \in run.todo : SafeIn(run, dest, x) \/ AtEntry(run, x)
        /\ \A x \in Plan(run.snapshot, run.selected) : Placed(run, dest, x) \/ x \in run.todo
        /\ \A x \in Paths \ Plan(run.snapshot, run.selected) : Kept(dest, before, x)
    BY DEF Alone, AloneOK
  <1>3. /\ ~run.dry_run /\ ValidManifest(run.snapshot)
        /\ run.todo \subseteq Plan(run.snapshot, run.selected)
    BY DEF RunOK, Writing
  <1>4. QED
    BY <1>1, <1>2, <1>3

LEMMA AloneBegin ==
    ASSUME TypeOK, Alone, BeginStep
    PROVE  Alone'
  <1>1. PICK s \in Given.snapshots, request \in Given.requests,
             overwrite \in BOOLEAN, dry_run \in BOOLEAN :
           Begin(s, request, overwrite, dry_run)
    BY DEF BeginStep
  <1>2. /\ dest' = dest /\ before' = dest
        /\ \/ /\ run'.pc = "check"
              /\ run'.todo = Plan(run'.snapshot, run'.selected)
              /\ run'.warned = Uncaptured(run'.snapshot, run'.selected, {"link"})
           \/ run'.pc = "refused"
    BY <1>1, BeginDoes
  <1>3. AloneOK(run, dest, before)'
    BY <1>2 DEF AloneOK, Writing
  <1>4. DataOK(dest)'
    BY <1>2 DEF Alone, DataOK
  <1>5. QED
    BY <1>3, <1>4 DEF Alone

LEMMA AloneCheckEntry ==
    ASSUME TypeOK, RunOK(run), Alone, NEW p \in Paths, CheckEntry(p)
    PROVE  Alone'
  <1>1. /\ run.pc = "check" /\ dest' = dest /\ before' = before /\ SameRun
        /\ \/ SafeIn(run, dest, p) /\ Moves("check", run.todo \ {p}, run.open, run.warned)
           \/ Moves("refused", {}, run.open, run.warned)
    BY CheckEntryDoes, MovesOrGoes DEF Quiet
  <1>2. CASE SafeIn(run, dest, p) /\ Moves("check", run.todo \ {p}, run.open, run.warned)
    <2>1. \A x \in Plan(run.snapshot, run.selected) :
             x \in run.todo \ {p} \/ SafeIn(run', dest', x)
      BY <1>1, <1>2, RunIsTheSame DEF Alone, AloneOK
    <2>2. dest = before /\ run.warned = Uncaptured(run.snapshot, run.selected, {"link"})
      BY <1>1 DEF Alone, AloneOK
    <2>3. QED
      BY <1>1, <1>2, <2>1, <2>2 DEF Alone, AloneOK, DataOK, Moves, Writing
  <1>3. CASE Moves("refused", {}, run.open, run.warned)
    <2>1. dest = before
      BY <1>1 DEF Alone, AloneOK
    <2>2. QED
      BY <1>1, <1>3, <2>1 DEF Alone, AloneOK, DataOK, Moves, Writing
  <1>4. QED
    BY <1>1, <1>2, <1>3

LEMMA AloneCheckDone ==
    ASSUME TypeOK, RunOK(run), Alone, CheckDone
    PROVE  Alone'
  <1>1. /\ run.pc = "check" /\ run.todo = {} /\ dest' = dest /\ Quiet /\ before' = before
        /\ dest = before /\ run.warned = Uncaptured(run.snapshot, run.selected, {"link"})
    BY CheckDoneDoes DEF Quiet, Alone, AloneOK
  <1>2. DataOK(dest)'
    BY <1>1 DEF Alone, DataOK
  <1>3. CASE /\ run.dry_run
             /\ Moves("planned", {}, run.open,
                      run.warned \cup Uncaptured(run.snapshot, run.selected, {"file", "dir"}))
    <2>1. run'.warned = Uncaptured(run'.snapshot, run'.selected, {"file", "dir", "link"})
      BY <1>1, <1>3, PlansContain DEF Moves
    <2>2. AloneOK(run, dest, before)'
      BY <1>1, <1>3, <2>1 DEF AloneOK, Moves, Writing
    <2>3. QED
      BY <1>2, <2>2 DEF Alone
  <1>4. CASE ~run.dry_run /\ Goes(Plan(run.snapshot, run.selected))
    <2>1. \A x \in Plan(run.snapshot, run.selected) : SafeIn(run, dest', x)
      BY <1>1 DEF Alone, AloneOK
    <2>2. \A x \in Paths : Kept(dest', before, x)
      BY <1>1 DEF Kept
    <2>3. AloneOK(run, dest, before)'
      BY <1>1, <1>4, <2>1, <2>2, AloneGoes
    <2>4. QED
      BY <1>2, <2>3 DEF Alone
  <1>5. QED
    BY <1>3, <1>4, CheckDoneDoes

LEMMA AloneMakeDirs ==
    ASSUME TypeOK, RunOK(run), Alone, NEW p \in Paths, MakeDirs(p)
    PROVE  Alone'
  <1> DEFINE plan == Plan(run.snapshot, run.selected)
  <1>1. run.pc = "mkdir" /\ p \in run.todo /\ AtEntry(run, p) /\ Quiet /\ run.pc \in Writing
    BY MakeDirsDoes DEF Writing
  <1>2. /\ run.warned = Uncaptured(run.snapshot, run.selected, {"link"})
        /\ ~run.dry_run /\ ValidManifest(run.snapshot)
        /\ run.todo \subseteq plan /\ p \in plan /\ SafeIn(run, dest, p)
        /\ \A x \in run.todo : SafeIn(run, dest, x)
        /\ \A x \in plan : Placed(run, dest, x) \/ x \in run.todo
        /\ \A x \in Paths \ plan : Kept(dest, before, x)
    BY <1>1, AtWriting
  <1>3. /\ plan \subseteq Paths
        /\ \A x \in plan : run.snapshot[x].kind \in {"dir", "file", "link"}
    BY PlansTyped, PlansContain
  <1> HIDE DEF plan
  <1>4. Wanted(p) \subseteq Paths /\ \A q \in Wanted(p) : dest[q].kind \in {"none", "dir"}
    BY <1>2 DEF Wanted, SafeIn, IsKind, Ancestors
  <1>5. ASSUME NEW q \in Wanted(p), dest[q].kind = "none", OnlyAt(q),
               dest'[q].kind = "dir", dest'[q].data = "", run' = run
        PROVE  Alone'
    <2>1. q \in Paths
      BY <1>4
    <2>2. run.snapshot[q].kind \in {"none", "dir"}
      <3>1. run.snapshot[p].kind # "none"
        BY <1>2, <1>3
      <3>2. CASE q \in Ancestors(p)
        BY <1>2, <2>1, <3>1, <3>2, NothingBelow
      <3>3. CASE IsKind(p, "dir") /\ q = p
        BY <3>3 DEF IsKind
      <3>4. QED
        BY <3>2, <3>3 DEF Wanted
    <2>3. \A x \in run.todo : SafeIn(run, dest', x)
      <3>1. ASSUME NEW x \in run.todo PROVE SafeIn(run, dest', x)
        <4>1. x \in Paths /\ run.snapshot[x].kind \in {"dir", "file", "link"}
              /\ SafeIn(run, dest, x)
          BY <1>2, <1>3
        <4>2. \A y \in Ancestors(x) : dest'[y].kind \in {"none", "dir"}
          BY <1>5, <4>1 DEF SafeIn, OnlyAt, Ancestors
        <4>3. CASE x = q
          BY <1>5, <2>2, <4>1, <4>2, <4>3 DEF SafeIn
        <4>4. CASE x # q
          BY <1>5, <4>1, <4>2, <4>4 DEF SafeIn, OnlyAt
        <4>5. QED
          BY <4>3, <4>4
      <3>2. QED
        BY <3>1
    <2>4. \A x \in plan : Placed(run, dest', x) \/ x \in run.todo
      BY <1>2, <1>3, <1>5 DEF Placed, OnlyAt
    <2>5. \A x \in Paths \ plan : Kept(dest', before, x)
      BY <1>2, <1>5 DEF Kept, OnlyAt
    <2>6. \A x \in run.todo : EntryOK(run', dest', x)
      BY <1>1, <1>5 DEF EntryOK
    <2>7. Moves("mkdir", run.todo, run.open, run.warned)
      BY <1>1, <1>5 DEF Moves, TypeOK
    <2>8. AloneOK(run, dest, before)'
      BY <1>1, <1>2, <2>3, <2>4, <2>5, <2>6, <2>7, AloneWriting DEF plan, Writing
    <2>9. DataOK(dest)'
      BY <1>5, <2>1, DataOKStays DEF Alone
    <2>10. QED
      BY <2>8, <2>9 DEF Alone
  <1>6. ASSUME \A q \in Wanted(p) : dest[q].kind = "dir", dest' = dest
        PROVE  /\ run.snapshot[p].kind = "dir" /\ Goes(run.todo \ {p}) => Alone'
               /\ run.snapshot[p].kind = "file" /\ Does("open") => Alone'
               /\ run.snapshot[p].kind = "link" /\ Does("link") => Alone'
    <2>1. DataOK(dest)'
      BY <1>6 DEF Alone, DataOK
    <2>2. ASSUME run.snapshot[p].kind = "dir", Goes(run.todo \ {p}) PROVE Alone'
      <3>1. Placed(run, dest, p)
        <4>1. dest[p].kind = "dir"
          BY <1>6, <2>2 DEF Wanted, IsKind
        <4>2. dest[p].data = ""
          BY <4>1 DEF Alone, DataOK
        <4>3. run.snapshot[p].data = ""
          BY <1>2, <2>2 DEF ValidManifest
        <4>4. QED
          BY <2>2, <4>1, <4>2, <4>3 DEF Placed
      <3>2. AloneOK(run, dest, before)'
        BY <1>1, <1>2, <1>6, <2>2, <3>1, AloneGoes DEF plan
      <3>3. QED
        BY <2>1, <3>2 DEF Alone
    <2>3. p = <<>> \/ dest[Front(p)].kind = "dir"
      BY <1>6, FrontIsAncestor DEF Wanted
    <2>4. ASSUME NEW pc \in {"open", "link"}, Does(pc),
                 pc = "open" => run.snapshot[p].kind = "file",
                 pc = "link" => run.snapshot[p].kind = "link"
          PROVE  Alone'
      <3>1. SameRun /\ run'.pc = pc /\ run'.todo = run.todo
            /\ Moves(pc, run.todo, run.open, run.warned)
        BY <2>4, MovesOrGoes DEF Does, Moves
      <3>2. EntryOK(run', dest', p)
        BY <1>6, <2>3, <2>4, <3>1 DEF EntryOK, SameRun
      <3>3. \A x \in run.todo : AtEntry(run', x) => x = p
        BY <1>1, <1>2, <1>3, <3>1, RunIsTheSame, FirstIsOne DEF AtEntry
      <3>4. AloneOK(run, dest, before)'
        BY <1>1, <1>2, <1>6, <2>4, <3>1, <3>2, <3>3, AloneWriting DEF plan, Writing
      <3>5. QED
        BY <2>1, <3>4 DEF Alone
    <2>5. QED
      BY <2>2, <2>4
  <1>7. run.snapshot[p].kind \in {"dir", "file", "link"}
    BY <1>2, <1>3
  <1>8. QED
    BY <1>4, <1>5, <1>6, <1>7, MakeDirsDoes

LEMMA AloneOpenFile ==
    ASSUME TypeOK, RunOK(run), Alone, NEW p \in Paths, OpenFile(p)
    PROVE  Alone'
  <1> DEFINE plan == Plan(run.snapshot, run.selected)
  <1>1. run.pc = "open" /\ p \in run.todo /\ AtEntry(run, p) /\ Quiet /\ run.pc \in Writing
    BY OpenFileDoes DEF Writing
  <1>2. /\ run.warned = Uncaptured(run.snapshot, run.selected, {"link"})
        /\ ~run.dry_run /\ run.todo \subseteq plan /\ p \in plan
        /\ EntryOK(run, dest, p) /\ SafeIn(run, dest, p)
        /\ \A x \in run.todo \ {p} : SafeIn(run, dest, x)
        /\ \A x \in plan : Placed(run, dest, x) \/ x \in run.todo
        /\ \A x \in Paths \ plan : Kept(dest, before, x)
    BY <1>1, AtWriting
  <1>3. plan \subseteq Paths
    BY PlansTyped
  <1>4. /\ run.snapshot[p].kind = "file" /\ Inside(p)
        /\ dest[p].kind = "none" \/ (dest[p].kind = "file" /\ run.overwrite)
    BY <1>1, <1>2 DEF EntryOK, SafeIn, Inside
  <1>5. /\ OnlyAt(p) /\ dest'[p].kind = "file"
        /\ Moves("write", run.todo, TRUE, run.warned)
    BY <1>4, OpenFileDoes
  <1>6. /\ \A x \in plan \ {p} : /\ SafeIn(run, dest, x) => SafeIn(run, dest', x)
                                 /\ Placed(run, dest, x) => Placed(run, dest', x)
        /\ \A x \in Paths \ plan : Kept(dest, before, x) => Kept(dest', before, x)
    BY <1>1, <1>2, <1>4, <1>5, Elsewhere
  <1> HIDE DEF plan
  <1>7. SameRun /\ run'.pc = "write" /\ run'.todo = run.todo /\ run'.open
    BY <1>5, MovesOrGoes DEF Moves
  <1>8. EntryOK(run', dest', p)
    BY <1>4, <1>5, <1>7 DEF EntryOK, SameRun
  <1>9. (\A x \in run.todo : AtEntry(run', x) => x = p) /\ AtEntry(run', p)
    BY <1>1, <1>2, <1>3, <1>7, RunIsTheSame, FirstIsOne DEF AtEntry
  <1>10. \A x \in run.todo : \/ SafeIn(run, dest', x)
                             \/ AtEntry(run', x) /\ "write" \in {"write", "verify"}
    BY <1>2, <1>6, <1>9
  <1>11. \A x \in plan : Placed(run, dest', x) \/ x \in run.todo
    BY <1>1, <1>2, <1>6
  <1>12. \A x \in Paths \ plan : Kept(dest', before, x)
    BY <1>2, <1>6
  <1>13. AloneOK(run, dest, before)'
    BY <1>1, <1>2, <1>5, <1>8, <1>9, <1>10, <1>11, <1>12, AloneWriting DEF plan, Writing
  <1>14. DataOK(dest)'
    BY <1>5, DataOKStays DEF Alone
  <1>15. QED
    BY <1>13, <1>14 DEF Alone

LEMMA AloneWriteFile ==
    ASSUME TypeOK, RunOK(run), Alone, NEW p \in Paths, WriteFile(p)
    PROVE  Alone'
  <1> DEFINE plan == Plan(run.snapshot, run.selected)
  <1>1. run.pc = "write" /\ p \in run.todo /\ AtEntry(run, p) /\ Quiet /\ run.pc \in Writing
    BY WriteFileDoes DEF Writing
  <1>2. /\ run.warned = Uncaptured(run.snapshot, run.selected, {"link"})
        /\ ~run.dry_run /\ run.todo \subseteq plan /\ p \in plan
        /\ EntryOK(run, dest, p)
        /\ \A x \in run.todo \ {p} : SafeIn(run, dest, x)
        /\ \A x \in plan : Placed(run, dest, x) \/ x \in run.todo
        /\ \A x \in Paths \ plan : Kept(dest, before, x)
    BY <1>1, AtWriting
  <1>3. plan \subseteq Paths
    BY PlansTyped
  <1>4. run.snapshot[p].kind = "file" /\ run.open /\ dest[p].kind = "file"
    BY <1>1, <1>2 DEF EntryOK
  <1>5. /\ OnlyAt(p) /\ dest'[p].kind = "file" /\ dest'[p].data = run.snapshot[p].data
        /\ Moves("verify", run.todo, FALSE, run.warned)
    BY <1>4, WriteFileDoes
  <1>6. /\ \A x \in plan \ {p} : /\ SafeIn(run, dest, x) => SafeIn(run, dest', x)
                                 /\ Placed(run, dest, x) => Placed(run, dest', x)
        /\ \A x \in Paths \ plan : Kept(dest, before, x) => Kept(dest', before, x)
    BY <1>1, <1>2, <1>4, <1>5, Elsewhere
  <1> HIDE DEF plan
  <1>7. SameRun /\ run'.pc = "verify" /\ run'.todo = run.todo
    BY <1>5, MovesOrGoes DEF Moves
  <1>8. EntryOK(run', dest', p)
    BY <1>4, <1>5, <1>7 DEF EntryOK, SameRun, Placed
  <1>9. (\A x \in run.todo : AtEntry(run', x) => x = p) /\ AtEntry(run', p)
    BY <1>1, <1>2, <1>3, <1>7, RunIsTheSame, FirstIsOne DEF AtEntry
  <1>10. \A x \in run.todo : \/ SafeIn(run, dest', x)
                             \/ AtEntry(run', x) /\ "verify" \in {"write", "verify"}
    BY <1>2, <1>6, <1>9
  <1>11. \A x \in plan : Placed(run, dest', x) \/ x \in run.todo
    BY <1>1, <1>2, <1>6
  <1>12. \A x \in Paths \ plan : Kept(dest', before, x)
    BY <1>2, <1>6
  <1>13. AloneOK(run, dest, before)'
    BY <1>1, <1>2, <1>5, <1>8, <1>9, <1>10, <1>11, <1>12, AloneWriting DEF plan, Writing
  <1>14. DataOK(dest)'
    BY <1>5, DataOKStays DEF Alone
  <1>15. QED
    BY <1>13, <1>14 DEF Alone

LEMMA AloneVerifyFile ==
    ASSUME TypeOK, RunOK(run), Alone, NEW p \in Paths, VerifyFile(p)
    PROVE  Alone'
  <1>1. /\ run.pc = "verify" /\ p \in run.todo /\ AtEntry(run, p) /\ Quiet
        /\ run.pc \in Writing /\ dest' = dest
    BY VerifyFileDoes DEF Writing
  <1>2. /\ run.warned = Uncaptured(run.snapshot, run.selected, {"link"})
        /\ ~run.dry_run /\ run.todo \subseteq Plan(run.snapshot, run.selected)
        /\ EntryOK(run, dest, p)
        /\ \A x \in run.todo \ {p} : SafeIn(run, dest, x)
        /\ \A x \in Plan(run.snapshot, run.selected) : Placed(run, dest, x) \/ x \in run.todo
        /\ \A x \in Paths \ Plan(run.snapshot, run.selected) : Kept(dest, before, x)
    BY <1>1, AtWriting
  <1>3. Placed(run, dest, p) /\ run.snapshot[p].kind = "file"
    BY <1>1, <1>2 DEF EntryOK
  <1>4. Goes(run.todo \ {p})
    BY <1>3, VerifyFileDoes DEF Placed
  <1>5. AloneOK(run, dest, before)'
    BY <1>1, <1>2, <1>3, <1>4, AloneGoes
  <1>6. DataOK(dest)'
    BY <1>1 DEF Alone, DataOK
  <1>7. QED
    BY <1>5, <1>6 DEF Alone

LEMMA AloneMakeLink ==
    ASSUME TypeOK, RunOK(run), Alone, NEW p \in Paths, MakeLink(p)
    PROVE  Alone'
  <1> DEFINE plan == Plan(run.snapshot, run.selected)
  <1>1. run.pc = "link" /\ p \in run.todo /\ AtEntry(run, p) /\ Quiet /\ run.pc \in Writing
    BY MakeLinkDoes DEF Writing
  <1>2. /\ run.warned = Uncaptured(run.snapshot, run.selected, {"link"})
        /\ ~run.dry_run /\ ValidManifest(run.snapshot)
        /\ run.todo \subseteq plan /\ p \in plan
        /\ EntryOK(run, dest, p) /\ SafeIn(run, dest, p)
        /\ \A x \in run.todo \ {p} : SafeIn(run, dest, x)
        /\ \A x \in plan : Placed(run, dest, x) \/ x \in run.todo
        /\ \A x \in Paths \ plan : Kept(dest, before, x)
    BY <1>1, AtWriting
  <1>3. run.snapshot[p].kind = "link" /\ Inside(p) /\ dest[p].kind = "none"
    BY <1>1, <1>2 DEF EntryOK, SafeIn, Inside
  <1>4. /\ OnlyAt(p) /\ dest'[p].kind = "link" /\ dest'[p].data = ""
        /\ Goes(run.todo \ {p})
    BY <1>3, MakeLinkDoes
  <1>5. /\ \A x \in plan \ {p} : /\ SafeIn(run, dest, x) => SafeIn(run, dest', x)
                                 /\ Placed(run, dest, x) => Placed(run, dest', x)
        /\ \A x \in Paths \ plan : Kept(dest, before, x) => Kept(dest', before, x)
    BY <1>1, <1>2, <1>3, <1>4, Elsewhere
  <1>6. Placed(run, dest', p)
    <2>1. run.snapshot[p].data = ""
      BY <1>2, <1>3 DEF ValidManifest
    <2>2. QED
      BY <1>3, <1>4, <2>1 DEF Placed
  <1> HIDE DEF plan
  <1>7. \A x \in run.todo \ {p} : SafeIn(run, dest', x)
    BY <1>2, <1>5
  <1>8. \A x \in plan : Placed(run, dest', x) \/ x \in run.todo \ {p}
    BY <1>2, <1>5, <1>6
  <1>9. \A x \in Paths \ plan : Kept(dest', before, x)
    BY <1>2, <1>5
  <1>10. AloneOK(run, dest, before)'
    BY <1>1, <1>2, <1>4, <1>7, <1>8, <1>9, AloneGoes DEF plan
  <1>11. DataOK(dest)'
    BY <1>4, DataOKStays DEF Alone
  <1>12. QED
    BY <1>10, <1>11 DEF Alone

LEMMA AloneSetTime ==
    ASSUME TypeOK, RunOK(run), Alone, NEW p \in Paths, SetTime(p)
    PROVE  Alone'
  <1> DEFINE plan == Plan(run.snapshot, run.selected)
             timed == TimePlan(run.snapshot, run.selected)
             links == Uncaptured(run.snapshot, run.selected, {"link"})
             others == Uncaptured(run.snapshot, run.selected, {"file", "dir"})
  <1>1. /\ run.pc = "times" /\ p \in run.todo /\ Quiet /\ ~run.dry_run
        /\ p \in timed /\ p \in plan /\ plan \subseteq Paths /\ timed \subseteq plan
    BY SetTimeDoes, PlansContain, PlansTyped DEF RunOK
  <1>2. /\ \A x \in plan : Placed(run, dest, x)
        /\ \A x \in Paths \ plan : Kept(dest, before, x)
        /\ run.warned = links \cup (others \ run.todo)
        /\ \A x \in timed : x \in run.todo \/ ~run.snapshot[x].time \/ dest[x].time = "captured"
    BY <1>1 DEF Alone, AloneOK
  <1>3. Openable(p)
    BY <1>1, <1>2, PlansContain DEF Openable, Placed, IsKind
  <1>4. /\ \A q \in Paths : dest'[q].kind = dest[q].kind /\ dest'[q].data = dest[q].data
        /\ \A q \in Paths : q # p => dest'[q].time = dest[q].time
        /\ \/ /\ run.snapshot[p].time /\ dest'[p].time = "captured"
              /\ Moves("times", run.todo \ {p}, run.open, run.warned)
           \/ /\ ~run.snapshot[p].time
              /\ Moves("times", run.todo \ {p}, run.open, run.warned \cup {p})
    BY <1>3, SetTimeDoes
  <1>5. SameRun
    BY <1>4, MovesOrGoes
  <1>6. ~run.snapshot[p].time <=> p \in others
    BY <1>1, PlansContain
  <1> HIDE DEF plan, timed, links, others
  <1>7. \A x \in plan : Placed(run', dest', x)
    BY <1>1, <1>2, <1>4, <1>5, RunIsTheSame DEF Placed
  <1>8. \A x \in Paths \ plan : Kept(dest', before, x)
    BY <1>2, <1>4 DEF Kept
  <1>9. run'.pc = "times" /\ run'.todo = run.todo \ {p} /\ before' = before
        /\ run'.warned = links \cup (others \ (run.todo \ {p}))
    BY <1>1, <1>2, <1>4, <1>6 DEF Moves, Quiet
  <1>10. \A x \in timed : \/ x \in run.todo \ {p} \/ ~run.snapshot[x].time
                          \/ dest'[x].time = "captured"
    BY <1>1, <1>2, <1>4
  <1>11. AloneOK(run, dest, before)'
    BY <1>1, <1>5, <1>7, <1>8, <1>9, <1>10
       DEF AloneOK, SameRun, Writing, plan, timed, links, others
  <1>12. DataOK(dest)'
    BY <1>4 DEF Alone, DataOK
  <1>13. QED
    BY <1>11, <1>12 DEF Alone

LEMMA AloneTimesDone ==
    ASSUME TypeOK, RunOK(run), Alone, TimesDone
    PROVE  Alone'
  <1>1. /\ run.pc = "times" /\ run.todo = {} /\ dest' = dest /\ before' = before
        /\ SameRun /\ run'.pc = "done" /\ run'.todo = {} /\ run'.warned = run.warned
        /\ ~run.dry_run
    BY TimesDoneDoes, MovesOrGoes DEF Quiet, Does, Moves, RunOK
  <1>2. \A x \in Plan(run.snapshot, run.selected) : Placed(run', dest', x)
    BY <1>1, RunIsTheSame DEF Alone, AloneOK
  <1>3. run.warned = Uncaptured(run.snapshot, run.selected, {"file", "dir", "link"})
    <2>1. run.warned = Uncaptured(run.snapshot, run.selected, {"link"})
             \cup (Uncaptured(run.snapshot, run.selected, {"file", "dir"}) \ run.todo)
      BY <1>1 DEF Alone, AloneOK
    <2>2. QED
      BY <1>1, <2>1, PlansContain
  <1>4. /\ \A x \in Paths \ Plan(run.snapshot, run.selected) : Kept(dest, before, x)
        /\ \A x \in TimePlan(run.snapshot, run.selected) :
              ~run.snapshot[x].time \/ dest[x].time = "captured"
    BY <1>1 DEF Alone, AloneOK
  <1>5. AloneOK(run, dest, before)'
    BY <1>1, <1>2, <1>3, <1>4 DEF AloneOK, SameRun, Writing
  <1>6. DataOK(dest)'
    BY <1>1 DEF Alone, DataOK
  <1>7. QED
    BY <1>5, <1>6 DEF Alone

LEMMA AloneKill ==
    ASSUME TypeOK, RunOK(run), Alone, Kill
    PROVE  Alone'
  <1>1. /\ dest' = dest /\ before' = before /\ run'.pc = "killed"
        /\ run'.dry_run = run.dry_run
    BY KillDoes DEF Quiet, Moves
  <1>2. AloneOK(run, dest, before)'
    BY <1>1 DEF Alone, AloneOK, Writing
  <1>3. DataOK(dest)'
    BY <1>1 DEF Alone, DataOK
  <1>4. QED
    BY <1>2, <1>3 DEF Alone

-----------------------------------------------------------------------------
(* The invariant of the properties about one restore *)

OneInv ==
    /\ TypeOK
    /\ RunOK(run)
    /\ ~Given.busy => Alone

LEMMA OneInit == Init => OneInv
  <1> SUFFICES ASSUME Init PROVE OneInv
    OBVIOUS
  <1>1. TypeOK /\ RunOK(run)
    BY TypeInit, RunOKInit
  <1>2. run.pc = "idle" /\ run.todo = {} /\ ~run.dry_run
    BY DEF Init
  <1>3. AloneOK(run, dest, before)
    BY <1>2 DEF AloneOK, Writing
  <1>4. DataOK(dest)
    <2>1. setup \in DOMAIN Setups /\ dest \in Setups[setup].destinations
      BY DEF Init, Given
    <2>2. \A p \in Paths : dest[p].kind # "file" => dest[p].data = ""
      BY <2>1, RestoreAssumption
    <2>3. QED
      BY <2>2 DEF DataOK
  <1>5. QED
    BY <1>1, <1>3, <1>4 DEF OneInv, Alone

LEMMA OneStays == OneInv /\ [Next]_vars => OneInv'
  <1> SUFFICES ASSUME OneInv, [Next]_vars PROVE OneInv'
    OBVIOUS
  <1>1. TypeOK /\ RunOK(run) /\ TypeOK' /\ RunOK(run)'
    BY TypeStays, RunOKStays DEF OneInv
  <1>2. setup' = setup /\ (Given.busy <=> Given.busy')
    BY NextCases DEF vars, Given
  <1>3. ASSUME ~Given.busy PROVE Alone'
    <2>1. Alone
      BY <1>3 DEF OneInv
    <2>2. CASE UNCHANGED vars
      BY <2>1, <2>2 DEF Alone, AloneOK, DataOK, vars
    <2>3. CASE Next
      <3>1. ~OthersStep
        BY <1>1, <1>3, OthersDo
      <3>2. CASE BeginStep
        BY <1>1, <2>1, <3>2, AloneBegin
      <3>3. CASE RunStep
        BY <1>1, <2>1, <3>3, AloneCheckDone, AloneTimesDone, AloneCheckEntry, AloneMakeDirs,
           AloneOpenFile, AloneWriteFile, AloneVerifyFile, AloneMakeLink, AloneSetTime
           DEF RunStep
      <3>4. CASE Kill
        BY <1>1, <2>1, <3>4, AloneKill
      <3>5. QED
        BY <2>3, <3>1, <3>2, <3>3, <3>4, NextCases
    <2>4. QED
      BY <2>2, <2>3
  <1>4. QED
    BY <1>1, <1>2, <1>3 DEF OneInv

LEMMA OneAlways == Spec => []OneInv
  <1>1. QED
    BY OneInit, OneStays, PTL DEF Spec

-----------------------------------------------------------------------------
(* Theorems about one restore *)

(***************************************************************************)
(* A restore that passed its checks never fails at a write, when it is     *)
(* alone in the destination: no entry of the manifest is in the way of     *)
(* another one, for any manifest, selection and destination.               *)
(***************************************************************************)
THEOREM ChecksSuffice == Spec => []PreflightSuffices
  <1>1. OneInv => PreflightSuffices
    BY DEF OneInv, Alone, AloneOK, PreflightSuffices
  <1>2. QED
    BY <1>1, OneAlways, PTL

(***************************************************************************)
(* A refused restore and a dry run leave the destination as it was.        *)
(***************************************************************************)
THEOREM RefusalsAreHarmless == Spec => []RefusalChangesNothing
  <1>1. OneInv => RefusalChangesNothing
    BY DEF OneInv, Alone, AloneOK, RefusalChangesNothing
  <1>2. QED
    BY <1>1, OneAlways, PTL

(***************************************************************************)
(* A restore that reports success has put every selected entry in place    *)
(* with its contents and its captured time, has changed nothing else, and  *)
(* has warned of exactly the entries whose metadata was not captured.      *)
(***************************************************************************)
THEOREM SuccessMeansRestored == Spec => []RestoredAsAsked
  <1>1. OneInv => RestoredAsAsked
    <2> SUFFICES ASSUME OneInv, ~Given.busy, run.pc \in {"done", "planned"}
                 PROVE  /\ run.pc = "done" => \A p \in Paths : Restored(p)
                        /\ run.warned = Uncaptured(run.snapshot, run.selected,
                                                   {"file", "dir", "link"})
      BY DEF RestoredAsAsked
    <2>1. TypeOK /\ RunOK(run) /\ AloneOK(run, dest, before) /\ DataOK(dest)
      BY DEF OneInv, Alone
    <2>2. run.warned = Uncaptured(run.snapshot, run.selected, {"file", "dir", "link"})
      BY <2>1 DEF AloneOK
    <2>3. ASSUME run.pc = "done", NEW p \in Paths PROVE Restored(p)
      <3> DEFINE e == run.snapshot[p]
      <3>1. run.todo = {}
        BY <2>1, <2>3 DEF RunOK, Writing
      <3>2. /\ \A x \in Plan(run.snapshot, run.selected) : Placed(run, dest, x)
            /\ \A x \in Paths \ Plan(run.snapshot, run.selected) : Kept(dest, before, x)
            /\ \A x \in TimePlan(run.snapshot, run.selected) :
                  ~run.snapshot[x].time \/ dest[x].time = "captured"
        BY <2>1, <2>3, <3>1 DEF AloneOK, Writing
      <3>3. CASE p \in run.selected /\ e.kind \in {"dir", "file"}
        <4>1. Placed(run, dest, p)
          BY <3>2, <3>3 DEF Plan
        <4>2. ~e.time => p \in run.warned
          BY <2>2, <3>3 DEF Uncaptured
        <4>3. e.time => dest[p].time = "captured"
          BY <3>2, <3>3 DEF TimePlan
        <4>4. ~(e.kind = "link")
          BY <3>3
        <4>5. QED
          BY <3>3, <4>1, <4>2, <4>3, <4>4 DEF Restored, Placed
      <3>4. CASE p \in run.selected /\ e.kind = "link" /\ e.time
        <4>1. Placed(run, dest, p)
          BY <3>2, <3>4 DEF Plan
        <4>2. QED
          BY <3>4, <4>1 DEF Restored, Placed
      <3>5. CASE /\ ~(p \in run.selected /\ e.kind \in {"dir", "file"})
                 /\ ~(p \in run.selected /\ e.kind = "link" /\ e.time)
        <4>1. Kept(dest, before, p)
          BY <3>2, <3>5 DEF Plan
        <4>2. QED
          BY <3>5, <4>1 DEF Restored, Kept
      <3>6. QED
        BY <3>3, <3>4, <3>5
    <2>4. QED
      BY <2>2, <2>3
  <1>2. QED
    BY <1>1, OneAlways, PTL

(***************************************************************************)
(* ls and restore agree on a snapshot, whatever it has and whatever was    *)
(* asked for.                                                              *)
(***************************************************************************)
THEOREM ListingsAgreeWithRestores == Spec => []ListedIsRestored
  <1>1. OneInv => ListedIsRestored
    <2> SUFFICES ASSUME OneInv, ~Given.busy, run.pc = "done"
                 PROVE  ListedIsRestored
      BY DEF ListedIsRestored
    <2> DEFINE s == run.snapshot
    <2>1. TypeOK /\ RunOK(run) /\ AloneOK(run, dest, before)
      BY DEF OneInv, Alone
    <2>2. /\ run.todo = {} /\ ValidManifest(s) /\ run.selected \subseteq Paths
          /\ \A q \in run.selected, p \in Paths :
                IsPrefix(q, p) /\ s[p].kind # "none" => p \in run.selected
          /\ \A p \in run.selected : s[p].kind # "none"
      BY <2>1 DEF RunOK, Writing, TypeOK, Run
    <2>3. /\ \A x \in Plan(s, run.selected) : Placed(run, dest, x)
          /\ run.warned = Uncaptured(s, run.selected, {"file", "dir", "link"})
      BY <2>1, <2>2 DEF AloneOK, Writing
    <2>4. \A p \in Paths : Normalize(p) = p
      BY NormalAssumption
    <2>5. \A p \in Paths \ {<<>>} : Front(p) \in Paths /\ Front(p) \in Ancestors(p)
      BY RestoreAssumption, FrontIsAncestor
    <2>6. s \in [Paths -> Entry]
      BY <2>1 DEF TypeOK
    <2>7. ASSUME NEW p \in run.selected \ {<<>>},
                 Front(p) = <<>> \/ s[Front(p)].kind # "none"
          PROVE  ListEntries(s, Front(p)).found /\ p \in ListEntries(s, Front(p)).entries
      <3>1. Normalize(Front(p)) = Front(p)
        BY <2>2, <2>4, <2>5
      <3>2. Front(p) = <<>> \/ s[Front(p)].kind = "dir"
        BY <2>2, <2>5, <2>7 DEF ValidManifest
      <3>3. QED
        BY <2>2, <2>7, <3>1, <3>2 DEF ListEntries
    <2>8. ASSUME NEW q \in run.selected, NEW p \in ListEntries(s, q).entries
          PROVE  \/ dest[p].kind = s[p].kind
                 \/ s[p].kind = "other" \/ (s[p].kind = "link" /\ p \in run.warned)
      <3>1. Normalize(q) = q
        BY <2>2, <2>4
      <3>2. p \in Paths /\ s[p].kind # "none" /\ (p = q \/ (p # <<>> /\ Front(p) = q))
        BY <2>2, <2>8, <3>1 DEF ListEntries
      <3>3. p \in run.selected
        BY <2>2, <2>5, <2>8, <3>2 DEF Ancestors, IsStrictPrefix
      <3>4. s[p].kind \in {"dir", "file", "link", "other"}
        BY <2>6, <3>2 DEF Entry, Kinds
      <3>5. CASE p \in Plan(s, run.selected)
        BY <2>3, <3>5 DEF Placed
      <3>6. CASE s[p].kind = "link" /\ ~s[p].time
        BY <2>3, <3>3, <3>6 DEF Uncaptured
      <3>7. QED
        BY <3>3, <3>4, <3>5, <3>6 DEF Plan
    <2>9. ASSUME NEW lost \in {"unsupported", "denied"},
                 NEW others \in SUBSET {"captured", "unsupported", "denied"}
          PROVE  MetadataStatus({lost} \cup others) # "complete"
      BY <2>9 DEF MetadataStatus
    <2>10. QED
      BY <2>7, <2>8, <2>9 DEF ListedIsRestored
  <1>2. QED
    BY <1>1, OneAlways, PTL

-----------------------------------------------------------------------------
(* Restores that are killed and repeated *)

RepeatInv ==
    /\ runs <= Given.max_runs
    /\ run.pc # "idle" => run.snapshot \in Given.snapshots
    /\ ~Given.busy /\ runs <= 1 => PartialOK(run, dest)
    /\ Given.max_runs > 1 => TreeOK(run, dest)

(* What RepeatAssumption says of this behaviour. *)
LEMMA RepeatsAre ==
    ASSUME TypeOK, Given.max_runs > 1
    PROVE  /\ ~Given.busy /\ Given.requests \subseteq {{}} /\ Trees(Given) # {}
           /\ \A s \in Given.snapshots : ValidManifest(s)
  BY RepeatAssumption DEF TypeOK, Given

LEMMA NoPartial ==
    ASSUME PartialOK(run, dest), run.pc \notin {"write", "killed"}
    PROVE  \A p \in Paths : dest[p].data # "partial"
  BY DEF PartialOK

LEMMA PartialStays ==
    ASSUME OneInv, ~Given.busy, runs' <= 1, PartialOK(run, dest), [Next]_vars
    PROVE  PartialOK(run, dest)'
  <1>1. TypeOK /\ RunOK(run) /\ Alone /\ AloneOK(run, dest, before)
    BY DEF OneInv, Alone
  <1>2. ASSUME \A p \in Paths : dest'[p].data # "partial"
        PROVE  PartialOK(run, dest)'
    BY <1>2 DEF PartialOK
  <1>3. ASSUME run.pc \notin {"write", "killed"}, dest' = dest
        PROVE  PartialOK(run, dest)'
    BY <1>2, <1>3, NoPartial
  <1>4. CASE UNCHANGED vars
    BY <1>4 DEF PartialOK, AtEntry, First, vars
  <1>5. CASE BeginStep
    <2>1. runs' = runs + 1 /\ dest' = dest
      BY <1>1, <1>5, BeginDoes DEF BeginStep
    <2>2. run.pc = "idle"
      <3>1. runs = 0
        BY <1>1, <2>1 DEF TypeOK
      <3>2. QED
        BY <1>1, <3>1 DEF RunOK
    <2>3. QED
      BY <1>3, <2>1, <2>2
  <1>6. CASE CheckDone \/ TimesDone
    BY <1>1, <1>3, <1>6, CheckDoneDoes, TimesDoneDoes
  <1>7. ASSUME NEW p \in Paths, CheckEntry(p) \/ VerifyFile(p) PROVE PartialOK(run, dest)'
    BY <1>1, <1>3, <1>7, CheckEntryDoes, VerifyFileDoes
  <1>8. ASSUME NEW p \in Paths, MakeDirs(p) PROVE PartialOK(run, dest)'
    <2>1. \A x \in Paths : dest[x].data # "partial"
      BY <1>1, <1>8, MakeDirsDoes, NoPartial
    <2>2. CASE dest' = dest
      BY <1>2, <2>1, <2>2
    <2>3. CASE \E q \in Wanted(p) : OnlyAt(q) /\ dest'[q].data = ""
      BY <1>2, <2>1, <2>3 DEF OnlyAt
    <2>4. QED
      BY <1>1, <1>8, <2>2, <2>3, MakeDirsDoes
  <1>9. ASSUME NEW p \in Paths, OpenFile(p) PROVE PartialOK(run, dest)'
    <2>1. run.pc = "open" /\ p \in run.todo /\ AtEntry(run, p)
      BY <1>1, <1>9, OpenFileDoes
    <2>2. \A x \in Paths : dest[x].data # "partial"
      BY <2>1, NoPartial
    <2>3. CASE dest' = dest
      BY <1>2, <2>2, <2>3
    <2>4. CASE OnlyAt(p) /\ Moves("write", run.todo, TRUE, run.warned)
      <3>1. \A x \in Paths : dest'[x].data = "partial" => x = p
        BY <2>2, <2>4 DEF OnlyAt
      <3>2. p \in run.selected
        BY <1>1, <2>1 DEF RunOK, Writing, Plan
      <3>3. run'.pc = "write" /\ run'.selected = run.selected /\ AtEntry(run', p)
        BY <2>1, <2>4 DEF Moves, AtEntry
      <3>4. QED
        BY <3>1, <3>2, <3>3 DEF PartialOK, AtEntry
    <2>5. QED
      BY <1>1, <1>9, <2>3, <2>4, OpenFileDoes
  <1>10. ASSUME NEW p \in Paths, WriteFile(p) PROVE PartialOK(run, dest)'
    <2>1. run.pc = "write" /\ p \in run.todo /\ AtEntry(run, p) /\ run.pc \in Writing
      BY <1>1, <1>10, WriteFileDoes DEF Writing
    <2>2. run.open
      BY <1>1, <2>1, AtWriting DEF EntryOK
    <2>3. OnlyAt(p) /\ dest'[p].data = run.snapshot[p].data
      BY <1>1, <1>10, <2>2, WriteFileDoes
    <2>4. run.snapshot[p].data # "partial"
      BY <1>1, <2>1 DEF TypeOK, Entry
    <2>5. \A x \in Paths : dest[x].data = "partial" => x = p
      BY <2>1, FirstIsOne DEF PartialOK, AtEntry
    <2>6. QED
      BY <1>2, <2>3, <2>4, <2>5 DEF OnlyAt
  <1>11. ASSUME NEW p \in Paths, MakeLink(p) PROVE PartialOK(run, dest)'
    <2>1. \A x \in Paths : dest[x].data # "partial"
      BY <1>1, <1>11, MakeLinkDoes, NoPartial
    <2>2. CASE dest' = dest
      BY <1>2, <2>1, <2>2
    <2>3. CASE OnlyAt(p) /\ dest'[p].data = ""
      BY <1>2, <2>1, <2>3 DEF OnlyAt
    <2>4. QED
      BY <1>1, <1>11, <2>2, <2>3, MakeLinkDoes
  <1>12. ASSUME NEW p \in Paths, SetTime(p) PROVE PartialOK(run, dest)'
    <2>1. \A x \in Paths : dest[x].data # "partial"
      BY <1>1, <1>12, SetTimeDoes, NoPartial
    <2>2. QED
      BY <1>1, <1>2, <1>12, <2>1, SetTimeDoes
  <1>13. CASE Kill
    <2>1. dest' = dest /\ run'.pc = "killed" /\ run'.selected = run.selected
      BY <1>1, <1>13, KillDoes DEF Moves
    <2>2. QED
      BY <2>1 DEF PartialOK
  <1>14. CASE RunStep
    BY <1>6, <1>7, <1>8, <1>9, <1>10, <1>11, <1>12, <1>14 DEF RunStep
  <1>15. ~OthersStep
    BY <1>1, OthersDo
  <1>16. QED
    BY <1>4, <1>5, <1>13, <1>14, <1>15, NextCases

(* A restore that is running, as the tree of its snapshot has it. *)
LEMMA InTree ==
    ASSUME OneInv, RepeatInv, Given.max_runs > 1, run.pc # "idle",
           NEW tree \in Trees(Given), NEW p \in Plan(run.snapshot, run.selected)
    PROVE  /\ p \in Paths /\ tree[p] = run.snapshot[p].kind
           /\ \A q \in Ancestors(p) : q \in Paths /\ tree[q] = "dir"
           /\ \A q \in Paths : dest[q].kind \in {"none", tree[q]}
  <1>1. p \in Paths /\ run.snapshot[p].kind \in {"dir", "file", "link"}
    BY PlansTyped, PlansContain DEF OneInv
  <1>2. run.snapshot[p].kind \in {"none", tree[p]}
    BY <1>1 DEF RepeatInv, Trees
  <1>3. tree[p] = run.snapshot[p].kind /\ tree[p] # "none"
    BY <1>1, <1>2
  <1>4. \A q \in Ancestors(p) : tree[q] = "dir"
    BY <1>1, <1>3 DEF Trees
  <1>5. \A q \in Paths : dest[q].kind \in {"none", tree[q]}
    BY DEF RepeatInv, TreeOK
  <1>6. QED
    BY <1>1, <1>3, <1>4, <1>5 DEF Ancestors

LEMMA TreeStays ==
    ASSUME OneInv, RepeatInv, Given.max_runs > 1, [Next]_vars
    PROVE  TreeOK(run, dest)'
  <1>1. TypeOK /\ RunOK(run) /\ Alone /\ ~Given.busy /\ TreeOK(run, dest)
    BY RepeatsAre DEF OneInv, RepeatInv
  <1>2. setup' = setup /\ Given' = Given
    BY NextCases DEF vars, Given
  <1>3. ASSUME run'.pc # "refused",
               \A tree \in Trees(Given), p \in Paths : dest'[p].kind \in {"none", tree[p]}
        PROVE  TreeOK(run, dest)'
    BY <1>2, <1>3 DEF TreeOK
  <1>4. \A tree \in Trees(Given), p \in Paths : dest[p].kind \in {"none", tree[p]}
    BY <1>1 DEF TreeOK
  <1>5. CASE UNCHANGED vars
    BY <1>1, <1>2, <1>5 DEF TreeOK, vars
  <1>6. CASE BeginStep
    <2>1. PICK s \in Given.snapshots, request \in Given.requests,
               overwrite \in BOOLEAN, dry_run \in BOOLEAN :
             Begin(s, request, overwrite, dry_run)
      BY <1>6 DEF BeginStep
    <2>2. request = {} /\ ValidManifest(s)
      BY <1>1, RepeatsAre
    <2>3. Accepted(s, request)
      BY <2>2 DEF Accepted, RequestExists, Asked
    <2>4. dest' = dest /\ run'.pc = "check"
      BY <1>1, <2>1, <2>3, BeginDoes
    <2>5. QED
      BY <1>3, <1>4, <2>4
  <1>7. CASE CheckDone \/ TimesDone
    <2>1. dest' = dest /\ run'.pc # "refused"
      BY <1>1, <1>7, CheckDoneDoes, TimesDoneDoes DEF Moves, Goes, Does
    <2>2. QED
      BY <1>3, <1>4, <2>1
  <1>8. ASSUME NEW p \in Paths, CheckEntry(p) PROVE TreeOK(run, dest)'
    <2>1. run.pc = "check" /\ dest' = dest /\ p \in Plan(run.snapshot, run.selected)
      BY <1>1, <1>8, CheckEntryDoes DEF RunOK
    <2>2. CASE SafeIn(run, dest, p) /\ Moves("check", run.todo \ {p}, run.open, run.warned)
      BY <1>3, <1>4, <2>1, <2>2 DEF Moves
    <2>3. CASE ~SafeIn(run, dest, p) /\ Moves("refused", {}, run.open, run.warned)
      <3>1. PICK tree : tree \in Trees(Given)
        BY <1>1, RepeatsAre
      <3>2. /\ tree[p] = run.snapshot[p].kind
            /\ \A q \in Ancestors(p) : dest[q].kind \in {"none", "dir"}
            /\ dest[p].kind \in {"none", run.snapshot[p].kind}
        BY <2>1, <3>1, InTree
      <3>3. run.snapshot[p].kind \in {"dir", "file", "link"}
        BY <2>1, PlansContain
      <3>4. run.overwrite => dest[p].kind = "link"
        BY <2>3, <3>2, <3>3 DEF SafeIn
      <3>5. QED
        BY <1>2, <1>4, <2>1, <2>3, <3>4 DEF TreeOK, Moves
    <2>4. QED
      BY <1>1, <1>8, <2>2, <2>3, CheckEntryDoes
  <1>9. ASSUME NEW p \in Paths, VerifyFile(p) PROVE TreeOK(run, dest)'
    <2>1. dest' = dest /\ run'.pc # "refused"
      BY <1>1, <1>9, VerifyFileDoes DEF Moves, Goes
    <2>2. QED
      BY <1>3, <1>4, <2>1
  <1>10. ASSUME run.pc \in Writing, NEW p \in Paths, p \in run.todo, AtEntry(run, p)
         PROVE  /\ p \in Plan(run.snapshot, run.selected) /\ run.pc # "idle"
                /\ EntryOK(run, dest, p)
    BY <1>1, <1>10, AtWriting DEF Writing
  <1>11. ASSUME NEW p \in Paths, MakeDirs(p) PROVE TreeOK(run, dest)'
    <2>1. /\ run.pc = "mkdir" /\ run'.pc # "refused"
          /\ p \in Plan(run.snapshot, run.selected)
      BY <1>1, <1>10, <1>11, MakeDirsDoes DEF Moves, Goes, Does, Writing
    <2>2. CASE dest' = dest
      BY <1>3, <1>4, <2>1, <2>2
    <2>3. ASSUME NEW q \in Wanted(p), OnlyAt(q), dest'[q].kind = "dir"
          PROVE  TreeOK(run, dest)'
      <3>1. ASSUME NEW tree \in Trees(Given), NEW x \in Paths
            PROVE  dest'[x].kind \in {"none", tree[x]}
        <4>1. tree[q] = "dir"
          BY <2>1, <3>1, InTree DEF Wanted, IsKind
        <4>2. QED
          BY <1>4, <2>3, <4>1 DEF OnlyAt
      <3>2. QED
        BY <1>3, <2>1, <3>1
    <2>4. QED
      BY <1>1, <1>11, <2>2, <2>3, MakeDirsDoes
  <1>12. ASSUME NEW p \in Paths, run.pc # "idle", run'.pc # "refused", OnlyAt(p),
                p \in Plan(run.snapshot, run.selected),
                dest'[p].kind \in {dest[p].kind, run.snapshot[p].kind}
         PROVE  TreeOK(run, dest)'
    <2>1. ASSUME NEW tree \in Trees(Given), NEW x \in Paths
          PROVE  dest'[x].kind \in {"none", tree[x]}
      <3>1. tree[p] = run.snapshot[p].kind
        BY <1>12, <2>1, InTree
      <3>2. QED
        BY <1>4, <1>12, <3>1 DEF OnlyAt
    <2>2. QED
      BY <1>3, <1>12, <2>1
  <1>13. ASSUME NEW p \in Paths, OpenFile(p) PROVE TreeOK(run, dest)'
    <2>1. /\ run.pc = "open" /\ run'.pc # "refused" /\ EntryOK(run, dest, p)
          /\ p \in Plan(run.snapshot, run.selected)
      BY <1>1, <1>10, <1>13, OpenFileDoes DEF Moves, Writing
    <2>2. run.snapshot[p].kind = "file"
      BY <2>1 DEF EntryOK
    <2>3. CASE dest' = dest
      BY <1>3, <1>4, <2>1, <2>3
    <2>4. CASE OnlyAt(p) /\ dest'[p].kind = "file"
      BY <1>12, <2>1, <2>2, <2>4
    <2>5. QED
      BY <1>1, <1>13, <2>3, <2>4, OpenFileDoes
  <1>14. ASSUME NEW p \in Paths, WriteFile(p) PROVE TreeOK(run, dest)'
    <2>1. /\ run.pc = "write" /\ run'.pc # "refused"
          /\ p \in Plan(run.snapshot, run.selected)
      BY <1>1, <1>10, <1>14, WriteFileDoes DEF Moves, Writing
    <2>2. CASE ~run.open
      BY <1>1, <1>3, <1>4, <1>14, <2>1, <2>2, WriteFileDoes
    <2>3. CASE run.open
      BY <1>1, <1>12, <1>14, <2>1, <2>3, WriteFileDoes
    <2>4. QED
      BY <2>2, <2>3
  <1>15. ASSUME NEW p \in Paths, MakeLink(p) PROVE TreeOK(run, dest)'
    <2>1. /\ run.pc = "link" /\ run'.pc # "refused" /\ EntryOK(run, dest, p)
          /\ p \in Plan(run.snapshot, run.selected)
      BY <1>1, <1>10, <1>15, MakeLinkDoes DEF Moves, Goes, Writing
    <2>2. run.snapshot[p].kind = "link"
      BY <2>1 DEF EntryOK
    <2>3. CASE dest' = dest
      BY <1>3, <1>4, <2>1, <2>3
    <2>4. CASE OnlyAt(p) /\ dest'[p].kind = "link"
      BY <1>12, <2>1, <2>2, <2>4
    <2>5. QED
      BY <1>1, <1>15, <2>3, <2>4, MakeLinkDoes
  <1>16. ASSUME NEW p \in Paths, SetTime(p) PROVE TreeOK(run, dest)'
    <2>1. /\ run'.pc # "refused"
          /\ \A x \in Paths : dest'[x].kind = dest[x].kind
      BY <1>1, <1>16, SetTimeDoes DEF Moves
    <2>2. QED
      BY <1>3, <1>4, <2>1
  <1>17. CASE Kill
    <2>1. dest' = dest /\ run'.pc # "refused"
      BY <1>1, <1>17, KillDoes DEF Moves
    <2>2. QED
      BY <1>3, <1>4, <2>1
  <1>18. CASE RunStep
    BY <1>7, <1>8, <1>9, <1>11, <1>13, <1>14, <1>15, <1>16, <1>18 DEF RunStep
  <1>19. ~OthersStep
    BY <1>1, OthersDo
  <1>20. QED
    BY <1>5, <1>6, <1>17, <1>18, <1>19, NextCases

LEMMA RepeatInit == Init => RepeatInv
  <1> SUFFICES ASSUME Init PROVE RepeatInv
    OBVIOUS
  <1>1. run.pc = "idle" /\ ~run.overwrite /\ runs = 0
    BY DEF Init
  <1>2. setup \in DOMAIN Setups /\ dest \in Setups[setup].destinations
    BY DEF Init, Given
  <1>3. Given.max_runs \in Nat
    BY <1>2, RestoreAssumption DEF Given
  <1>4. \A p \in Paths : dest[p].data # "partial"
    BY <1>2, RestoreAssumption
  <1>5. PartialOK(run, dest)
    BY <1>4 DEF PartialOK
  <1>6. TreeOK(run, dest)
    <2>1. ASSUME NEW tree \in Trees(Given), NEW p \in Paths
          PROVE  dest[p].kind \in {"none", tree[p]}
      BY <1>2, <2>1 DEF Trees, Given
    <2>2. QED
      BY <1>1, <2>1 DEF TreeOK
  <1>7. QED
    BY <1>1, <1>3, <1>5, <1>6 DEF RepeatInv

LEMMA RepeatStays == OneInv /\ RepeatInv /\ [Next]_vars => RepeatInv'
  <1> SUFFICES ASSUME OneInv, RepeatInv, [Next]_vars PROVE RepeatInv'
    OBVIOUS
  <1>1. TypeOK
    BY DEF OneInv
  <1>2. setup' = setup /\ Given' = Given
    BY NextCases DEF vars, Given
  <1>3. Given.max_runs \in Nat
    BY <1>1, RestoreAssumption DEF Given, TypeOK
  <1>4. /\ runs' <= Given.max_runs /\ runs <= runs'
        /\ run'.pc # "idle" => run'.snapshot \in Given.snapshots
    <2>1. CASE UNCHANGED vars
      BY <1>1, <2>1 DEF vars, RepeatInv, TypeOK
    <2>2. CASE BeginStep
      <3>1. MayBegin /\ runs' = runs + 1 /\ run'.snapshot \in Given.snapshots
        BY <1>1, <2>2, BeginDoes DEF BeginStep
      <3>2. QED
        BY <1>1, <1>3, <3>1 DEF MayBegin, TypeOK
    <2>3. CASE RunStep \/ Kill \/ OthersStep
      <3>1. Quiet /\ SameRun /\ run.pc # "idle"
        BY <1>1, <2>3, RunStepDoes, KillDoes, OthersDo, MovesOrGoes DEF Running
      <3>2. QED
        BY <1>1, <3>1 DEF Quiet, SameRun, RepeatInv, TypeOK
    <2>4. QED
      BY <2>1, <2>2, <2>3, NextCases
  <1>5. ASSUME ~Given.busy, runs' <= 1 PROVE PartialOK(run, dest)'
    <2>1. runs \in Nat /\ runs' \in Nat
      BY <1>1, TypeStays DEF TypeOK
    <2>2. runs <= 1
      BY <1>4, <1>5, <2>1
    <2>3. QED
      BY <1>5, <2>2, PartialStays DEF RepeatInv
  <1>6. Given.max_runs > 1 => TreeOK(run, dest)'
    BY TreeStays
  <1>7. QED
    BY <1>2, <1>4, <1>5, <1>6 DEF RepeatInv

(***************************************************************************)
(* A killed restore leaves at most one file half-written, a selected one,  *)
(* and where restores of a tree to a destination of its own are repeated   *)
(* with --overwrite, only a link the first one made refuses them, for any  *)
(* tree and any number of kills.                                           *)
(***************************************************************************)
THEOREM KilledRestoresRepeat == Spec => []KilledCanBeRepeated
  <1>1. OneInv /\ RepeatInv => KilledCanBeRepeated
    <2> SUFFICES ASSUME OneInv, RepeatInv PROVE KilledCanBeRepeated
      OBVIOUS
    <2>1. TypeOK /\ Given.max_runs \in Nat
      BY RestoreAssumption DEF OneInv, TypeOK, Given
    <2>2. ASSUME ~Given.busy, runs = 1, NEW p \in Paths, NEW q \in Paths,
                 dest[p].data = "partial", dest[q].data = "partial"
          PROVE  p = q /\ p \in run.selected
      <3>1. PartialOK(run, dest)
        BY <2>2 DEF RepeatInv
      <3>2. QED
        BY <2>2, <3>1 DEF PartialOK
    <2>3. ASSUME runs > 1, run.pc = "refused", run.overwrite
          PROVE  \E p \in Paths : dest[p].kind = "link"
      <3>1. Given.max_runs > 1
        BY <2>1, <2>3 DEF RepeatInv, TypeOK
      <3>2. QED
        BY <2>3, <3>1 DEF RepeatInv, TreeOK
    <2>4. QED
      BY <2>2, <2>3 DEF KilledCanBeRepeated
  <1>2. Spec => [](OneInv /\ RepeatInv)
    BY OneInit, OneStays, RepeatInit, RepeatStays, PTL DEF Spec
  <1>3. QED
    BY <1>1, <1>2, PTL
=============================================================================
