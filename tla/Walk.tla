-------------------------------- MODULE Walk --------------------------------
(***************************************************************************)
(* SourceWalker::walk: the entries of a snapshot, captured breadth first   *)
(* from one or more roots while other programs change the source tree, and *)
(* validate_snapshot_manifest, which every reader of the snapshot applies  *)
(* to them.  Sizes and chunks are those of module Backup.                  *)
(*                                                                         *)
(* A path is a sequence of names; a root is a path too.  Directories are   *)
(* listed in one step, as the walker sorts what it has read before it goes *)
(* on; metadata is captured one entry at a time.                           *)
(***************************************************************************)
EXTENDS Exclusion, FiniteSets, SequencesExt

CONSTANTS
    Order,          \* all paths, sorted
    Setups          \* set of [roots, patterns, tree, max]: the SOURCE arguments,
                    \* the exclusion patterns, what the source holds at first,
                    \* and a bound on the changes by other programs

Paths == {Order[i] : i \in DOMAIN Order}
Kinds == {"none", "dir", "file", "link", "other"}

Below(p, q) == IsStrictPrefix(p, q)
Children(p) == {q \in Paths : Below(p, q) /\ Len(q) = Len(p) + 1}

(* What is above a path is a path, and a directory if
   there is something at the path. *)
ASSUME WalkAssumption ==
    /\ Order \in Seq(Seq(Seq(STRING)))
    /\ \A p \in Paths : \A n \in 1..Len(p) : SubSeq(p, 1, n) \in Paths
    /\ \A given \in Setups :
          /\ given.roots \in Seq(Paths) /\ given.roots # <<>>
          /\ given.patterns \in Seq(Seq(STRING))
          /\ given.tree \in [Paths -> Kinds]
          /\ \A p, q \in Paths :
                Below(p, q) /\ given.tree[q] # "none" => given.tree[p] = "dir"
          /\ given.max \in Nat

VARIABLES
    setup,          \* the setup of this behaviour
    rules,          \* the exclusion rules made of its patterns
    tree,           \* path -> kind of what is there now
    touched,        \* history: the paths other programs changed, in order
    walk            \* local state of walk and walk_root

walkVars == <<setup, rules, tree, touched, walk>>

(* strip_prefix *)
Relative(root, p) == SubSeq(p, Len(root) + 1, Len(p))

Entry == [path : {Relative(r, p) : r, p \in Paths}, kind : Kinds \ {"none"}]

WalkState ==
    [pc       : {"root", "directory", "child", "done", "failed"},
     roots    : Seq(Paths),     \* roots left; the first is being walked
     pending  : Seq(Paths),     \* directories to list
     children : SUBSET Paths,   \* of the directory just listed, not visited yet
     entries  : Seq(Entry)]

WalkInit ==
    /\ setup \in Setups
    /\ rules = [i \in DOMAIN setup.patterns |-> Rule(setup.patterns[i])]
    /\ tree = setup.tree
    /\ touched = <<>>
    /\ walk = [pc |-> "root", roots |-> setup.roots, pending |-> <<>>, children |-> {},
               entries |-> <<>>]

-----------------------------------------------------------------------------
(* Other programs *)

(* Something appears at p, is replaced, or goes with all that is below it. *)
Change(p, kind) ==
    /\ Len(touched) < setup.max
    /\ kind # tree[p]
    /\ \A q \in Paths : Below(q, p) => tree[q] = "dir"
    /\ tree' = [q \in Paths |-> IF q = p THEN kind
                                ELSE IF Below(p, q) THEN "none" ELSE tree[q]]
    /\ touched' = Append(touched, p)
    /\ UNCHANGED <<setup, rules, walk>>

-----------------------------------------------------------------------------
(* The walk *)

Root == Head(walk.roots)

(* The system follows a link above p to wherever it leads. *)
Redirected(p) == \E q \in Paths : Below(q, p) /\ tree[q] = "link"

(* What capture_metadata may see at p: the link itself, if p is one. *)
Captures(p) == IF Redirected(p) THEN Kinds ELSE {tree[p]}

(* What read_dir may list at p; it follows a link at p too. *)
Listings(p) ==
    IF Redirected(p) \/ tree[p] = "link" THEN SUBSET Children(p)
    ELSE {{q \in Children(p) : tree[q] # "none"}}

(* read_dir fails on what is not a directory, or not there any more. *)
Listable(p) == Redirected(p) \/ tree[p] \in {"dir", "link"}

(* SourceWalker::is_excluded *)
Excluded(path) == \E i \in DOMAIN rules : Matches(rules[i], path)

Failed ==
    [pc |-> "failed", roots |-> <<>>, pending |-> <<>>, children |-> {}, entries |-> walk.entries]

(* The next child, the next directory, the next root, or the end. *)
NextIn(pending, children, entries) ==
    LET over == children = {} /\ pending = <<>> IN
    [pc       |-> IF children # {} THEN "child"
                  ELSE IF pending # <<>> THEN "directory"
                  ELSE IF Tail(walk.roots) # <<>> THEN "root" ELSE "done",
     roots    |-> IF over THEN Tail(walk.roots) ELSE walk.roots,
     pending  |-> pending,
     children |-> children,
     entries  |-> entries]

(* Mutant of Captured: names are relative to the directory, not to the root. *)
CapturedName(p, kind) == [path |-> IF p = Root THEN <<>> ELSE <<Last(p)>>, kind |-> kind]

Captured(p, kind) == [path |-> Relative(Root, p), kind |-> kind]

Queued(pending, p, kind) == IF kind = "dir" THEN Append(pending, p) ELSE pending

(* A root that is gone, or was not given as an absolute path, fails the walk. *)
CaptureRoot ==
    /\ walk.pc = "root"
    /\ \E kind \in Captures(Root) :
          walk' = IF kind = "none" THEN Failed
                  ELSE NextIn(Queued(<<>>, Root, kind), {},
                              Append(walk.entries, Captured(Root, kind)))
    /\ UNCHANGED <<setup, rules, tree, touched>>

(* read_sorted_children *)
ReadDirectory ==
    LET directory == Head(walk.pending) IN
    /\ walk.pc = "directory"
    /\ \/ /\ Listable(directory)
          /\ \E S \in Listings(directory) : walk' = NextIn(Tail(walk.pending), S, walk.entries)
       \/ /\ ~Listable(directory) \/ Redirected(directory) \/ tree[directory] = "link"
          /\ walk' = Failed
    /\ UNCHANGED <<setup, rules, tree, touched>>

(* The first of the children that are left, in the order they are sorted to. *)
NextChild == Order[Min({i \in DOMAIN Order : Order[i] \in walk.children})]

(* Mutant of CaptureChild: an excluded directory is left out, its contents not. *)
CaptureChildDeep ==
    LET left == walk.children \ {NextChild} IN
    /\ walk.pc = "child"
    /\ \E kind \in Captures(NextChild) :
          walk' = IF kind = "none" THEN Failed
                  ELSE NextIn(Queued(walk.pending, NextChild, kind), left,
                              IF Excluded(Relative(Root, NextChild)) THEN walk.entries
                              ELSE Append(walk.entries, Captured(NextChild, kind)))
    /\ UNCHANGED <<setup, rules, tree, touched>>

(* Exclusion comes first; an entry that has gone fails the walk. *)
CaptureChild ==
    LET left == walk.children \ {NextChild} IN
    /\ walk.pc = "child"
    /\ IF Excluded(Relative(Root, NextChild))
       THEN walk' = NextIn(walk.pending, left, walk.entries)
       ELSE \E kind \in Captures(NextChild) :
               walk' = IF kind = "none" THEN Failed
                       ELSE NextIn(Queued(walk.pending, NextChild, kind), left,
                                   Append(walk.entries, Captured(NextChild, kind)))
    /\ UNCHANGED <<setup, rules, tree, touched>>

WalkNext ==
    \/ \E p \in Paths, kind \in Kinds : Change(p, kind)
    \/ CaptureRoot \/ ReadDirectory \/ CaptureChild

WalkSpec == WalkInit /\ [][WalkNext]_walkVars

-----------------------------------------------------------------------------
(* The manifest *)

(* validate_snapshot_manifest on the entries of the walk. *)
ValidEntries(entries) ==
    /\ \A i \in DOMAIN entries : entries[i].path = <<>> => entries[i].kind = "dir"
    /\ \A i, j \in DOMAIN entries : entries[i].path = entries[j].path => i = j
    /\ \A i, j \in DOMAIN entries :
          Below(entries[i].path, entries[j].path) => entries[i].kind = "dir"

-----------------------------------------------------------------------------
(* Properties *)

(***************************************************************************)
(* Readers accept what has been walked exactly when one root was captured  *)
(* and it was a directory, whatever other programs do to the tree between  *)
(* the capture of a directory, the listing of it and the capture of its    *)
(* children.  A second SOURCE, or one that is no directory, gives a        *)
(* manifest that validate_snapshot_manifest rejects.                       *)
(***************************************************************************)
OneDirectoryIsValid ==
    walk.entries # <<>> =>
        (ValidEntries(walk.entries) <=>
            /\ walk.entries[1].kind = "dir"
            /\ \A i \in DOMAIN walk.entries : walk.entries[i].path = <<>> => i = 1)

(* What a rule excludes as its pattern means it, or some path above it. *)
MeansOut(path) ==
    \E i \in DOMAIN rules, n \in DOMAIN path : Means(rules[i], SubSeq(path, 1, n))

(* Other programs changed neither p nor anything above it. *)
Untouched(p) == ~ \E i \in DOMAIN touched : IsPrefix(touched[i], p)

(***************************************************************************)
(* A walk that succeeds has everything below its roots that was there      *)
(* throughout and that no pattern means to exclude: an exclusion rule      *)
(* never takes a file out of the backup that its pattern does not mean,    *)
(* and changes elsewhere in the tree lose nothing.                         *)
(***************************************************************************)
WalkLosesNothing ==
    walk.pc = "done" =>
        \A r \in DOMAIN setup.roots : \A p \in Paths :
            LET root == setup.roots[r] IN
            /\ IsPrefix(root, p)
            /\ tree[p] # "none" /\ Untouched(p)
            /\ ~MeansOut(Relative(root, p))
            => \E i \in DOMAIN walk.entries :
                  walk.entries[i] = [path |-> Relative(root, p), kind |-> tree[p]]

(***************************************************************************)
(* Nothing at or below a path that a pattern means to exclude is ever in   *)
(* the snapshot, even when the pattern does not fit what is below and the  *)
(* tree changes during the walk, but for the paths that matches may miss.  *)
(***************************************************************************)
ExcludedIsPruned ==
    \A e \in DOMAIN walk.entries :
        LET path == walk.entries[e].path IN
        \A i \in DOMAIN rules, n \in DOMAIN path :
            Means(rules[i], SubSeq(path, 1, n)) => MayMiss(rules[i], SubSeq(path, 1, n))
=============================================================================
