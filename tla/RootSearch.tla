----------------------------- MODULE RootSearch -----------------------------
(***************************************************************************)
(* FindPtStalkRoot (parse/discover_root.go): the walk that looks for the   *)
(* one directory of a tree that holds a pt-stalk collection.               *)
(* filepath.WalkDir calls back for every entry in lexical order, a         *)
(* directory before what is in it; one action per callback.                *)
(***************************************************************************)
EXTENDS FileTree

VARIABLES
  opts,         \* FindPtStalkRootOptions: MaxDepth, MaxEntries, IncludeHidden
  unreadable,   \* directories that os.ReadDir cannot list
  pending,      \* entries WalkDir has listed and not called back for yet
  entries,      \* callbacks so far
  roots,        \* directories recognised so far
  found,        \* the answer: "searching", an error, or "root"
  flickered     \* history: directories that became unreadable meanwhile

searchVars == <<opts, unreadable, pending, entries, roots, found, flickered>>

Answers == {"root", "notAPtStalkDir", "multipleRoots", "pathError"}

SearchTypeOK ==
  /\ opts \in [depth : Nat, entries : Nat, hidden : BOOLEAN]
  /\ unreadable \cup pending \cup roots \cup flickered \subseteq Paths
  /\ entries \in 0 .. opts.entries
  /\ found \in Answers \cup {"none", "searching"}

\* The state before the walk, and the one it begins in.
SearchInit ==
  /\ pending = {} /\ entries = 0 /\ roots = {} /\ found = "none" /\ flickered = {}

SearchStart(options) ==
  /\ opts' = options
  /\ pending' = {Root}
  /\ found' = "searching"
  /\ UNCHANGED <<unreadable, entries, roots, flickered>>

\* LooksLikePtStalkRoot of a directory that can be listed.
LooksLikePtStalkRoot(d) == \E f \in Children(d) \cap Files : Last(f) \in Signals

\* p comes before q in the walk.
WalksBefore(p, q) ==
  \/ IsStrictPrefix(p, q)
  \/ \E n \in 1 .. Len(p) :
       n <= Len(q) /\ SubSeq(p, 1, n - 1) = SubSeq(q, 1, n - 1) /\ p[n] < q[n]

IsNext(p) == p \in pending /\ \A q \in pending \ {p} : WalksBefore(p, q)

\* The root's own name does not matter.
SkippedAsHidden(d) == d # Root /\ ~opts.hidden /\ Last(d) \in Hidden

\* Mutant of Descends: a recognised root is not searched for others.
DescendsUnlessRoot(d) == Len(d) < opts.depth /\ ~LooksLikePtStalkRoot(d)

Descends(d) == Len(d) < opts.depth

\* entries++ and the comparison: the callback after the last one that is
\* allowed ends the walk.
WithinCap == entries < opts.entries

\* Mutant of VisitFile: only directories count.
VisitFileUncounted(p) ==
  /\ found = "searching" /\ IsNext(p)
  /\ p \in Files
  /\ pending' = pending \ {p}
  /\ UNCHANGED <<opts, unreadable, entries, roots, found, flickered>>

VisitFile(p) ==
  /\ found = "searching" /\ IsNext(p) /\ WithinCap
  /\ p \in Files
  /\ entries' = entries + 1
  /\ pending' = pending \ {p}
  /\ UNCHANGED <<opts, unreadable, roots, found, flickered>>

\* Hidden, or LooksLikePtStalkRoot fails: SkipDir.
PruneDirectory(d) ==
  /\ found = "searching" /\ IsNext(d) /\ WithinCap
  /\ d \in dirs
  /\ SkippedAsHidden(d) \/ d \in unreadable
  /\ entries' = entries + 1
  /\ pending' = pending \ {d}
  /\ UNCHANGED <<opts, unreadable, roots, found, flickered>>

VisitDirectory(d) ==
  /\ found = "searching" /\ IsNext(d) /\ WithinCap
  /\ d \in dirs
  /\ ~SkippedAsHidden(d) /\ d \notin unreadable
  /\ entries' = entries + 1
  /\ roots' = IF LooksLikePtStalkRoot(d) THEN roots \cup {d} ELSE roots
  /\ \/ /\ pending' = (pending \ {d}) \cup (IF Descends(d) THEN Children(d) ELSE {})
        /\ UNCHANGED <<found, flickered>>
     \/ \* Permission is withdrawn before WalkDir lists the directory itself:
        \* a second callback, with the error.
        /\ Descends(d)
        /\ pending' = pending \ {d}
        /\ flickered' = flickered \cup {d}
        /\ found' = IF d = Root THEN "pathError" ELSE found
  /\ UNCHANGED <<opts, unreadable>>

\* What the roots found so far make of the search.
Outcome ==
  IF roots = {} THEN "notAPtStalkDir"
  ELSE IF \E d \in roots : roots = {d} THEN "root" ELSE "multipleRoots"

\* Nothing is left, or the cap on entries is reached: SkipAll.
EndSearch ==
  /\ found = "searching"
  /\ pending = {} \/ ~WithinCap
  /\ found' = Outcome
  /\ UNCHANGED <<opts, unreadable, pending, entries, roots, flickered>>

SearchNext ==
  \/ \E p \in pending : VisitFile(p) \/ PruneDirectory(p) \/ VisitDirectory(p)
  \/ EndSearch
-----------------------------------------------------------------------------
\* The directories that FindPtStalkRoot's contract is about: no deeper than
\* MaxDepth, reached through directories that are readable and not hidden.
Searchable(d) ==
  /\ Len(d) <= opts.depth
  /\ \A e \in Above(d) \cup {d} :
       e \notin unreadable /\ (e = Root \/ opts.hidden \/ Last(e) \notin Hidden)

\* The collections of the tree.
Collections == {d \in dirs : Searchable(d) /\ LooksLikePtStalkRoot(d)}

\* The entries a walk without a cap calls back for.
Walked ==
  {p \in dirs \cup Files : p # Root => Searchable(Front(p)) /\ Len(Front(p)) < opts.depth}

\* Whatever the walk has pruned, no collection is lost: it is recognised
\* already, or lies at or below an entry that is still to come, or below a
\* directory that became unreadable meanwhile; and what is recognised is one.
NoCollectionLost ==
  found # "none" /\ dirs # {} =>
    /\ roots \subseteq Collections
    /\ \A c \in Collections \ roots :
         (Above(c) \cup {c}) \cap pending # {} \/ Above(c) \cap flickered # {}

\* The walk ends with the collections among the first MaxEntries entries of
\* the tree in lexical order: the answer is a function of the tree, all of
\* them if the cap is not reached.
AnswerIsOfTheTree ==
  found \in Answers /\ found # "pathError" /\ dirs # {} /\ flickered = {} =>
    roots = {c \in Collections :
               Cardinality({p \in Walked : WalksBefore(p, c)}) < opts.entries}
=============================================================================
