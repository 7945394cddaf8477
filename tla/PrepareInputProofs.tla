------------------------- MODULE PrepareInputProofs -------------------------
(***************************************************************************)
(* Proofs about PrepareInput, for every tree, every archive and every      *)
(* limit.                                                                  *)
(***************************************************************************)
EXTENDS PrepareInput, SequenceTheorems, WellFoundedInduction, FiniteSetTheorems, TLAPS

(* Paths: what lies above a path, and what the paths above have in common. *)
\* A prefix of a path is a path, of the length asked for.
LEMMA PrefixTyped ==
  ASSUME NEW p \in Paths, NEW n \in 0 .. Len(p)
  PROVE  SubSeq(p, 1, n) \in Paths /\ Len(SubSeq(p, 1, n)) = n
<1>1. \A i \in 1 .. n : p[i] \in Names
  BY LenProperties, ElementOfSeq DEF Paths
<1>2. n \in Int /\ 1 \in Int /\ Len(p) \in Nat
  BY LenProperties DEF Paths
<1> QED
  BY <1>1, <1>2, SubSeqProperties DEF Paths

\* A prefix of a prefix is a prefix.
LEMMA PrefixOfPrefix ==
  ASSUME NEW p \in Paths, NEW n \in 0 .. Len(p), NEW m \in 0 .. n
  PROVE  SubSeq(SubSeq(p, 1, n), 1, m) = SubSeq(p, 1, m)
<1> DEFINE q == SubSeq(p, 1, n)
<1>1. Len(p) \in Nat /\ \A i \in 1 .. Len(p) : p[i] \in Names
  BY LenProperties, ElementOfSeq DEF Paths
<1>2. q \in Paths /\ Len(q) = n /\ \A i \in 1 .. n : q[i] = p[i]
  BY <1>1, PrefixTyped, SubSeqProperties DEF Paths
<1>3. SubSeq(q, 1, m) \in Paths /\ Len(SubSeq(q, 1, m)) = m
  BY <1>1, <1>2, PrefixTyped
<1>4. SubSeq(p, 1, m) \in Paths /\ Len(SubSeq(p, 1, m)) = m
  BY <1>1, PrefixTyped
<1>5. \A i \in 1 .. m : SubSeq(q, 1, m)[i] = q[i] /\ q[i] = p[i]
  <2>1. \A i \in 1 .. m : q[i] \in Names
    BY <1>1, <1>2
  <2> QED
    BY <1>1, <1>2, <2>1, SubSeqProperties
<1>6. \A i \in 1 .. m : SubSeq(p, 1, m)[i] = p[i]
  BY <1>1, SubSeqProperties
<1> QED
  BY <1>3, <1>4, <1>5, <1>6, SeqEqual DEF Paths

\* The root is at or above every path, and nothing is above it.
LEMMA RootIsAbove ==
  /\ Root \in Paths /\ Len(Root) = 0 /\ Above(Root) = {}
  /\ \A p \in Paths : Root \in Above(p) \cup {p}
<1>1. Root \in Paths /\ Len(Root) = 0
  BY EmptySeq DEF Root, Paths
<1>2. Above(Root) = {}
  BY <1>1 DEF Above
<1>3. ASSUME NEW p \in Paths PROVE Root \in Above(p) \cup {p}
  <2>1. CASE p = Root
    BY <2>1
  <2>2. CASE p # Root
    <3>1. Len(p) \in Nat \ {0}
      BY <2>2, EmptySeq DEF Root, Paths
    <3>2. SubSeq(p, 1, 0) = Root
      BY SubSeqEmpty DEF Root
    <3> QED
      BY <3>1, <3>2 DEF Above
  <2> QED
    BY <2>1, <2>2
<1> QED
  BY <1>1, <1>2, <1>3

\* What is above a path is a shorter path.
LEMMA AboveTyped ==
  ASSUME NEW p \in Paths
  PROVE  /\ Len(p) \in Nat
         /\ Above(p) \subseteq Paths
         /\ \A a \in Above(p) : Len(a) \in 0 .. Len(p) - 1
  BY PrefixTyped, LenProperties DEF Above, Paths

\* What is above something above a path is above the path.
LEMMA AboveIsClosed ==
  ASSUME NEW p \in Paths, NEW a \in Above(p)
  PROVE  Above(a) \subseteq Above(p)
<1>1. PICK n \in 0 .. Len(p) - 1 : a = SubSeq(p, 1, n)
  BY DEF Above
<1>2. Len(p) \in Nat /\ Len(a) = n
  BY <1>1, PrefixTyped, LenProperties DEF Paths
<1>3. ASSUME NEW m \in 0 .. n - 1 PROVE SubSeq(a, 1, m) = SubSeq(p, 1, m)
  BY <1>1, <1>2, PrefixOfPrefix
<1> QED
  BY <1>2, <1>3 DEF Above

\* The directory a path is in, and what is above that.
LEMMA FrontIsAbove ==
  ASSUME NEW p \in Paths, p # Root
  PROVE  /\ Front(p) \in Paths
         /\ Len(Front(p)) = Len(p) - 1
         /\ Len(p) \in Nat \ {0}
         /\ Above(p) = Above(Front(p)) \cup {Front(p)}
<1>1. Len(p) \in Nat \ {0}
  BY EmptySeq DEF Root, Paths
<1>2. Front(p) \in Paths /\ Len(Front(p)) = Len(p) - 1 /\ Front(p) \in Above(p)
  <2>1. Len(p) - 1 \in 0 .. Len(p) /\ Len(p) - 1 \in 0 .. Len(p) - 1
    BY <1>1
  <2>2. Front(p) \in Above(p)
    BY <2>1 DEF Front, Above
  <2> QED
    BY <2>1, <2>2, PrefixTyped DEF Front
<1>3. \A m \in 0 .. Len(p) - 2 : SubSeq(Front(p), 1, m) = SubSeq(p, 1, m)
  BY <1>1, PrefixOfPrefix DEF Front
<1>4. Above(Front(p)) \subseteq Above(p)
  BY <1>2, AboveIsClosed
<1>5. ASSUME NEW a \in Above(p) PROVE a \in Above(Front(p)) \cup {Front(p)}
  <2>1. PICK n \in 0 .. Len(p) - 1 : a = SubSeq(p, 1, n)
    BY DEF Above
  <2>2. CASE n = Len(p) - 1
    BY <2>1, <2>2 DEF Front
  <2>3. CASE n # Len(p) - 1
    BY <1>1, <1>2, <1>3, <2>1, <2>3 DEF Above
  <2> QED
    BY <2>2, <2>3
<1> QED
  BY <1>1, <1>2, <1>4, <1>5

\* Between a path and a directory above it there is an entry of that
\* directory, the path itself if there is no other.
LEMMA EntryOnTheWay ==
  ASSUME NEW c \in Paths, NEW d \in Above(c)
  PROVE  \E s \in Above(c) \cup {c} : s \in Paths /\ s # Root /\ Front(s) = d
<1>1. PICK n \in 0 .. Len(c) - 1 : d = SubSeq(c, 1, n)
  BY DEF Above
<1>2. Len(c) \in Nat
  BY LenProperties DEF Paths
<1> DEFINE s == SubSeq(c, 1, n + 1)
<1>3. s \in Paths /\ Len(s) = n + 1
  BY <1>2, PrefixTyped
<1>4. s # Root
  BY <1>3, RootIsAbove
<1>5. Front(s) = d
  BY <1>1, <1>2, <1>3, PrefixOfPrefix DEF Front
<1>6. s \in Above(c) \cup {c}
  <2>1. CASE n + 1 = Len(c)
    BY <2>1, SubSeqFull DEF Paths
  <2>2. CASE n + 1 # Len(c)
    BY <1>2, <2>2 DEF Above
  <2> QED
    BY <2>1, <2>2
<1> QED
  BY <1>3, <1>4, <1>5, <1>6
-----------------------------------------------------------------------------
(* The machines. *)

USE NameAssumption, LimitAssumption, OptionAssumption

\* The search has not begun, or not even the extraction.
Quiet ==
  /\ stage \in {"stat", "extract"} =>
       found = "none" /\ entries = 0 /\ pending = {} /\ roots = {} /\ flickered = {}
  /\ stage = "stat" => at = 1 /\ written = 0 /\ verdict = "none" /\ (IsArchive => Files = {})
  /\ ~IsArchive => verdict = "none" /\ stage # "extract"

TypeInv == TypeOK /\ Quiet

LEMMA TypeInit == Init => TypeInv
<1> SUFFICES ASSUME Init PROVE TypeInv
  OBVIOUS
<1>1. TreeOK
  <2>1. CASE \E t \in Trees : dirs = t.dirs /\ content = t.content
    BY <2>1, InputAssumption DEF TreeOK, Files
  <2>2. CASE dirs = {} /\ content = NoFiles
    BY <2>2 DEF TreeOK, Files, NoFiles
  <2> QED
    BY <2>1, <2>2 DEF Init
<1>2. ExtractTypeOK
  <2>1. format \in {"none", "zip", "tar", "gzip"} /\ archive \in Seq(Entries)
    <3>1. CASE format = "none" /\ archive = <<>>
      BY <3>1, EmptySeq
    <3>2. CASE \E a \in Archives : format = a.format /\ archive = a.entries
      BY <3>2, InputAssumption
    <3> QED
      BY <3>1, <3>2 DEF Init
  <2>2. Len(archive) \in Nat
    BY <2>1, LenProperties
  <2>3. at = 1 /\ written = 0 /\ verdict = "none" /\ fault \in BOOLEAN
    BY DEF Init, ExtractInit
  <2> QED
    BY <2>1, <2>2, <2>3 DEF ExtractTypeOK
<1>3. SearchTypeOK /\ Quiet
  <2>1. unreadable \subseteq Paths
    BY InputAssumption DEF Init
  <2> QED
    BY <2>1 DEF Init, SearchInit, ExtractInit, SearchTypeOK, Quiet, IsArchive, Files, NoFiles
<1> QED
  BY <1>1, <1>2, <1>3 DEF TypeInv, TypeOK, Init

\* With these directories and the files there are, the file system holds a tree.
IsTree(D) ==
  /\ D \in SUBSET Paths
  /\ D \cap Files = {}
  /\ \A q \in D \cup Files : Above(q) \subseteq D

\* MkdirAll, whether it gets to the last directory or not, leaves a tree.
LEMMA MadeTree ==
  ASSUME TreeOK, NEW p \in Paths, ~Blocked(p)
  PROVE  IsTree(dirs \cup Above(p)) /\ IsTree(dirs \cup Above(p) \cup {p})
<1>1. dirs \cup Above(p) \cup {p} \in SUBSET Paths
  BY AboveTyped DEF TreeOK
<1>2. (dirs \cup Above(p) \cup {p}) \cap Files = {}
  BY DEF TreeOK, Blocked
<1>3. \A q \in dirs \cup Files \cup Above(p) \cup {p} : Above(q) \subseteq dirs \cup Above(p)
  BY AboveIsClosed DEF TreeOK
<1> QED
  BY <1>1, <1>2, <1>3 DEF IsTree

\* The entry that is next, if there is one that is not refused.
LEMMA CurrentTyped ==
  ASSUME ExtractTypeOK, Running, Refusal(Current) = "none"
  PROVE  /\ Current \in Entries
         /\ Current.target \in Paths
         /\ Len(archive) \in Nat /\ at + 1 \in 1 .. Len(archive) + 1
         /\ Readable \in Nat
         /\ Current.kind = "file" => Current.target # Root
<1>1. Len(archive) \in Nat /\ at \in 1 .. Len(archive) /\ at + 1 \in 1 .. Len(archive) + 1
  BY LenProperties DEF ExtractTypeOK, Running
<1>2. Current \in Entries
  BY <1>1, ElementOfSeq DEF ExtractTypeOK, Current
<1> QED
  BY <1>1, <1>2 DEF Entries, Readable, Refusal

\* A file below directories that can be made leaves a tree too.
LEMMA CopyTyped ==
  ASSUME TypeOK, Creates, NEW n \in Nat, NEW f \in BOOLEAN, Copied(n, f)
  PROVE  TreeOK' /\ at' \in 1 .. Len(archive) + 1 /\ written' \in Nat
           /\ verdict' \in Refusals \cup {"extracting"}
<1> DEFINE p == Current.target
<1>1. /\ Running /\ Refusal(Current) = "none" /\ p \in Paths /\ p # Root
      /\ at + 1 \in 1 .. Len(archive) + 1
  BY CurrentTyped DEF TypeOK, Creates, WritesFile
<1>2. /\ Front(p) \in Paths /\ Above(p) = Above(Front(p)) \cup {Front(p)}
      /\ p \notin Above(p)
  BY <1>1, FrontIsAbove, AboveTyped
<1>3. dirs' = dirs \cup Above(Front(p)) \cup {Front(p)}
  BY DEF Copied, MkdirAll
<1>4. IsTree(dirs')
  <2>1. TreeOK /\ ~Blocked(Front(p))
    BY DEF TypeOK, Creates
  <2> QED
    BY <1>2, <1>3, <2>1, MadeTree
<1>5. Files' = Files \cup {p} /\ content' \in [Files' -> Nat] /\ p \notin dirs'
  <2>1. content \in [Files -> Nat] /\ p \notin dirs \cup Files
    BY DEF TypeOK, TreeOK, Creates, CanCreate
  <2>2. content' = [q \in Files \cup {p} |-> IF q = p THEN n ELSE content[q]]
    BY DEF Copied
  <2> QED
    BY <1>2, <1>3, <2>1, <2>2 DEF Files
<1>6. TreeOK'
  <2>1. Above(p) \subseteq dirs'
    BY <1>2, <1>3
  <2>2. Files' \subseteq Paths
    BY <1>1, <1>5 DEF TypeOK, TreeOK
  <2>3. \A q \in dirs' \cup Files' : Above(q) \subseteq dirs'
    BY <1>4, <1>5, <2>1 DEF IsTree
  <2> QED
    BY <1>4, <1>5, <2>2, <2>3 DEF TreeOK, IsTree
<1>7. at' \in 1 .. Len(archive) + 1 /\ written' \in Nat
  BY <1>1 DEF Copied, TypeOK, ExtractTypeOK
<1>8. verdict' \in Refusals \cup {"extracting"}
  BY DEF Copied, CopyVerdict, Refusals
<1> QED
  BY <1>6, <1>7, <1>8

\* What a copy takes is a number of bytes.
LEMMA CopyBytesTyped ==
  ASSUME ExtractTypeOK, Running, Refusal(Current) = "none"
  PROVE  CopyLimit \in Nat /\ Least(Readable, CopyBytes) \in Nat
<1>1. Readable \in Nat /\ written \in Nat
  BY CurrentTyped DEF ExtractTypeOK
<1> QED
  BY <1>1 DEF CopyLimit, CopyBytes, Least

LEMMA ExtractNextTyped ==
  ASSUME TypeOK, ExtractNext
  PROVE  TreeOK' /\ ExtractTypeOK'
<1>1. CASE RefuseEntry \/ SkipGlobalHeader \/ EndOfArchive
  <2>1. UNCHANGED <<dirs, content, format, archive, written, fault>>
    BY <1>1 DEF RefuseEntry, SkipGlobalHeader, EndOfArchive, inputVars
  <2>2. TreeOK'
    BY <2>1 DEF TypeOK, TreeOK, Files
  <2>3. verdict' \in Refusals \cup {"none", "extracting", "extracted"}
    BY <1>1 DEF RefuseEntry, SkipGlobalHeader, EndOfArchive, Fail, Refusal, Refusals, TypeOK,
       ExtractTypeOK
  <2>4. at' \in 1 .. Len(archive) + 1
    BY <1>1, CurrentTyped DEF RefuseEntry, SkipGlobalHeader, EndOfArchive, TypeOK, ExtractTypeOK
  <2> QED
    BY <2>1, <2>2, <2>3, <2>4 DEF TypeOK, ExtractTypeOK
<1>2. CASE MakeDirectory
  <2>1. /\ Current.target \in Paths /\ at + 1 \in 1 .. Len(archive) + 1 /\ TreeOK
        /\ UNCHANGED <<content, format, archive, written, fault>>
    BY <1>2, CurrentTyped DEF MakeDirectory, TypeOK, inputVars
  <2>2. IsTree(dirs')
    <3>1. CASE Blocked(Current.target)
      BY <1>2, <2>1, <3>1 DEF MakeDirectory, IsTree, TreeOK
    <3>2. CASE ~Blocked(Current.target)
      BY <1>2, <2>1, <3>2, MadeTree DEF MakeDirectory, MkdirAll
    <3> QED
      BY <3>1, <3>2
  <2>3. TreeOK'
    BY <2>1, <2>2 DEF TreeOK, IsTree, Files
  <2>4. /\ at' \in 1 .. Len(archive) + 1
        /\ verdict' \in Refusals \cup {"none", "extracting", "extracted"}
    BY <1>2, <2>1 DEF MakeDirectory, Fail, Refusals, TypeOK, ExtractTypeOK
  <2> QED
    BY <2>1, <2>3, <2>4 DEF TypeOK, ExtractTypeOK
<1>3. CASE CannotCreate
  <2>1. /\ Front(Current.target) \in Paths /\ TreeOK
        /\ UNCHANGED <<content, format, archive, at, written, fault>>
    BY <1>3, CurrentTyped, FrontIsAbove DEF CannotCreate, WritesFile, TypeOK, inputVars
  <2>2. IsTree(dirs')
    <3>1. CASE dirs' = dirs
      BY <2>1, <3>1 DEF IsTree, TreeOK
    <3>2. CASE ~Blocked(Front(Current.target)) /\ MkdirAll(Front(Current.target))
      BY <2>1, <3>2, MadeTree DEF MkdirAll
    <3> QED
      BY <1>3, <3>1, <3>2 DEF CannotCreate
  <2>3. TreeOK'
    BY <2>1, <2>2 DEF TreeOK, IsTree, Files
  <2>4. verdict' \in Refusals
    BY <1>3 DEF CannotCreate, Fail, Refusals
  <2> QED
    BY <2>1, <2>3, <2>4 DEF TypeOK, ExtractTypeOK
<1>4. CASE WriteFile
  <2>1. Creates /\ \E n \in Nat, f \in BOOLEAN : Copied(n, f)
    BY <1>4, CopyBytesTyped DEF WriteFile, Creates, WritesFile, TypeOK
  <2>2. /\ TreeOK' /\ at' \in 1 .. Len(archive) + 1 /\ written' \in Nat
        /\ verdict' \in Refusals \cup {"extracting"}
    BY <2>1, CopyTyped
  <2> QED
    BY <1>4, <2>2 DEF WriteFile, TypeOK, ExtractTypeOK, inputVars
<1>5. CASE DiskFails
  <2>1. /\ Current.target \in Paths /\ TreeOK
        /\ UNCHANGED <<format, archive>> /\ fault' \in BOOLEAN
    BY <1>5, CurrentTyped DEF DiskFails, TypeOK, inputVars
  <2>2. CASE /\ \E class \in {"internal", IF format = "gzip" THEN "invalid" ELSE "internal"} : Fail(class)
             /\ dirs' \in {dirs, IF Blocked(Current.target) THEN dirs ELSE dirs \cup Above(Current.target)}
             /\ UNCHANGED <<content, at, written>>
    <3>1. IsTree(dirs')
      <4>1. CASE dirs' = dirs
        BY <2>1, <4>1 DEF IsTree, TreeOK
      <4>2. CASE ~Blocked(Current.target) /\ dirs' = dirs \cup Above(Current.target)
        BY <2>1, <4>2, MadeTree
      <4> QED
        BY <2>2, <4>1, <4>2
    <3>2. TreeOK'
      BY <2>1, <2>2, <3>1 DEF TreeOK, IsTree, Files
    <3>3. verdict' \in Refusals
      BY <2>2 DEF Fail, Refusals
    <3> QED
      BY <2>1, <2>2, <3>2, <3>3 DEF TypeOK, ExtractTypeOK
  <2>3. CASE Creates /\ \E n \in 0 .. Least(Readable, CopyLimit) : Copied(n, TRUE)
    <3>1. PICK n \in 0 .. Least(Readable, CopyLimit) : Copied(n, TRUE)
      BY <2>3
    <3>2. n \in Nat /\ TRUE \in BOOLEAN
      OBVIOUS
    <3>3. /\ TreeOK' /\ at' \in 1 .. Len(archive) + 1 /\ written' \in Nat
          /\ verdict' \in Refusals \cup {"extracting"}
      BY <2>3, <3>1, <3>2, CopyTyped
    <3> QED
      BY <2>1, <3>3 DEF TypeOK, ExtractTypeOK
  <2> QED
    BY <1>5, <2>2, <2>3 DEF DiskFails
<1> QED
  BY <1>1, <1>2, <1>3, <1>4, <1>5 DEF ExtractNext

LEMMA SearchNextTyped ==
  ASSUME TypeOK, SearchNext, UNCHANGED <<dirs, content>>
  PROVE  SearchTypeOK'
<1>1. pending \subseteq Paths
  BY DEF TypeOK, SearchTypeOK
<1>2. ASSUME NEW p \in pending, VisitFile(p) \/ PruneDirectory(p) PROVE SearchTypeOK'
  BY <1>2 DEF VisitFile, PruneDirectory, WithinCap, TypeOK, SearchTypeOK
<1>3. ASSUME NEW d \in pending, VisitDirectory(d) PROVE SearchTypeOK'
  <2>1. Children(d) \subseteq Paths
    BY DEF Children, TypeOK, TreeOK
  <2>2. /\ entries' \in 0 .. opts.entries /\ opts' = opts /\ unreadable' = unreadable
        /\ found' \in {found, "pathError"}
    BY <1>3 DEF VisitDirectory, WithinCap, TypeOK, SearchTypeOK
  <2>3. pending' \subseteq Paths /\ roots' \subseteq Paths /\ flickered' \subseteq Paths
    BY <1>1, <1>3, <2>1 DEF VisitDirectory, TypeOK, SearchTypeOK
  <2> QED
    BY <2>2, <2>3 DEF TypeOK, SearchTypeOK, Answers
<1>4. CASE EndSearch
  BY <1>4 DEF EndSearch, Outcome, Answers, TypeOK, SearchTypeOK
<1> QED
  BY <1>2, <1>3, <1>4 DEF SearchNext

LEMMA CodesTyped == \A error : CodeOf(error) \in {3, 4, 5, 70}
  BY DEF CodeOf

LEMMA CleanupTyped ==
  ASSUME TreeOK, Cleanup
  PROVE  TreeOK'
<1>1. CASE UNCHANGED <<dirs, content>>
  BY <1>1 DEF TreeOK, Files
<1>2. CASE dirs' = {} /\ content' = NoFiles
  BY <1>2 DEF TreeOK, Files, NoFiles
<1> QED
  BY <1>1, <1>2 DEF Cleanup

\* What is not changed keeps its type.
LEMMA UnchangedTyped ==
  ASSUME TypeOK
  PROVE  /\ UNCHANGED <<dirs, content>> => TreeOK'
         /\ UNCHANGED extractVars => ExtractTypeOK'
         /\ UNCHANGED searchVars => SearchTypeOK'
  BY DEF TypeOK, TreeOK, Files, extractVars, ExtractTypeOK, searchVars, SearchTypeOK

LEMMA TypeStep == TypeInv /\ [Next]_vars => TypeOK'
<1> SUFFICES ASSUME TypeInv, [Next]_vars PROVE TypeOK'
  OBVIOUS
<1> USE DEF TypeInv
<1>1. CASE CannotBegin
  <2>1. TreeOK' /\ ExtractTypeOK' /\ SearchTypeOK'
    BY <1>1, UnchangedTyped DEF CannotBegin
  <2>2. stage' = "failed" /\ code' \in {3, 4, 5, 70}
    BY <1>1, CodesTyped DEF CannotBegin, Exit
  <2> QED
    BY <2>1, <2>2 DEF TypeOK
<1>2. CASE BeginDirectory \/ SearchArchive
  <2>1. TreeOK' /\ ExtractTypeOK'
    BY <1>2, UnchangedTyped DEF BeginDirectory, SearchArchive
  <2>2. \E n \in Nat, m \in Nat, b \in BOOLEAN : SearchStart([depth |-> n, entries |-> m, hidden |-> b])
    BY <1>2 DEF BeginDirectory, SearchArchive, ArchiveOptions
  <2>3. SearchTypeOK'
    BY <1>2, <2>2, RootIsAbove DEF BeginDirectory, SearchArchive, SearchStart, Quiet, TypeOK, SearchTypeOK
  <2>4. stage' = "search" /\ code' = 0
    BY <1>2 DEF BeginDirectory, SearchArchive, TypeOK
  <2> QED
    BY <2>1, <2>3, <2>4 DEF TypeOK
<1>3. CASE BeginArchive
  <2>1. TreeOK'
    BY <1>3, RootIsAbove DEF BeginArchive, Quiet, TypeOK, TreeOK, Files
  <2> QED
    BY <1>3, <2>1, UnchangedTyped DEF BeginArchive, ExtractStart, inputVars, Quiet, TypeOK, ExtractTypeOK, searchVars,
       Refusals, IsArchive
<1>4. CASE ExtractStep
  <2>1. TreeOK' /\ ExtractTypeOK' /\ SearchTypeOK'
    BY <1>4, ExtractNextTyped, UnchangedTyped DEF ExtractStep
  <2> QED
    BY <1>4, <2>1 DEF ExtractStep, searchVars, TypeOK
<1>5. CASE ExtractionFails \/ SearchFails
  <2>1. TreeOK' /\ ExtractTypeOK' /\ SearchTypeOK'
    BY <1>5, CleanupTyped, UnchangedTyped DEF ExtractionFails, SearchFails, TypeOK
  <2>2. stage' = "failed" /\ code' \in {3, 4, 5, 70}
    BY <1>5, CodesTyped DEF ExtractionFails, SearchFails, Exit
  <2> QED
    BY <2>1, <2>2 DEF TypeOK
<1>6. CASE SearchStep
  <2>1. TreeOK' /\ ExtractTypeOK' /\ SearchTypeOK'
    BY <1>6, SearchNextTyped, UnchangedTyped DEF SearchStep
  <2> QED
    BY <1>6, <2>1 DEF SearchStep, TypeOK
<1>7. CASE SearchSucceeds \/ UNCHANGED vars
  <2>1. TreeOK' /\ ExtractTypeOK' /\ SearchTypeOK'
    BY <1>7, UnchangedTyped DEF SearchSucceeds, vars
  <2> QED
    BY <1>7, <2>1 DEF SearchSucceeds, vars, searchVars, TypeOK
<1> QED
  BY <1>1, <1>2, <1>3, <1>4, <1>5, <1>6, <1>7 DEF Next

LEMMA QuietStep == TypeInv /\ [Next]_vars => Quiet'
<1> SUFFICES ASSUME TypeInv, [Next]_vars PROVE Quiet'
  OBVIOUS
<1> USE DEF TypeInv, Quiet, IsArchive
<1>1. CASE CannotBegin \/ ExtractionFails \/ SearchFails \/ SearchSucceeds
  <2>1. /\ stage' \in {"failed", "ready"} /\ UNCHANGED <<format, verdict>>
    BY <1>1 DEF CannotBegin, ExtractionFails, SearchFails, SearchSucceeds, Exit, extractVars
  <2> QED
    BY <2>1
<1>2. CASE BeginDirectory \/ SearchArchive
  <2>1. stage' = "search" /\ UNCHANGED <<format, verdict>>
    BY <1>2 DEF BeginDirectory, SearchArchive, extractVars
  <2> QED
    BY <2>1
<1>3. CASE BeginArchive
  BY <1>3 DEF BeginArchive, ExtractStart, inputVars, searchVars
<1>4. CASE ExtractStep
  <2>1. stage = "extract" /\ UNCHANGED <<stage, searchVars>>
    BY <1>4 DEF ExtractStep
  <2>2. format' = format
    BY <1>4 DEF ExtractStep, ExtractNext, RefuseEntry, SkipGlobalHeader, MakeDirectory, CannotCreate,
       WriteFile, DiskFails, EndOfArchive, inputVars
  <2> QED
    BY <2>1, <2>2 DEF searchVars
<1>5. CASE SearchStep
  BY <1>5 DEF SearchStep, extractVars
<1>6. CASE UNCHANGED vars
  BY <1>6 DEF vars, extractVars, searchVars, Files
<1> QED
  BY <1>1, <1>2, <1>3, <1>4, <1>5, <1>6 DEF Next

LEMMA TypeInvariant == Spec => []TypeInv
  <1>1. TypeInv /\ [Next]_vars => TypeInv'
  BY TypeStep, QuietStep DEF TypeInv
<1> QED
  BY <1>1, TypeInit, PTL DEF Spec

\* Every variable of the input's preparation stays in its domain; in particular
\* the extraction leaves a tree of directories and files, however the entries
\* of an archive exclude each other.
THEOREM TypeCorrect == Spec => []TypeOK
<1>1. TypeInv => TypeOK
  BY DEF TypeInv
<1> QED
  BY <1>1, TypeInvariant, PTL
-----------------------------------------------------------------------------
\* A copy stops a byte above the limit that is met first, and says so.
LEMMA CopyBounded ==
  ASSUME TypeOK, ExtractionBounded, Creates, NEW n \in Nat, NEW f \in BOOLEAN,
         n <= CopyBytes, Copied(n, f)
  PROVE  ExtractionBounded'
<1>1. /\ written \in Nat /\ written <= MaxTotal
      /\ \A p \in Files : content[p] \in Nat /\ content[p] <= MaxFile
  BY DEF TypeOK, TreeOK, ExtractTypeOK, ExtractionBounded, Creates, WritesFile, Running
<1>2. n <= MaxFile + 1 /\ written + n <= MaxTotal + 1
  BY <1>1 DEF CopyBytes, CopyLimit
<1>3. written' = written + n
  BY DEF Copied
<1>4. \A p \in Files' : content'[p] = n \/ (p \in Files /\ content'[p] = content[p])
  BY DEF Copied, Files
<1>5. \A p \in Files' : content'[p] <= MaxFile + 1
  BY <1>1, <1>2, <1>4
<1>6. CASE verdict' = "extracting"
  <2>1. n <= MaxFile /\ written + n <= MaxTotal
    BY <1>1, <1>6 DEF Copied, CopyVerdict
  <2> QED
    BY <1>1, <1>2, <1>3, <1>4, <1>5, <2>1 DEF ExtractionBounded
<1>7. CASE verdict' # "extracting"
  <2>1. verdict' \in Refusals
    BY <1>7, CopyTyped
  <2> QED
    BY <1>2, <1>3, <1>5, <2>1 DEF ExtractionBounded, Refusals
<1> QED
  BY <1>6, <1>7

LEMMA ExtractNextBounded ==
  ASSUME TypeOK, ExtractionBounded, ExtractNext
  PROVE  ExtractionBounded'
<1>1. CASE RefuseEntry \/ SkipGlobalHeader \/ MakeDirectory \/ CannotCreate \/ EndOfArchive
  <2>1. UNCHANGED <<content, written>> /\ verdict = "extracting"
    BY <1>1 DEF RefuseEntry, SkipGlobalHeader, MakeDirectory, CannotCreate, EndOfArchive, WritesFile, Running
  <2> QED
    BY <2>1 DEF ExtractionBounded, Files
<1>2. CASE WriteFile
  <2> DEFINE n == Least(Readable, CopyBytes)
             f == Current.damage = "data" /\ Readable <= CopyLimit
  <2>1. Creates /\ Copied(n, f) /\ f \in BOOLEAN
    BY <1>2 DEF WriteFile
  <2>2. n \in Nat /\ n <= CopyBytes
    <3>1. CopyLimit \in Nat /\ n \in Nat /\ Readable \in Nat
      BY <2>1, CopyBytesTyped, CurrentTyped DEF TypeOK, Creates, WritesFile
    <3> QED
      BY <3>1 DEF Least, CopyBytes
  <2> HIDE DEF n, f
  <2> QED
    BY <2>1, <2>2, CopyBounded
<1>3. CASE DiskFails
  <2>1. CASE UNCHANGED <<content, written>>
    BY <1>3, <2>1 DEF DiskFails, Running, ExtractionBounded, Files
  <2>2. CASE Creates /\ \E n \in 0 .. Least(Readable, CopyLimit) : Copied(n, TRUE)
    <3>1. PICK n \in 0 .. Least(Readable, CopyLimit) : Copied(n, TRUE)
      BY <2>2
    <3>2. CopyLimit \in Nat /\ Readable \in Nat
      BY <2>2, CopyBytesTyped, CurrentTyped DEF TypeOK, Creates, WritesFile
    <3>3. n \in Nat /\ n <= CopyBytes /\ TRUE \in BOOLEAN
      BY <3>2 DEF Least, CopyBytes
    <3> QED
      BY <2>2, <3>1, <3>3, CopyBounded
  <2> QED
    BY <1>3, <2>1, <2>2 DEF DiskFails
<1> QED
  BY <1>1, <1>2, <1>3 DEF ExtractNext

LEMMA BoundedStep == TypeInv /\ ExtractionBounded /\ [Next]_vars => ExtractionBounded'
<1> SUFFICES ASSUME TypeInv, ExtractionBounded, [Next]_vars PROVE ExtractionBounded'
  OBVIOUS
<1>1. CASE BeginArchive
  <2>1. Files = {} /\ written = 0 /\ UNCHANGED <<content, written>>
    BY <1>1 DEF BeginArchive, ExtractStart, TypeInv, Quiet
  <2> QED
    BY <2>1 DEF ExtractionBounded, Files
<1>2. CASE ExtractStep
  BY <1>2, ExtractNextBounded DEF ExtractStep, TypeInv
<1>3. CASE ExtractionFails \/ SearchFails
  <2>1. UNCHANGED <<written, verdict>> /\ (content' = content \/ content' = NoFiles)
    BY <1>3 DEF ExtractionFails, SearchFails, Cleanup, extractVars
  <2> QED
    BY <2>1 DEF ExtractionBounded, Files, NoFiles
<1>4. CASE \/ CannotBegin \/ BeginDirectory \/ SearchArchive \/ SearchStep
           \/ SearchSucceeds \/ UNCHANGED vars
  <2>1. UNCHANGED <<content, written, verdict>>
    BY <1>4 DEF CannotBegin, BeginDirectory, SearchArchive, SearchStep, SearchSucceeds, vars, extractVars
  <2> QED
    BY <2>1 DEF ExtractionBounded, Files
<1> QED
  BY <1>1, <1>2, <1>3, <1>4 DEF Next

\* maxArchiveFileBytes and maxArchiveExtractedBytes hold for every archive, up
\* to the one byte that shows an excess: an archive that is extracted keeps
\* both limits.
THEOREM ExtractionIsBounded == Spec => []ExtractionBounded
<1>1. Init => ExtractionBounded
  BY DEF Init, ExtractInit, ExtractionBounded
<1> QED
  BY <1>1, TypeInvariant, BoundedStep, PTL DEF Spec
-----------------------------------------------------------------------------
\* What is still to come has been listed in a directory that is searched.
PendingIsWalked == found # "none" /\ dirs # {} => pending \subseteq Walked

SearchInv == TypeInv /\ PendingIsWalked /\ NoCollectionLost

\* An entry of a directory that is searched is itself to be searched unless
\* it is hidden or unreadable.
LEMMA WalkedIsSearchable ==
  ASSUME TypeOK, NEW d \in Walked, ~SkippedAsHidden(d), d \notin unreadable
  PROVE  Searchable(d)
<1>1. d \in Paths
  BY DEF Walked, TypeOK, TreeOK
<1>2. CASE d = Root
  BY <1>2, RootIsAbove DEF Searchable, TypeOK, SearchTypeOK
<1>3. CASE d # Root
  <2>1. Searchable(Front(d)) /\ Len(Front(d)) < opts.depth
    BY <1>3 DEF Walked
  <2>2. /\ Len(Front(d)) = Len(d) - 1 /\ Len(d) \in Nat
        /\ Above(d) = Above(Front(d)) \cup {Front(d)} /\ opts.depth \in Nat
    BY <1>1, <1>3, FrontIsAbove DEF TypeOK, SearchTypeOK
  <2>3. d \notin unreadable /\ (opts.hidden \/ Last(d) \notin Hidden)
    BY <1>3 DEF SkippedAsHidden
  <2> QED
    BY <2>1, <2>2, <2>3 DEF Searchable
<1> QED
  BY <1>2, <1>3

\* The collections and what there is to walk depend on the tree only.
LEMMA CollectionsUnchanged ==
  ASSUME UNCHANGED <<dirs, content, unreadable, opts>>
  PROVE  Collections' = Collections /\ Walked' = Walked
  BY DEF Collections, Walked, Searchable, LooksLikePtStalkRoot, Children, Files

LEMMA SearchNextFinds ==
  ASSUME TypeInv, PendingIsWalked, NoCollectionLost, SearchNext, UNCHANGED <<dirs, content>>
  PROVE  PendingIsWalked' /\ NoCollectionLost'
<1> SUFFICES ASSUME dirs # {} PROVE PendingIsWalked' /\ NoCollectionLost'
  BY DEF PendingIsWalked, NoCollectionLost
<1>1. /\ found = "searching" /\ UNCHANGED <<opts, unreadable>>
      /\ Collections' = Collections /\ Walked' = Walked
  BY CollectionsUnchanged DEF SearchNext, VisitFile, PruneDirectory, VisitDirectory, EndSearch
<1>2. pending \subseteq Walked /\ roots \subseteq Collections
  BY <1>1 DEF PendingIsWalked, NoCollectionLost
<1>3. \A c \in Collections \ roots :
        (Above(c) \cup {c}) \cap pending # {} \/ Above(c) \cap flickered # {}
  BY <1>1 DEF NoCollectionLost
<1>4. \A c \in Collections : c \in dirs /\ c \in Paths /\ Above(c) \subseteq dirs /\ Searchable(c)
  BY DEF Collections, TypeInv, TypeOK, TreeOK
<1>5. ASSUME NEW p \in pending, VisitFile(p) \/ PruneDirectory(p)
      PROVE  PendingIsWalked' /\ NoCollectionLost'
  <2>1. pending' = pending \ {p} /\ UNCHANGED <<roots, flickered>>
    BY <1>5 DEF VisitFile, PruneDirectory
  <2>2. ASSUME NEW c \in Collections PROVE p \notin Above(c) \cup {c}
    BY <1>4, <1>5 DEF VisitFile, PruneDirectory, SkippedAsHidden, Searchable, TypeInv, TypeOK, TreeOK
  <2> QED
    BY <1>1, <1>2, <1>3, <2>1, <2>2 DEF PendingIsWalked, NoCollectionLost
<1>6. ASSUME NEW d \in pending, VisitDirectory(d)
      PROVE  PendingIsWalked' /\ NoCollectionLost'
  <2>1. d \in dirs /\ Searchable(d)
    BY <1>2, <1>6, WalkedIsSearchable DEF VisitDirectory, TypeInv
  <2>2. pending' \subseteq Walked
    BY <1>2, <1>6, <2>1 DEF VisitDirectory, Descends, Walked, Children
  <2>3. roots \subseteq roots' /\ roots' \subseteq Collections /\ (d \in Collections => d \in roots')
    BY <1>2, <1>6, <2>1 DEF VisitDirectory, Collections
  <2>4. ASSUME NEW c \in Collections \ roots'
        PROVE  (Above(c) \cup {c}) \cap pending' # {} \/ Above(c) \cap flickered' # {}
    <3>1. c \in Collections \ roots /\ flickered \subseteq flickered' /\ pending \ {d} \subseteq pending'
      BY <1>6, <2>3, <2>4 DEF VisitDirectory
    <3>2. CASE Above(c) \cap flickered # {} \/ (Above(c) \cup {c}) \cap (pending \ {d}) # {}
      BY <3>1, <3>2
    <3>3. CASE d \in Above(c)
      <4>1. Descends(d)
        BY <1>4, <3>1, <3>3, AboveTyped DEF Descends, Searchable, TypeInv, TypeOK, SearchTypeOK
      <4>2. PICK s \in Above(c) \cup {c} : s \in Paths /\ s # Root /\ Front(s) = d
        BY <1>4, <3>1, <3>3, EntryOnTheWay
      <4>3. s \in Children(d)
        BY <1>4, <3>1, <4>2 DEF Children
      <4>4. d \in flickered' \/ s \in pending'
        BY <1>6, <4>1, <4>3 DEF VisitDirectory
      <4> QED
        BY <3>3, <4>2, <4>4
    <3>4. c # d
      BY <2>3, <2>4
    <3> QED
      BY <1>3, <3>1, <3>2, <3>3, <3>4
  <2> QED
    BY <1>1, <2>2, <2>3, <2>4 DEF PendingIsWalked, NoCollectionLost
<1>7. CASE EndSearch
  BY <1>1, <1>2, <1>3, <1>7 DEF EndSearch, PendingIsWalked, NoCollectionLost
<1> QED
  BY <1>5, <1>6, <1>7 DEF SearchNext

\* The walk begins with the root, at or above every collection.
LEMMA SearchStartFinds ==
  ASSUME TypeInv, stage \in {"stat", "extract"}, NEW options, SearchStart(options),
         UNCHANGED <<dirs, content>>
  PROVE  PendingIsWalked' /\ NoCollectionLost'
<1>1. /\ pending' = {Root} /\ roots' = {} /\ UNCHANGED <<dirs, Files>>
  BY DEF SearchStart, TypeInv, Quiet, Files
<1>2. \A d \in dirs : d \in Paths /\ Above(d) \subseteq dirs
  BY DEF TypeInv, TypeOK, TreeOK
<1>3. PendingIsWalked'
  <2>1. dirs # {} => Root \in dirs
    BY <1>2, RootIsAbove
  <2>2. Root \in dirs => Root \in Walked'
    BY <1>1 DEF Walked
  <2> QED
    BY <1>1, <2>1, <2>2 DEF PendingIsWalked
<1>4. \A c \in Collections' : Root \in Above(c) \cup {c}
  BY <1>1, <1>2, RootIsAbove DEF Collections
<1>5. NoCollectionLost'
  BY <1>1, <1>4 DEF NoCollectionLost
<1> QED
  BY <1>3, <1>5

LEMMA SearchInvStep == SearchInv /\ [Next]_vars => PendingIsWalked' /\ NoCollectionLost'
<1> SUFFICES ASSUME SearchInv, [Next]_vars PROVE PendingIsWalked' /\ NoCollectionLost'
  OBVIOUS
<1> USE DEF SearchInv
<1>1. CASE CannotBegin \/ BeginArchive \/ ExtractStep \/ ExtractionFails
  <2>1. found' = "none"
    BY <1>1 DEF CannotBegin, BeginArchive, ExtractStep, ExtractionFails, searchVars, TypeInv, Quiet
  <2> QED
    BY <2>1 DEF PendingIsWalked, NoCollectionLost
<1>2. CASE BeginDirectory \/ SearchArchive
  <2>1. /\ stage \in {"stat", "extract"} /\ UNCHANGED <<dirs, content>>
        /\ \E options : SearchStart(options)
    BY <1>2 DEF BeginDirectory, SearchArchive
  <2> QED
    BY <2>1, SearchStartFinds
<1>3. CASE SearchStep
  BY <1>3, SearchNextFinds DEF SearchStep
<1>4. CASE SearchFails \/ SearchSucceeds \/ UNCHANGED vars
  <2>1. /\ UNCHANGED searchVars
        /\ dirs' = {} \/ UNCHANGED <<dirs, content>>
    BY <1>4 DEF SearchFails, SearchSucceeds, Cleanup, vars
  <2>2. CASE dirs' = {}
    BY <2>2 DEF PendingIsWalked, NoCollectionLost
  <2>3. CASE UNCHANGED <<dirs, content>>
    <3>1. UNCHANGED <<dirs, content, unreadable, opts, pending, roots, found, flickered>>
      BY <2>1, <2>3 DEF searchVars
    <3>2. Collections' = Collections /\ Walked' = Walked
      BY <3>1, CollectionsUnchanged
    <3> QED
      BY <3>1, <3>2 DEF PendingIsWalked, NoCollectionLost
  <2> QED
    BY <2>1, <2>2, <2>3
<1> QED
  BY <1>1, <1>2, <1>3, <1>4 DEF Next

LEMMA SearchInvariant == Spec => []SearchInv
<1>1. Init => SearchInv
  BY TypeInit DEF Init, SearchInit, SearchInv, PendingIsWalked, NoCollectionLost
<1>2. SearchInv /\ [Next]_vars => SearchInv'
  BY TypeStep, QuietStep, SearchInvStep DEF SearchInv, TypeInv
<1> QED
  BY <1>1, <1>2, PTL DEF Spec

\* FindPtStalkRoot loses no collection within its bounds, in any tree: it has
\* recognised it or is still to come to it, unless permission was withdrawn.
THEOREM NoneIsLost == Spec => []NoCollectionLost
<1>1. SearchInv => NoCollectionLost
  BY DEF SearchInv
<1> QED
  BY <1>1, SearchInvariant, PTL

\* The contract of FindPtStalkRoot for a walk that is not capped: a root is
\* returned for one collection only, ErrNotAPtStalkDir for none only, and the
\* error for several only if there are several.
AnswerOfWholeWalk ==
  dirs # {} /\ pending = {} /\ flickered = {} =>
    /\ found = "root" => \E c \in dirs : Collections = {c}
    /\ found = "notAPtStalkDir" => Collections = {}
    /\ found = "multipleRoots" => \E c, d \in Collections : c # d

\* What the search has made of its roots is what Outcome says of them.
AnswerIsOutcome == found \in Answers \ {"pathError"} => found = Outcome

LEMMA AnswerStep == AnswerIsOutcome /\ [Next]_vars => AnswerIsOutcome'
<1> SUFFICES ASSUME AnswerIsOutcome, [Next]_vars PROVE AnswerIsOutcome'
  OBVIOUS
<1>1. CASE SearchStep
  <2>1. CASE EndSearch
    BY <2>1 DEF EndSearch, AnswerIsOutcome, Outcome
  <2>2. CASE ~EndSearch
    BY <1>1, <2>2 DEF SearchStep, SearchNext, VisitFile, PruneDirectory, VisitDirectory, AnswerIsOutcome,
       Answers
  <2> QED
    BY <2>1, <2>2
<1>2. CASE BeginDirectory \/ SearchArchive
  BY <1>2 DEF BeginDirectory, SearchArchive, SearchStart, AnswerIsOutcome, Answers
<1>3. CASE ~SearchStep /\ ~BeginDirectory /\ ~SearchArchive
  <2>1. UNCHANGED <<roots, found>>
    BY <1>3 DEF Next, CannotBegin, BeginArchive, ExtractStep, ExtractionFails, SearchFails, SearchSucceeds,
       vars, searchVars
  <2> QED
    BY <2>1 DEF AnswerIsOutcome, Outcome
<1> QED
  BY <1>1, <1>2, <1>3

\* Of a walk that is not capped, the answer is the truth about the tree.
THEOREM WholeWalkAnswers == Spec => []AnswerOfWholeWalk
<1>1. Init => AnswerIsOutcome
  BY DEF Init, SearchInit, AnswerIsOutcome, Answers
<1>2. SearchInv /\ AnswerIsOutcome => AnswerOfWholeWalk
  <2> SUFFICES ASSUME SearchInv, AnswerIsOutcome, dirs # {}, pending = {}, flickered = {},
                      found \in Answers \ {"pathError"}
               PROVE  AnswerOfWholeWalk
    BY DEF AnswerOfWholeWalk, Answers
  <2>1. roots = Collections
    BY DEF SearchInv, NoCollectionLost, Answers
  <2>2. found = Outcome /\ roots \subseteq dirs
    BY <2>1 DEF AnswerIsOutcome, Collections
  <2> QED
    BY <2>1, <2>2 DEF AnswerOfWholeWalk, Outcome
<1> QED
  BY <1>1, <1>2, SearchInvariant, AnswerStep, PTL DEF Spec
-----------------------------------------------------------------------------
(* The induction that the provers can make, and the running totals of an     *)
(* archive.                                                                *)
\* A set of numbers that is not empty has a least one: how the lemmas below
\* make their inductions.
LEMMA LeastNumber ==
  ASSUME NEW T, T \subseteq Nat, T # {}
  PROVE  \E m \in T : \A n \in T : m <= n
<1> DEFINE R == {ss \in Nat \X Nat : ss[1] < ss[2]}
<1>1. IsWellFoundedOn(R, Nat)
  BY NatLessThanWellFounded DEF OpToRel
<1> HIDE DEF R
<1>2. PICK m \in T : \A n \in T : <<n, m>> \notin R
  BY <1>1, WFMin
<1>3. ASSUME NEW n \in T PROVE m <= n
  <2>1. m \in Nat /\ n \in Nat /\ <<n, m>> \notin R
    BY <1>2
  <2> QED
    BY <2>1 DEF R
<1> QED
  BY <1>2, <1>3

\* f holds the first N running totals of s.
TotalsUpTo(N, s, f) ==
  /\ DOMAIN f = 0 .. N
  /\ f[0] = 0
  /\ \A n \in 1 .. N : f[n] = f[n - 1] + s[n]

LEMMA TotalsExist ==
  ASSUME NEW s, NEW N \in Nat
  PROVE  \E f : TotalsUpTo(N, s, f)
<1> DEFINE T == {n \in Nat : ~\E f : TotalsUpTo(n, s, f)}
<1> SUFFICES ASSUME T # {} PROVE FALSE
  OBVIOUS
<1>1. PICK m \in T : \A n \in T : m <= n
  BY LeastNumber
<1>2. CASE m = 0
  <2>1. TotalsUpTo(0, s, [n \in 0 .. 0 |-> 0])
    BY DEF TotalsUpTo
  <2> QED
    BY <1>2, <2>1
<1>3. CASE m # 0
  <2>1. m \in Nat /\ m - 1 \in Nat /\ m - 1 \notin T
    BY <1>1, <1>3
  <2>2. PICK f : TotalsUpTo(m - 1, s, f)
    BY <2>1
  <2> DEFINE g == [n \in 0 .. m |-> IF n = m THEN f[m - 1] + s[m] ELSE f[n]]
  <2>3. DOMAIN g = 0 .. m /\ g[0] = 0
    BY <1>3, <2>1, <2>2 DEF TotalsUpTo
  <2>4. ASSUME NEW n \in 1 .. m PROVE g[n] = g[n - 1] + s[n]
    <3>1. CASE n = m
      BY <2>1, <3>1
    <3>2. CASE n # m
      <4>1. n \in 1 .. m - 1 /\ n - 1 \in 0 .. m /\ n - 1 # m /\ n \in 0 .. m
        BY <2>1, <3>2
      <4>2. g[n] = f[n] /\ g[n - 1] = f[n - 1]
        BY <3>2, <4>1
      <4> QED
        BY <2>2, <4>1, <4>2 DEF TotalsUpTo
    <3> QED
      BY <3>1, <3>2
  <2> HIDE DEF g
  <2>5. TotalsUpTo(m, s, g)
    BY <2>3, <2>4 DEF TotalsUpTo
  <2> QED
    BY <1>1, <2>5
<1> QED
  BY <1>2, <1>3

LEMMA TotalsAgree ==
  ASSUME NEW s, NEW N \in Nat, NEW M \in Nat, N <= M, NEW f, NEW g,
         TotalsUpTo(N, s, f), TotalsUpTo(M, s, g)
  PROVE  f[N] = g[N]
<1> DEFINE T == {n \in 0 .. N : f[n] # g[n]}
<1> SUFFICES ASSUME T # {} PROVE FALSE
  OBVIOUS
<1>1. PICK m \in T : \A n \in T : m <= n
  <2>1. T \subseteq Nat
    OBVIOUS
  <2> HIDE DEF T
  <2> QED
    BY <2>1, LeastNumber
<1>2. m \in 0 .. N /\ m # 0
  BY <1>1 DEF TotalsUpTo
<1>3. m - 1 \notin T /\ m - 1 \in 0 .. N /\ m \in 1 .. N /\ m \in 1 .. M
  BY <1>1, <1>2
<1>4. f[m - 1] = g[m - 1]
  BY <1>3
<1>5. f[m] = f[m - 1] + s[m] /\ g[m] = g[m - 1] + s[m]
  BY <1>3 DEF TotalsUpTo
<1> QED
  BY <1>1, <1>4, <1>5

\* The equation of running totals has a solution, so a recursive function that
\* is defined by it obeys it.
LEMMA RunningTotals ==
  ASSUME NEW s
  PROVE  \E t : t = [n \in Nat |-> IF n = 0 THEN 0 ELSE t[n - 1] + s[n]]
<1> DEFINE F(n) == CHOOSE f : TotalsUpTo(n, s, f)
           t == [n \in Nat |-> F(n)[n]]
<1>1. \A n \in Nat : TotalsUpTo(n, s, F(n))
  BY TotalsExist
<1> HIDE DEF F
<1>2. ASSUME NEW n \in Nat PROVE t[n] = IF n = 0 THEN 0 ELSE t[n - 1] + s[n]
  <2>1. t[n] = F(n)[n]
    OBVIOUS
  <2>2. CASE n = 0
    BY <1>1, <2>1, <2>2 DEF TotalsUpTo
  <2>3. CASE n # 0
    <3>1. n - 1 \in Nat /\ n - 1 <= n /\ n \in 1 .. n /\ t[n - 1] = F(n - 1)[n - 1]
      BY <2>3
    <3>2. F(n)[n] = F(n)[n - 1] + s[n]
      BY <1>1, <3>1 DEF TotalsUpTo
    <3>3. F(n - 1)[n - 1] = F(n)[n - 1]
      BY <1>1, <3>1, TotalsAgree
    <3> QED
      BY <2>1, <2>3, <3>1, <3>2, <3>3
  <2> QED
    BY <2>2, <2>3
<1>3. t = [n \in Nat |-> t[n]]
  OBVIOUS
<1> HIDE DEF t
<1>4. t = [n \in Nat |-> IF n = 0 THEN 0 ELSE t[n - 1] + s[n]]
  BY <1>2, <1>3
<1> QED
  BY <1>4

\* What TotalBefore adds up to, entry by entry.
LEMMA TotalGrows ==
  /\ TotalBefore(1) = 0
  /\ \A k \in Nat \ {0} : TotalBefore(k + 1) = TotalBefore(k) + SizeOf(archive[k])
<1> DEFINE s == [n \in Nat |-> SizeOf(archive[n])]
           Solves(t) == t = [n \in Nat |-> IF n = 0 THEN 0 ELSE t[n - 1] + SizeOf(archive[n])]
           total == CHOOSE t : Solves(t)
<1>1. PICK t : t = [n \in Nat |-> IF n = 0 THEN 0 ELSE t[n - 1] + s[n]]
  BY RunningTotals
<1>2. Solves(t)
  <2>1. \A n \in Nat : s[n] = SizeOf(archive[n])
    OBVIOUS
  <2> HIDE DEF s
  <2> QED
    BY <1>1, <2>1
<1>3. Solves(total)
  <2> HIDE DEF Solves
  <2> QED
    BY <1>2
<1>4. \A k : TotalBefore(k) = total[k - 1]
  BY DEF TotalBefore
<1> HIDE DEF total
<1>5. \A n \in Nat : total[n] = IF n = 0 THEN 0 ELSE total[n - 1] + SizeOf(archive[n])
  BY <1>3
<1>6. TotalBefore(1) = 0
  BY <1>4, <1>5
<1>7. ASSUME NEW k \in Nat \ {0} PROVE TotalBefore(k + 1) = TotalBefore(k) + SizeOf(archive[k])
  <2>1. k + 1 - 1 = k /\ k \in Nat /\ k # 0
    OBVIOUS
  <2> QED
    BY <1>4, <1>5, <2>1
<1> QED
  BY <1>6, <1>7
-----------------------------------------------------------------------------
(* The extraction against the archive, entry by entry. *)
\* What the archive says of its entries does not change.
LEMMA DefectsStay ==
  ASSUME UNCHANGED inputVars
  PROVE  /\ \A k : FilesBefore(k)' = FilesBefore(k)
         /\ \A k : MadeBefore(k)' = MadeBefore(k)
         /\ \A k : TotalBefore(k)' = TotalBefore(k)
         /\ \A k : Defect(k)' = Defect(k)
<1>1. archive' = archive /\ format' = format
  BY DEF inputVars
<1>2. \A k : FilesBefore(k)' = FilesBefore(k)
  BY <1>1 DEF FilesBefore
<1>3. \A k : MadeBefore(k)' = MadeBefore(k)
  BY <1>1 DEF MadeBefore
<1>4. \A k : TotalBefore(k)' = TotalBefore(k)
  BY <1>1 DEF TotalBefore
<1>5. \A k : Defect(k)' = Defect(k)
  <2>1. \A e : Refusal(e)' = Refusal(e)
    BY <1>1 DEF Refusal
  <2>2. \A e, k : DefectOfFile(e, k)' = DefectOfFile(e, k)
    BY <1>1, <1>2, <1>3, <1>4 DEF DefectOfFile, Damaged
  <2> QED
    BY <1>1, <1>2, <2>1, <2>2 DEF Defect
<1> QED
  BY <1>2, <1>3, <1>4, <1>5

\* The files and directories that one more entry adds.
LEMMA OneMoreEntry ==
  ASSUME NEW k \in Nat \ {0}
  PROVE  /\ FilesBefore(k + 1) =
              FilesBefore(k) \cup (IF archive[k].kind = "file" THEN {archive[k].target} ELSE {})
         /\ MadeBefore(k + 1) =
              MadeBefore(k) \cup (IF archive[k].kind \in {"file", "dir"}
                                 THEN Above(archive[k].target) \cup {archive[k].target} ELSE {})
<1>1. 1 .. k + 1 - 1 = (1 .. k - 1) \cup {k}
  OBVIOUS
<1>2. FilesBefore(k + 1) =
        FilesBefore(k) \cup (IF archive[k].kind = "file" THEN {archive[k].target} ELSE {})
  BY <1>1 DEF FilesBefore
<1>3. MadeBefore(k + 1) =
        MadeBefore(k) \cup (IF archive[k].kind \in {"file", "dir"}
                           THEN Above(archive[k].target) \cup {archive[k].target} ELSE {})
  BY <1>1 DEF MadeBefore
<1> QED
  BY <1>2, <1>3

IsFile(j) == archive[j].kind = "file"

\* The tree holds what the entries before the next one say, all of it and
\* nothing else.
Taken ==
  /\ Files = FilesBefore(at)
  /\ dirs = {Root} \cup (MadeBefore(at) \ Files)
  /\ \A j \in 1 .. at - 1 : IsFile(j) => content[archive[j].target] = archive[j].size
  /\ \A j, k \in 1 .. at - 1 :
       IsFile(j) /\ IsFile(k) /\ archive[j].target = archive[k].target => j = k

\* An entry that adds nothing, a directory, and a file, are taken as they are.
LEMMA NothingTaken ==
  ASSUME Taken, at \in Nat \ {0}, at' = at + 1, archive' = archive,
         archive[at].kind \notin {"file", "dir"}, UNCHANGED <<dirs, content>>
  PROVE  Taken'
<1>1. FilesBefore(at + 1) = FilesBefore(at) /\ MadeBefore(at + 1) = MadeBefore(at)
  BY OneMoreEntry
<1>2. FilesBefore(at)' = FilesBefore(at + 1) /\ MadeBefore(at)' = MadeBefore(at + 1)
  BY DEF FilesBefore, MadeBefore
<1>3. \A j \in 1 .. at' - 1 : IsFile(j)' => IsFile(j) /\ j \in 1 .. at - 1
  BY DEF IsFile
<1>4. Files' = Files
  BY DEF Files
<1> QED
  BY <1>1, <1>2, <1>3, <1>4 DEF Taken

LEMMA DirectoryTaken ==
  ASSUME Taken, TreeOK, at \in Nat \ {0}, at' = at + 1, archive' = archive,
         archive[at].kind = "dir", ~Blocked(archive[at].target), MkdirAll(archive[at].target),
         UNCHANGED content
  PROVE  Taken'
<1> DEFINE p == archive[at].target
<1>1. FilesBefore(at + 1) = FilesBefore(at) /\ MadeBefore(at + 1) = MadeBefore(at) \cup Above(p) \cup {p}
  BY OneMoreEntry
<1>2. FilesBefore(at)' = FilesBefore(at + 1) /\ MadeBefore(at)' = MadeBefore(at + 1)
  BY DEF FilesBefore, MadeBefore
<1>3. \A j \in 1 .. at' - 1 : IsFile(j)' => IsFile(j) /\ j \in 1 .. at - 1
  BY DEF IsFile
<1>4. Files' = Files
  BY DEF Files
<1>5. dirs' = {Root} \cup (MadeBefore(at + 1) \ Files)
  BY <1>1 DEF Taken, MkdirAll, Blocked
<1> QED
  BY <1>1, <1>2, <1>3, <1>4, <1>5 DEF Taken

LEMMA FileTaken ==
  ASSUME Taken, TypeOK, Creates, at' = at + 1, archive' = archive,
         MkdirAll(Front(Current.target)),
         content' = [p \in Files \cup {Current.target} |->
                       IF p = Current.target THEN Current.size ELSE content[p]]
  PROVE  Taken'
<1> DEFINE p == archive[at].target
<1>1. /\ at \in Nat \ {0} /\ p \in Paths /\ p # Root /\ archive[at].kind = "file"
      /\ p \notin dirs \cup Files
  BY CurrentTyped DEF TypeOK, ExtractTypeOK, Creates, WritesFile, CanCreate, Current
<1>2. Above(p) = Above(Front(p)) \cup {Front(p)} /\ p \notin Above(p)
  BY <1>1, FrontIsAbove, AboveTyped
<1>3. /\ FilesBefore(at + 1) = FilesBefore(at) \cup {p}
      /\ MadeBefore(at + 1) = MadeBefore(at) \cup Above(p) \cup {p}
  BY <1>1, OneMoreEntry
<1>4. FilesBefore(at)' = FilesBefore(at + 1) /\ MadeBefore(at)' = MadeBefore(at + 1)
  BY DEF FilesBefore, MadeBefore
<1>5. Files' = Files \cup {p} /\ dirs' = dirs \cup Above(p) /\ Above(p) \cap Files = {}
  BY <1>2 DEF Files, MkdirAll, Creates, Blocked, Current
<1>6. dirs' = {Root} \cup (MadeBefore(at + 1) \ Files')
  BY <1>1, <1>2, <1>3, <1>5 DEF Taken
<1>7. /\ \A j \in 1 .. at - 1 : IsFile(j) => archive[j].target # p
      /\ \A j \in 1 .. at - 1 : IsFile(j) => archive[j].target \in Files
  BY <1>1 DEF Taken, FilesBefore, IsFile
<1>8. content'[p] = archive[at].size /\ \A q \in Files : q # p => content'[q] = content[q]
  BY DEF Current
<1>9. /\ \A j \in 1 .. at' - 1 : j = at \/ j \in 1 .. at - 1
      /\ \A j : IsFile(j)' = IsFile(j)
  BY <1>1 DEF IsFile
<1>10. \A j \in 1 .. at' - 1 : IsFile(j)' => content'[archive[j].target] = archive[j].size
  BY <1>7, <1>8, <1>9 DEF Taken
<1>11. \A j, k \in 1 .. at' - 1 :
         IsFile(j)' /\ IsFile(k)' /\ archive[j].target = archive[k].target => j = k
  BY <1>7, <1>9 DEF Taken
<1> QED
  BY <1>3, <1>4, <1>5, <1>6, <1>10, <1>11 DEF Taken

SoundBefore(k) == \A j \in 1 .. k - 1 : Defect(j) = "none"

\* The extraction has found nothing wrong so far.
Accepting == verdict \in {"extracting", "extracted"}

\* How the verdict, the tree and the bytes written relate to the archive.
Judged ==
  /\ Accepting => SoundBefore(at) /\ written = TotalBefore(at)
  /\ Accepting /\ dirs # {} => Taken
  /\ verdict = "extracting" => stage = "extract" /\ dirs # {}
  /\ verdict = "extracted" => at = Len(archive) + 1
  /\ verdict \in Refusals /\ ~fault =>
       at \in DOMAIN archive /\ Defect(at) = verdict /\ SoundBefore(at)

ArchiveInv == TypeInv /\ ExtractionBounded /\ Judged

\* One entry accepted, or one refused.
LEMMA EntryAccepted ==
  ASSUME Judged, Running, at \in Nat \ {0}, UNCHANGED <<inputVars, verdict, stage>>, Defect(at) = "none",
         at' = at + 1, written' = written + SizeOf(archive[at]), dirs' # {}, Taken => Taken'
  PROVE  Judged'
<1>1. /\ Accepting /\ SoundBefore(at) /\ written = TotalBefore(at) /\ stage = "extract" /\ Taken
      /\ verdict = "extracting"
  BY DEF Judged, Running, Accepting
<1>2. \A k : Defect(k)' = Defect(k) /\ TotalBefore(k)' = TotalBefore(k)
  BY DefectsStay
<1>3. SoundBefore(at + 1)
  BY <1>1 DEF SoundBefore
<1>4. SoundBefore(at)' /\ written' = TotalBefore(at)'
  BY <1>1, <1>2, <1>3, TotalGrows DEF SoundBefore
<1> QED
  BY <1>1, <1>4 DEF Judged, Refusals

LEMMA EntryRefused ==
  ASSUME Judged, ExtractTypeOK, Running, UNCHANGED <<inputVars, at>>,
         verdict' = Defect(at), verdict' \in Refusals
  PROVE  Judged'
<1>1. SoundBefore(at) /\ at \in DOMAIN archive
  BY LenProperties DEF Judged, Running, Accepting, ExtractTypeOK
<1>2. \A k : Defect(k)' = Defect(k)
  BY DefectsStay
<1>3. SoundBefore(at)' /\ at' \in DOMAIN archive' /\ Defect(at)' = verdict'
  BY <1>1, <1>2 DEF SoundBefore, inputVars
<1> QED
  BY <1>3 DEF Judged, Accepting, Refusals

\* A failure of the operating system is never taken for the archive's.
LEMMA FaultJudged ==
  ASSUME fault' = TRUE, verdict' \in Refusals
  PROVE  Judged'
  BY DEF Judged, Accepting, Refusals

\* What is in the way of a path is an entry before it.
LEMMA InTheWay ==
  ASSUME Taken, TypeOK, WritesFile
  PROVE  LET p == Current.target IN
         /\ Blocked(Front(p)) <=> Above(p) \cap FilesBefore(at) # {}
         /\ CanCreate(p) \/ Blocked(Front(p)) <=>
              Blocked(Front(p)) \/ p \notin MadeBefore(at)
<1> DEFINE p == Current.target
<1>1. p \in Paths /\ p # Root
  BY CurrentTyped DEF TypeOK, WritesFile
<1>2. Above(p) = Above(Front(p)) \cup {Front(p)}
  BY <1>1, FrontIsAbove
<1>3. Files = FilesBefore(at) /\ dirs = {Root} \cup (MadeBefore(at) \ Files)
  BY DEF Taken
<1>4. Files \subseteq MadeBefore(at)
  BY <1>3 DEF FilesBefore, MadeBefore
<1> QED
  BY <1>1, <1>2, <1>3, <1>4 DEF Blocked, CanCreate

\* What is wrong with the entry that is written, from what the machine knows.
LEMMA DefectOfCurrent ==
  ASSUME ArchiveInv, WritesFile
  PROVE  Defect(at) =
           IF Blocked(Front(Current.target)) THEN "internal"
           ELSE IF Current.damage = "header" THEN "invalid"
           ELSE IF ~CanCreate(Current.target) THEN "internal"
           ELSE IF Readable > MaxFile /\ written + MaxFile <= MaxTotal THEN "fileSize"
           ELSE IF written + Readable > MaxTotal THEN "totalSize"
           ELSE IF Current.damage = "data" THEN Damaged
           ELSE "none"
<1>1. Taken /\ written = TotalBefore(at) /\ Refusal(Current) = "none" /\ Current.kind = "file" /\ TypeOK
  BY DEF ArchiveInv, Judged, WritesFile, Running, Accepting, TypeInv
<1>2. Defect(at) = DefectOfFile(Current, at)
  BY <1>1 DEF Defect, Current
<1> QED
  BY <1>1, <1>2, InTheWay DEF DefectOfFile, Readable

\* The copy finds exactly that.
LEMMA CopyFinds ==
  ASSUME ArchiveInv, Creates
  PROVE  /\ CopyVerdict(Least(Readable, CopyBytes), Current.damage = "data" /\ Readable <= CopyLimit) =
              (IF Defect(at) = "none" THEN "extracting" ELSE Defect(at))
         /\ Defect(at) = "none" => Least(Readable, CopyBytes) = Current.size
         /\ Defect(at) # "none" => Defect(at) \in Refusals
<1>1. /\ written \in Nat /\ written <= MaxTotal /\ Readable \in Nat
      /\ Current.damage # "data" => Readable = Current.size
  BY CurrentTyped DEF ArchiveInv, TypeInv, TypeOK, ExtractTypeOK, ExtractionBounded, Creates,
     WritesFile, Running, Readable
<1>2. Defect(at) =
        IF Readable > MaxFile /\ written + MaxFile <= MaxTotal THEN "fileSize"
        ELSE IF written + Readable > MaxTotal THEN "totalSize"
        ELSE IF Current.damage = "data" THEN Damaged
        ELSE "none"
  BY DefectOfCurrent DEF Creates
<1>3. CASE Readable > MaxFile /\ written + MaxFile <= MaxTotal
  <2>1. CopyLimit = MaxFile /\ Least(Readable, CopyBytes) = MaxFile + 1
    BY <1>1, <1>3 DEF CopyLimit, CopyBytes, Least
  <2> QED
    BY <1>1, <1>2, <1>3, <2>1 DEF CopyVerdict, Refusals
<1>4. CASE ~(Readable > MaxFile /\ written + MaxFile <= MaxTotal) /\ written + Readable > MaxTotal
  <2>1. /\ Least(Readable, CopyBytes) \in 0 .. MaxFile
        /\ written + Least(Readable, CopyBytes) > MaxTotal
    BY <1>1, <1>4 DEF CopyLimit, CopyBytes, Least
  <2> QED
    BY <1>1, <1>2, <1>4, <2>1 DEF CopyVerdict, Refusals
<1>5. CASE ~(Readable > MaxFile /\ written + MaxFile <= MaxTotal) /\ ~(written + Readable > MaxTotal)
  <2>1. Least(Readable, CopyBytes) = Readable /\ Readable <= CopyLimit /\ Readable <= MaxFile
    BY <1>1, <1>5 DEF CopyLimit, CopyBytes, Least
  <2> QED
    BY <1>1, <1>2, <1>5, <2>1 DEF CopyVerdict, Damaged, Refusals
<1> QED
  BY <1>3, <1>4, <1>5

LEMMA ExtractNextJudged ==
  ASSUME ArchiveInv, stage = "extract", ExtractNext, UNCHANGED stage
  PROVE  Judged'
<1>1. TypeOK /\ TreeOK /\ ExtractTypeOK /\ Judged
  BY DEF ArchiveInv, TypeInv, TypeOK
<1>2. /\ verdict = "extracting" /\ dirs # {} /\ Taken /\ UNCHANGED inputVars
      /\ Len(archive) \in Nat /\ at \in Nat \ {0}
  <2>1. verdict = "extracting" /\ UNCHANGED inputVars
    BY DEF ExtractNext, RefuseEntry, SkipGlobalHeader, MakeDirectory, CannotCreate, WriteFile, DiskFails,
       EndOfArchive, Creates, WritesFile, Running
  <2> QED
    BY <1>1, <2>1, LenProperties DEF Judged, Accepting, ExtractTypeOK
<1>3. CASE RefuseEntry
  <2>1. Defect(at) = Refusal(Current) /\ Refusal(Current) \in Refusals
    BY <1>3 DEF RefuseEntry, Defect, Current, Refusal, Refusals
  <2> QED
    BY <1>1, <1>2, <1>3, <2>1, EntryRefused DEF RefuseEntry, Fail
<1>4. CASE SkipGlobalHeader
  <2>1. Defect(at) = "none" /\ SizeOf(archive[at]) = 0 /\ archive[at].kind = "global"
    BY <1>4 DEF SkipGlobalHeader, Defect, Current, SizeOf
  <2>2. /\ UNCHANGED <<dirs, content, written, verdict>> /\ at' = at + 1 /\ Running
        /\ archive' = archive /\ written \in Nat
    BY <1>1, <1>2, <1>4 DEF SkipGlobalHeader, inputVars, ExtractTypeOK
  <2>3. Taken'
    BY <1>2, <2>1, <2>2, NothingTaken
  <2>4. dirs' # {} /\ written' = written + SizeOf(archive[at])
    BY <1>2, <2>1, <2>2
  <2> QED
    BY <1>1, <1>2, <2>1, <2>2, <2>3, <2>4, EntryAccepted
<1>5. CASE MakeDirectory
  <2>1. /\ SizeOf(archive[at]) = 0 /\ archive[at].kind = "dir" /\ Running
        /\ Files = FilesBefore(at)
        /\ Defect(at) = IF Blocked(archive[at].target) THEN "internal" ELSE "none"
    BY <1>2, <1>5 DEF MakeDirectory, Defect, Current, SizeOf, Taken, Blocked
  <2>2. CASE Blocked(archive[at].target)
    BY <1>1, <1>2, <1>5, <2>1, <2>2, EntryRefused DEF MakeDirectory, Fail, Refusals, Current
  <2>3. CASE ~Blocked(archive[at].target)
    <3>1. /\ MkdirAll(archive[at].target) /\ at' = at + 1
          /\ UNCHANGED <<content, written, verdict>> /\ archive' = archive /\ written \in Nat
      BY <1>1, <1>5, <2>3 DEF MakeDirectory, Current, inputVars, ExtractTypeOK
    <3>2. Taken'
      BY <1>1, <1>2, <2>1, <2>3, <3>1, DirectoryTaken
    <3>3. dirs' # {} /\ written' = written + SizeOf(archive[at])
      BY <2>1, <3>1 DEF MkdirAll
    <3> QED
      BY <1>1, <1>2, <2>1, <2>3, <3>1, <3>2, <3>3, EntryAccepted
  <2> QED
    BY <2>2, <2>3
<1>6. CASE CannotCreate
  <2>1. WritesFile /\ Running /\ UNCHANGED at
    BY <1>6 DEF CannotCreate, WritesFile
  <2>2. verdict' = Defect(at) /\ verdict' \in Refusals
    BY <1>6, <2>1, DefectOfCurrent DEF CannotCreate, Fail, Refusals
  <2> QED
    BY <1>1, <1>2, <2>1, <2>2, EntryRefused
<1>7. CASE WriteFile
  <2> DEFINE n == Least(Readable, CopyBytes)
             f == Current.damage = "data" /\ Readable <= CopyLimit
  <2>1. /\ Creates /\ Running /\ Current.kind = "file"
        /\ Copied(n, f)
    BY <1>7 DEF WriteFile, Creates, WritesFile
  <2>2. /\ verdict' = CopyVerdict(n, f)
        /\ written' = written + n
        /\ MkdirAll(Front(Current.target))
        /\ content' = [p \in Files \cup {Current.target} |->
                         IF p = Current.target THEN n ELSE content[p]]
        /\ at' = IF verdict' = "extracting" THEN at + 1 ELSE at
    BY <2>1 DEF Copied
  <2>3. /\ CopyVerdict(n, f) = (IF Defect(at) = "none" THEN "extracting" ELSE Defect(at))
        /\ Defect(at) = "none" => n = Current.size
        /\ Defect(at) # "none" => Defect(at) \in Refusals
    BY <2>1, CopyFinds
  <2> HIDE DEF n, f
  <2>4. CASE Defect(at) = "none"
    <3>1. verdict' = verdict /\ at' = at + 1 /\ SizeOf(archive[at]) = n /\ archive' = archive
      BY <1>2, <2>1, <2>2, <2>3, <2>4 DEF SizeOf, Current, inputVars
    <3>2. Taken'
      BY <1>1, <1>2, <2>1, <2>2, <2>3, <2>4, <3>1, FileTaken
    <3>3. dirs' # {}
      BY <2>2 DEF MkdirAll
    <3> QED
      BY <1>1, <1>2, <2>1, <2>2, <2>4, <3>1, <3>2, <3>3, EntryAccepted
  <2>5. CASE Defect(at) # "none"
    <3>1. verdict' = Defect(at) /\ Defect(at) \in Refusals /\ at' = at
      BY <2>2, <2>3, <2>5 DEF Refusals
    <3> QED
      BY <1>1, <1>2, <2>1, <3>1, EntryRefused
  <2> QED
    BY <2>4, <2>5
<1>8. CASE DiskFails
  <2>1. fault' = TRUE /\ verdict' \in Refusals
    BY <1>8 DEF DiskFails, Fail, Copied, CopyVerdict, Refusals
  <2> QED
    BY <2>1, FaultJudged
<1>9. CASE EndOfArchive
  <2>1. /\ at = Len(archive) + 1 /\ UNCHANGED <<dirs, content, at, written>>
        /\ SoundBefore(at) /\ written = TotalBefore(at) /\ verdict' = "extracted"
    BY <1>1, <1>2, <1>9 DEF EndOfArchive, ExtractTypeOK, Judged, Accepting
  <2>2. Taken' /\ SoundBefore(at)' /\ written' = TotalBefore(at)' /\ at' = Len(archive)' + 1
    <3>1. archive' = archive
      BY <1>2 DEF inputVars
    <3>2. Taken'
      BY <1>2, <2>1, <3>1 DEF Taken, FilesBefore, MadeBefore, IsFile, Files
    <3> QED
      BY <1>2, <2>1, <3>1, <3>2, DefectsStay DEF SoundBefore
  <2> QED
    BY <2>1, <2>2 DEF Judged, Accepting, Refusals
<1> QED
  BY <1>3, <1>4, <1>5, <1>6, <1>7, <1>8, <1>9 DEF ExtractNext

LEMMA JudgedStep == ArchiveInv /\ [Next]_vars => Judged'
<1> SUFFICES ASSUME ArchiveInv, [Next]_vars PROVE Judged'
  OBVIOUS
<1>1. Judged
  BY DEF ArchiveInv
<1>2. CASE BeginArchive
  <2>1. /\ at' = 1 /\ written' = 0 /\ Files' = {} /\ dirs' = {Root} /\ stage' = "extract"
        /\ UNCHANGED inputVars
        /\ verdict' = "extracting" \/ (verdict' = "invalid" /\ fault' = TRUE)
    BY <1>2 DEF BeginArchive, ExtractStart, ArchiveInv, TypeInv, Quiet, Files
  <2>2. CASE verdict' = "extracting"
    <3>1. FilesBefore(1) = {} /\ MadeBefore(1) = {} /\ TotalBefore(1) = 0 /\ SoundBefore(1)
      BY TotalGrows DEF FilesBefore, MadeBefore, SoundBefore
    <3>2. /\ FilesBefore(at)' = {} /\ MadeBefore(at)' = {} /\ TotalBefore(at)' = 0
          /\ SoundBefore(at)'
      BY <2>1, <3>1, DefectsStay DEF SoundBefore
    <3>3. Taken'
      BY <2>1, <3>2 DEF Taken
    <3> QED
      BY <2>1, <2>2, <3>2, <3>3 DEF Judged, Accepting, Refusals
  <2>3. CASE verdict' = "invalid" /\ fault' = TRUE
    BY <2>3, FaultJudged DEF Refusals
  <2> QED
    BY <2>1, <2>2, <2>3
<1>3. CASE ExtractStep
  BY <1>3, ExtractNextJudged DEF ExtractStep
<1>4. CASE ~BeginArchive /\ ~ExtractStep
  <2>1. UNCHANGED <<inputVars, at, written, verdict, fault>>
    BY <1>4 DEF Next, CannotBegin, BeginDirectory, ExtractionFails, SearchArchive, SearchStep, SearchFails,
       SearchSucceeds, vars, extractVars, inputVars
  <2>2. dirs' = {} \/ UNCHANGED <<dirs, content>>
    BY <1>4 DEF Next, CannotBegin, BeginDirectory, ExtractionFails, SearchArchive, SearchStep, SearchFails,
       SearchSucceeds, vars, Cleanup
  <2>3. verdict = "extracting" => UNCHANGED <<stage, dirs>>
    BY <1>1, <1>4 DEF Next, CannotBegin, BeginDirectory, ExtractionFails, SearchArchive, SearchStep, SearchFails,
       SearchSucceeds, vars, Judged, Refusals
  <2>4. archive' = archive
    BY <2>1 DEF inputVars
  <2>5. SoundBefore(at)' = SoundBefore(at) /\ TotalBefore(at)' = TotalBefore(at) /\ Defect(at)' = Defect(at)
    BY <2>1, DefectsStay DEF SoundBefore
  <2>6. UNCHANGED <<dirs, content>> => Taken' = Taken
    BY <2>1, <2>4 DEF Taken, FilesBefore, MadeBefore, IsFile, Files
  <2> QED
    BY <1>1, <2>1, <2>2, <2>3, <2>4, <2>5, <2>6 DEF Judged, Accepting
<1> QED
  BY <1>2, <1>3, <1>4

LEMMA ArchiveInvariant == Spec => []ArchiveInv
<1>1. Init => ArchiveInv
  <2>1. Init => verdict = "none"
    BY DEF Init, ExtractInit
  <2> QED
    BY <2>1, TypeInit DEF ArchiveInv, ExtractionBounded, Judged, Accepting, Refusals
<1>2. ArchiveInv /\ [Next]_vars => ArchiveInv'
  BY TypeStep, QuietStep, BoundedStep, JudgedStep DEF ArchiveInv, TypeInv
<1> QED
  BY <1>1, <1>2, PTL DEF Spec

\* An archive is refused for the first thing that is wrong in it and for nothing
\* else, whatever its entries, its damage and the limits.
THEOREM FirstDefectIsNamed == Spec => []FirstDefectDecides
<1>1. ArchiveInv => FirstDefectDecides
  <2> SUFFICES ASSUME ArchiveInv, verdict \in Refusals \cup {"extracted"}, ~fault
               PROVE  verdict = IF Defective = {} THEN "extracted" ELSE Defect(Min(Defective))
    BY DEF FirstDefectDecides
  <2>1. Len(archive) \in Nat /\ DOMAIN archive = 1 .. Len(archive) /\ Judged
    BY LenProperties DEF ArchiveInv, TypeInv, TypeOK, ExtractTypeOK
  <2>2. CASE verdict = "extracted"
    <3>1. at = Len(archive) + 1 /\ SoundBefore(at)
      BY <2>1, <2>2 DEF Judged, Accepting
    <3>2. Defective = {}
      BY <2>1, <3>1 DEF Defective, SoundBefore
    <3> QED
      BY <2>2, <3>2
  <2>3. CASE verdict \in Refusals
    <3>1. at \in DOMAIN archive /\ Defect(at) = verdict /\ SoundBefore(at)
      BY <2>1, <2>3 DEF Judged
    <3>2. at \in Defective /\ Defective \subseteq Nat
      BY <2>1, <2>3, <3>1 DEF Defective, Refusals
    <3>3. \A k \in Defective : at <= k
      BY <2>1, <3>1 DEF Defective, SoundBefore
    <3>4. Min(Defective) = at
      <4>1. \E x \in Defective : \A y \in Defective : x <= y
        BY <3>2, <3>3
      <4>2. Min(Defective) \in Defective /\ \A y \in Defective : Min(Defective) <= y
        BY <4>1, Zenon DEF Min
      <4>3. Min(Defective) \in Nat /\ at \in Nat /\ Min(Defective) <= at /\ at <= Min(Defective)
        BY <3>2, <3>3, <4>2
      <4> QED
        BY <4>3
    <3> QED
      BY <3>1, <3>2, <3>4
  <2> QED
    BY <2>2, <2>3
<1> QED
  BY <1>1, ArchiveInvariant, PTL

\* What is extracted is the archive, the whole archive and nothing but the
\* archive, for every archive that is accepted.
THEOREM ArchiveIsExtracted == Spec => []ExtractedExactly
<1>1. ArchiveInv => ExtractedExactly
  <2> SUFFICES ASSUME ArchiveInv, verdict = "extracted", dirs # {}
               PROVE  /\ Files = {archive[k].target : k \in FileEntries}
                      /\ \A k \in FileEntries : content[archive[k].target] = archive[k].size
                      /\ \A j, k \in FileEntries : archive[j].target = archive[k].target => j = k
                      /\ dirs = {Root} \cup (MadeBefore(Len(archive) + 1) \ Files)
                      /\ written = TotalBefore(Len(archive) + 1)
    BY DEF ExtractedExactly
  <2>1. /\ Len(archive) \in Nat /\ DOMAIN archive = 1 .. Len(archive)
        /\ at = Len(archive) + 1 /\ Taken /\ written = TotalBefore(at)
    BY LenProperties DEF ArchiveInv, TypeInv, TypeOK, ExtractTypeOK, Judged, Accepting
  <2>2. FileEntries = {i \in 1 .. at - 1 : archive[i].kind = "file"}
    BY <2>1 DEF FileEntries
  <2>3. \A k \in FileEntries : k \in 1 .. at - 1 /\ IsFile(k)
    BY <2>2 DEF IsFile
  <2> QED
    BY <2>1, <2>2, <2>3 DEF Taken, FilesBefore
<1> QED
  BY <1>1, ArchiveInvariant, PTL
-----------------------------------------------------------------------------
(* What the search of an extracted archive finds. *)
\* What the search of an extracted archive rests on, and what it comes to.
Searched ==
  /\ \A k \in DOMAIN archive : Len(archive[k].target) <= Unlimited
  /\ IsArchive => unreadable = {}
  /\ IsArchive /\ found # "none" => opts = ArchiveOptions /\ verdict = "extracted"
  /\ IsArchive /\ (stage = "search" \/ (stage = "extract" /\ verdict = "extracted")) => dirs # {}
  /\ IsArchive /\ found \in Answers \ {"pathError"} /\ flickered = {} /\ entries < opts.entries =>
       roots = CollectionsOfArchive
  /\ stage = "ready" => found = "root"
  /\ code = 4 => found \in {"notAPtStalkDir", "multipleRoots"}

\* The collections of the extracted tree are those packed in the archive.
LEMMA PackedCollections ==
  ASSUME TypeOK, Judged, Searched, IsArchive, found # "none", dirs # {}
  PROVE  Collections = CollectionsOfArchive
<1>1. /\ unreadable = {} /\ opts.hidden /\ opts.depth = Unlimited /\ Unlimited \in Nat
      /\ at = Len(archive) + 1 /\ Taken /\ TreeOK
  BY OptionAssumption DEF Searched, ArchiveOptions, Judged, Accepting, TypeOK
<1>2. Len(archive) \in Nat /\ DOMAIN archive = 1 .. Len(archive)
  BY LenProperties DEF TypeOK, ExtractTypeOK
<1>3. Files = {archive[k].target : k \in FileEntries}
  <2>1. FileEntries = {i \in 1 .. at - 1 : archive[i].kind = "file"}
    BY <1>1, <1>2 DEF FileEntries
  <2> QED
    BY <1>1, <2>1 DEF Taken, FilesBefore
<1>4. Root \in dirs
  BY <1>1 DEF Taken, Files
<1>5. \A f \in Files : f \in Paths /\ f # Root /\ Len(f) <= Unlimited
  <2>1. \A f \in Files : f \in Paths /\ f \notin dirs
    BY <1>1 DEF TreeOK
  <2> QED
    BY <1>3, <1>4, <2>1 DEF Searched, FileEntries
<1>6. \A f \in Files : Front(f) \in dirs /\ Len(Front(f)) <= opts.depth
  <2>1. \A f \in Files : Above(f) \subseteq dirs
    BY <1>1 DEF TreeOK
  <2>2. ASSUME NEW f \in Files PROVE Front(f) \in Above(f) /\ Len(Front(f)) = Len(f) - 1 /\ Len(f) \in Nat
    BY <1>5, FrontIsAbove
  <2> QED
    BY <1>1, <1>5, <2>1, <2>2
<1>7. \A d \in dirs : Searchable(d) <=> Len(d) <= opts.depth
  BY <1>1 DEF Searchable
<1>8. Collections = {d \in dirs : Len(d) <= opts.depth /\ \E f \in Files : Front(f) = d /\ Last(f) \in Signals}
  BY <1>5, <1>7 DEF Collections, LooksLikePtStalkRoot, Children
<1>9. Collections = {Front(f) : f \in {g \in Files : Last(g) \in Signals}}
  BY <1>6, <1>8
<1> QED
  BY <1>3, <1>9 DEF CollectionsOfArchive

PackedInv == ArchiveInv /\ SearchInv /\ AnswerIsOutcome /\ Searched

LEMMA SearchedInit == Init => Searched
<1> SUFFICES ASSUME Init PROVE Searched
  OBVIOUS
<1>1. found = "none" /\ stage = "stat" /\ code = 0
  BY DEF Init, SearchInit
<1>2. \A k \in DOMAIN archive : Len(archive[k].target) <= Unlimited
  BY InputAssumption DEF Init
<1>3. IsArchive => unreadable = {}
  BY InputAssumption DEF Init, IsArchive
<1> QED
  BY <1>1, <1>2, <1>3 DEF Searched, Answers

\* The walk of an archive that ends below its cap has all its collections.
LEMMA EndFindsPacked ==
  ASSUME PackedInv, SearchStep, EndSearch, IsArchive, flickered = {}, entries < opts.entries
  PROVE  roots = CollectionsOfArchive
<1>1. found = "searching" /\ pending = {} /\ stage = "search"
  BY DEF SearchStep, EndSearch, WithinCap
<1>2. dirs # {}
  BY <1>1 DEF PackedInv, Searched
<1>3. roots = Collections
  BY <1>1, <1>2 DEF PackedInv, SearchInv, NoCollectionLost
<1>4. TypeOK /\ Judged /\ Searched
  BY DEF PackedInv, ArchiveInv, TypeInv
<1> QED
  BY <1>1, <1>2, <1>3, <1>4, PackedCollections

LEMMA SearchStepSearched ==
  ASSUME PackedInv, SearchStep
  PROVE  Searched'
<1>1. /\ Searched /\ stage = "search" /\ found = "searching"
      /\ UNCHANGED <<dirs, format, archive, verdict, stage, code, opts, unreadable>>
  BY DEF PackedInv, SearchStep, SearchNext, VisitFile, PruneDirectory, VisitDirectory, EndSearch, extractVars
<1>2. CollectionsOfArchive' = CollectionsOfArchive /\ IsArchive' = IsArchive
  BY <1>1 DEF CollectionsOfArchive, FileEntries, IsArchive
<1>3. CASE EndSearch
  <2>1. UNCHANGED <<entries, roots, flickered>>
    BY <1>3 DEF EndSearch
  <2>2. IsArchive' /\ flickered' = {} /\ entries' < opts'.entries => roots' = CollectionsOfArchive'
    BY <1>1, <1>2, <1>3, <2>1, EndFindsPacked
  <2>3. found' # "none" => found # "none"
    BY <1>1
  <2>4. stage # "ready" /\ code # 4
    BY <1>1 DEF PackedInv, ArchiveInv, TypeInv, TypeOK
  <2> QED
    BY <1>1, <1>2, <2>2, <2>3, <2>4 DEF Searched
<1>4. CASE ~EndSearch
  <2>1. found' \in {"searching", "pathError"}
    BY <1>1, <1>4 DEF SearchStep, SearchNext, VisitFile, PruneDirectory, VisitDirectory
  <2>2. stage # "ready" /\ code # 4
    BY <1>1 DEF PackedInv, ArchiveInv, TypeInv, TypeOK
  <2> QED
    BY <1>1, <1>2, <2>1, <2>2 DEF Searched, Answers
<1> QED
  BY <1>3, <1>4

LEMMA SearchedStep == PackedInv /\ [Next]_vars => Searched'
<1> SUFFICES ASSUME PackedInv, [Next]_vars PROVE Searched'
  OBVIOUS
<1>1. Searched /\ Judged /\ Quiet /\ (code # 0 => stage = "failed")
  BY DEF PackedInv, ArchiveInv, TypeInv, TypeOK
<1>2. CASE SearchStep
  BY <1>2, SearchStepSearched
<1>3. CASE ~SearchStep
  <2>1. /\ UNCHANGED <<format, archive, unreadable, entries, roots, flickered>>
        /\ CollectionsOfArchive' = CollectionsOfArchive /\ IsArchive' = IsArchive
    <3>1. UNCHANGED <<format, archive, unreadable, entries, roots, flickered>>
      <4>1. CASE BeginDirectory \/ BeginArchive \/ SearchArchive \/ CannotBegin
        BY <4>1 DEF BeginDirectory, BeginArchive, SearchArchive, CannotBegin, SearchStart, ExtractStart,
           searchVars, extractVars, inputVars
      <4>2. CASE ExtractStep
        BY <4>2 DEF ExtractStep, ExtractNext, RefuseEntry, SkipGlobalHeader, MakeDirectory, CannotCreate,
           WriteFile, DiskFails, EndOfArchive, searchVars, inputVars
      <4>3. CASE ExtractionFails \/ SearchFails \/ SearchSucceeds \/ UNCHANGED vars
        BY <4>3 DEF ExtractionFails, SearchFails, SearchSucceeds, searchVars, extractVars, vars
      <4> QED
        BY <1>3, <4>1, <4>2, <4>3 DEF Next
    <3> QED
      BY <3>1 DEF CollectionsOfArchive, FileEntries, IsArchive
  <2>2. CASE CannotBegin
    BY <1>1, <2>1, <2>2 DEF CannotBegin, Exit, CodeOf, searchVars, Searched, Quiet, extractVars
  <2>3. CASE BeginDirectory
    BY <1>1, <2>1, <2>3 DEF BeginDirectory, SearchStart, Searched
  <2>4. CASE BeginArchive
    BY <1>1, <2>1, <2>4 DEF BeginArchive, ExtractStart, searchVars, Searched, Quiet
  <2>5. CASE ExtractStep
    <3>1. verdict = "extracting" /\ UNCHANGED <<searchVars, stage, code>>
      BY <2>5 DEF ExtractStep, ExtractNext, RefuseEntry, SkipGlobalHeader, MakeDirectory, CannotCreate,
         WriteFile, DiskFails, EndOfArchive, Creates, WritesFile, Running
    <3>2. found = "none" /\ stage = "extract" /\ code # 4 /\ found' = "none" /\ stage' = "extract" /\ code' # 4
      BY <1>1, <2>5, <3>1 DEF ExtractStep, Quiet, searchVars
    <3>3. verdict' = "extracted" => UNCHANGED dirs
      BY <2>5 DEF ExtractStep, ExtractNext, RefuseEntry, SkipGlobalHeader, MakeDirectory, CannotCreate, Fail,
         WriteFile, DiskFails, EndOfArchive, Copied, CopyVerdict, Creates, WritesFile, Running, Refusal
    <3>4. dirs # {}
      BY <1>1, <3>1 DEF Judged
    <3> QED
      BY <1>1, <2>1, <3>2, <3>3, <3>4 DEF Searched, Answers
  <2>6. CASE ExtractionFails
    BY <1>1, <2>1, <2>6 DEF ExtractionFails, Exit, CodeOf, searchVars, extractVars, Searched, Refusals, Quiet,
       Answers
  <2>7. CASE SearchArchive
    BY <1>1, <2>1, <2>7 DEF SearchArchive, SearchStart, Searched, extractVars, Answers
  <2>8. CASE SearchFails
    BY <1>1, <2>1, <2>8 DEF SearchFails, Exit, CodeOf, searchVars, extractVars, Searched, Answers
  <2>9. CASE SearchSucceeds
    BY <1>1, <2>1, <2>9 DEF SearchSucceeds, searchVars, extractVars, Searched
  <2>10. CASE UNCHANGED vars
    BY <1>1, <2>1, <2>10 DEF vars, searchVars, extractVars, Searched
  <2> QED
    BY <1>3, <2>2, <2>3, <2>4, <2>5, <2>6, <2>7, <2>8, <2>9, <2>10 DEF Next
<1> QED
  BY <1>2, <1>3

\* What an archive is accepted or refused for is what is packed in it.
THEOREM PackedIsFound == Spec => []ArchiveByItsCollection
<1>1. Init => PackedInv
  <2>1. Init => ArchiveInv
    BY TypeInit DEF Init, ExtractInit, ArchiveInv, ExtractionBounded, Judged, Accepting, Refusals
  <2>2. Init => SearchInv /\ AnswerIsOutcome
    BY TypeInit DEF Init, SearchInit, SearchInv, PendingIsWalked, NoCollectionLost, AnswerIsOutcome, Answers
  <2> QED
    BY <2>1, <2>2, SearchedInit DEF PackedInv
<1>2. PackedInv /\ [Next]_vars => PackedInv'
  <2>1. PackedInv /\ [Next]_vars => ArchiveInv'
    BY TypeStep, QuietStep, BoundedStep, JudgedStep DEF PackedInv, ArchiveInv, TypeInv
  <2>2. PackedInv /\ [Next]_vars => SearchInv'
    BY TypeStep, QuietStep, SearchInvStep DEF PackedInv, SearchInv, TypeInv
  <2> QED
    BY <2>1, <2>2, AnswerStep, SearchedStep DEF PackedInv
<1>3. PackedInv => ArchiveByItsCollection
  <2> SUFFICES ASSUME PackedInv, IsArchive, flickered = {}, entries < opts.entries
               PROVE  /\ stage = "ready" => roots = CollectionsOfArchive
                      /\ code = 4 => Cardinality(CollectionsOfArchive) # 1
    BY DEF ArchiveByItsCollection
  <2>1. stage = "ready" => roots = CollectionsOfArchive
    BY DEF PackedInv, Searched, Answers
  <2>2. ASSUME code = 4 PROVE Cardinality(CollectionsOfArchive) # 1
    <3>1. found \in {"notAPtStalkDir", "multipleRoots"} /\ roots = CollectionsOfArchive /\ found = Outcome
      BY <2>2 DEF PackedInv, Searched, Answers, AnswerIsOutcome
    <3>2. ~\E d : roots = {d}
      BY <3>1 DEF Outcome
    <3>3. IsFiniteSet(CollectionsOfArchive)
      <4> DEFINE K == {i \in FileEntries : Last(archive[i].target) \in Signals}
      <4>1. Len(archive) \in Nat /\ DOMAIN archive = 1 .. Len(archive)
        BY LenProperties DEF PackedInv, ArchiveInv, TypeInv, TypeOK, ExtractTypeOK
      <4>2. IsFiniteSet(DOMAIN archive)
        BY <4>1, FS_Interval
      <4>3. K \subseteq DOMAIN archive
        BY DEF FileEntries
      <4>4. IsFiniteSet(K)
        BY <4>2, <4>3, FS_Subset
      <4> DEFINE front == [k \in K |-> Front(archive[k].target)]
      <4>5. front \in Surjection(K, CollectionsOfArchive)
        BY DEF CollectionsOfArchive, Surjection
      <4> HIDE DEF K, front
      <4> QED
        BY <4>4, <4>5, FS_Surjection
    <3> QED
      BY <3>1, <3>2, <3>3, FS_Singleton
  <2> QED
    BY <2>1, <2>2
<1> QED
  BY <1>1, <1>2, <1>3, PTL DEF Spec
-----------------------------------------------------------------------------
(* The order of the walk. *)
\* The names of a path are numbers.
LEMMA NamesOfPath ==
  ASSUME NEW p \in Paths
  PROVE  Len(p) \in Nat /\ \A i \in 1 .. Len(p) : p[i] \in Names /\ p[i] \in Nat
  BY LenProperties, ElementOfSeq, NameAssumption DEF Paths

\* Two paths begin alike if their names do.
LEMMA BeginAlike ==
  ASSUME NEW p \in Paths, NEW q \in Paths, NEW n \in 0 .. Len(p), n <= Len(q)
  PROVE  SubSeq(p, 1, n) = SubSeq(q, 1, n) <=> \A i \in 1 .. n : p[i] = q[i]
<1>1. Len(p) \in Nat /\ Len(q) \in Nat /\ n \in Int /\ 1 \in Int
  BY NamesOfPath
<1>2. /\ \A i \in 1 .. n : p[i] \in Names
      /\ \A i \in 1 .. n : q[i] \in Names
  BY <1>1, NamesOfPath
<1>3. \A i \in 1 .. n : SubSeq(p, 1, n)[i] = p[i]
  BY <1>1, <1>2, SubSeqProperties
<1>4. \A i \in 1 .. n : SubSeq(q, 1, n)[i] = q[i]
  BY <1>1, <1>2, SubSeqProperties
<1>5. SubSeq(p, 1, n) \in Paths /\ Len(SubSeq(p, 1, n)) = n
  BY <1>1, PrefixTyped
<1>6. SubSeq(q, 1, n) \in Paths /\ Len(SubSeq(q, 1, n)) = n
  BY <1>1, PrefixTyped
<1>7. (\A i \in 1 .. n : p[i] = q[i]) => SubSeq(p, 1, n) = SubSeq(q, 1, n)
  BY <1>3, <1>4, <1>5, <1>6, SeqEqual DEF Paths
<1> QED
  BY <1>3, <1>4, <1>7

\* A strict prefix is what lies above.
LEMMA StrictPrefixIsAbove ==
  ASSUME NEW p \in Paths, NEW q \in Paths
  PROVE  IsStrictPrefix(p, q) <=> p \in Above(q)
<1>1. Len(p) \in Nat /\ Len(q) \in Nat /\ SubSeq(p, 1, Len(p)) = p /\ SubSeq(q, 1, Len(q)) = q
  BY NamesOfPath, SubSeqFull DEF Paths
<1>2. ASSUME IsStrictPrefix(p, q) PROVE p \in Above(q)
  <2>1. Len(p) <= Len(q) /\ p = SubSeq(q, 1, Len(p)) /\ p # q
    BY <1>1, <1>2 DEF IsStrictPrefix, IsPrefix
  <2>2. Len(p) # Len(q)
    BY <1>1, <2>1
  <2>3. Len(p) \in 0 .. Len(q) - 1
    <3>1. Len(p) \in Nat /\ Len(q) \in Nat /\ Len(p) <= Len(q) /\ Len(p) # Len(q)
      BY <1>1, <2>1, <2>2, Zenon
    <3> QED
      BY <3>1
  <2> QED
    BY <2>1, <2>3, Zenon DEF Above
<1>3. ASSUME p \in Above(q) PROVE IsStrictPrefix(p, q)
  <2>1. PICK n \in 0 .. Len(q) - 1 : p = SubSeq(q, 1, n)
    BY <1>3 DEF Above
  <2>2. Len(p) = n
    BY <1>1, <2>1, PrefixTyped
  <2>3. Len(p) <= Len(q) /\ Len(p) # Len(q)
    <3>1. Len(q) \in Nat /\ Len(p) \in 0 .. Len(q) - 1
      BY <1>1, <2>2, Zenon
    <3> QED
      BY <3>1
  <2>4. SubSeq(q, 1, Len(p)) = p
    BY <2>1, <2>2, Zenon
  <2> QED
    BY <1>1, <2>3, <2>4, Zenon DEF IsStrictPrefix, IsPrefix
<1> QED
  BY <1>2, <1>3

\* p and q part at their n-th name, and p comes first.
PartsAt(p, q, n) ==
  /\ n \in 1 .. Len(q) /\ n <= Len(p) + 1
  /\ \A i \in 1 .. n - 1 : p[i] = q[i]
  /\ n <= Len(p) => p[n] < q[n]

LEMMA BeforeByParting ==
  ASSUME NEW p \in Paths, NEW q \in Paths
  PROVE  WalksBefore(p, q) <=> \E n \in Nat : PartsAt(p, q, n)
<1>1. Len(p) \in Nat /\ Len(q) \in Nat
  BY NamesOfPath
<1>2. IsStrictPrefix(p, q) <=> PartsAt(p, q, Len(p) + 1)
  <2>1. IsStrictPrefix(p, q) <=> Len(p) <= Len(q) /\ SubSeq(p, 1, Len(p)) = SubSeq(q, 1, Len(p)) /\ p # q
    BY DEF IsStrictPrefix, IsPrefix
  <2>2. Len(p) <= Len(q) =>
          (SubSeq(p, 1, Len(p)) = SubSeq(q, 1, Len(p)) <=> \A i \in 1 .. Len(p) : p[i] = q[i])
    BY <1>1, BeginAlike
  <2>3. ASSUME Len(p) = Len(q), \A i \in 1 .. Len(p) : p[i] = q[i] PROVE p = q
    BY <2>3, SeqEqual DEF Paths
  <2> QED
    BY <1>1, <2>1, <2>2, <2>3 DEF PartsAt
<1>3. ASSUME NEW n \in 1 .. Len(p), n <= Len(q)
      PROVE  SubSeq(p, 1, n - 1) = SubSeq(q, 1, n - 1) <=> \A i \in 1 .. n - 1 : p[i] = q[i]
  <2>1. n - 1 \in 0 .. Len(p) /\ n - 1 <= Len(q)
    BY <1>1, <1>3
  <2> QED
    BY <2>1, BeginAlike
<1>4. \A n \in 1 .. Len(p) :
        (n <= Len(q) /\ SubSeq(p, 1, n - 1) = SubSeq(q, 1, n - 1) /\ p[n] < q[n]) <=> PartsAt(p, q, n)
  BY <1>1, <1>3 DEF PartsAt
<1>5. \A n \in Nat : PartsAt(p, q, n) => n \in 1 .. Len(p) \/ n = Len(p) + 1
  BY <1>1 DEF PartsAt
<1> QED
  BY <1>1, <1>2, <1>4, <1>5 DEF WalksBefore

\* The order is strict and transitive, and what is above a path comes before it.
LEMMA BeforeIsStrict ==
  ASSUME NEW p \in Paths
  PROVE  ~WalksBefore(p, p)
<1>1. \A n \in Nat : ~PartsAt(p, p, n)
  BY NamesOfPath DEF PartsAt
<1> QED
  BY <1>1, BeforeByParting

LEMMA BeforeIsTransitive ==
  ASSUME NEW p \in Paths, NEW q \in Paths, NEW r \in Paths, WalksBefore(p, q), WalksBefore(q, r)
  PROVE  WalksBefore(p, r)
<1>1. PICK n \in Nat : PartsAt(p, q, n)
  BY BeforeByParting
<1>2. PICK m \in Nat : PartsAt(q, r, m)
  BY BeforeByParting
<1>3. /\ Len(p) \in Nat /\ Len(q) \in Nat /\ Len(r) \in Nat
      /\ \A i \in 1 .. Len(p) : p[i] \in Nat
      /\ \A i \in 1 .. Len(q) : q[i] \in Nat
      /\ \A i \in 1 .. Len(r) : r[i] \in Nat
  BY NamesOfPath
<1>4. CASE n < m
  <2>1. PartsAt(p, r, n)
    BY <1>1, <1>2, <1>3, <1>4 DEF PartsAt
  <2> QED
    BY <2>1, BeforeByParting
<1>5. CASE n = m
  <2>1. PartsAt(p, r, n)
    BY <1>1, <1>2, <1>3, <1>5 DEF PartsAt
  <2> QED
    BY <2>1, BeforeByParting
<1>6. CASE m < n
  <2>1. PartsAt(p, r, m)
    BY <1>1, <1>2, <1>3, <1>6 DEF PartsAt
  <2> QED
    BY <2>1, BeforeByParting
<1> QED
  BY <1>4, <1>5, <1>6

LEMMA AboveIsBefore ==
  ASSUME NEW p \in Paths, NEW a \in Above(p)
  PROVE  WalksBefore(a, p)
  BY AboveTyped, StrictPrefixIsAbove DEF WalksBefore

\* What comes before a path, and is not above it, comes before all that is
\* below it.
LEMMA BeforeWhatIsBelow ==
  ASSUME NEW p \in Paths, NEW q \in Paths, NEW b \in Paths,
         q \in Above(b) \cup {b}, WalksBefore(p, q)
  PROVE  WalksBefore(p, b)
  BY AboveIsBefore, BeforeIsTransitive

LEMMA BelowComesBefore ==
  ASSUME NEW d \in Paths, NEW q \in Paths, NEW b \in Paths,
         d \in Above(b), WalksBefore(d, q), d \notin Above(q)
  PROVE  WalksBefore(b, q)
<1>1. PICK n \in Nat : PartsAt(d, q, n)
  BY BeforeByParting
<1>2. Len(d) \in Nat /\ Len(q) \in Nat /\ Len(b) \in Nat
  BY NamesOfPath
<1>3. n # Len(d) + 1
  <2>1. ASSUME n = Len(d) + 1 PROVE FALSE
    <3>1. n \in 1 .. Len(q) /\ Len(d) \in 0 .. Len(d) /\ Len(d) <= Len(q) /\ \A i \in 1 .. Len(d) : d[i] = q[i]
      BY <1>1, <1>2, <2>1 DEF PartsAt
    <3>2. SubSeq(d, 1, Len(d)) = SubSeq(q, 1, Len(d)) /\ SubSeq(d, 1, Len(d)) = d
      BY <3>1, BeginAlike, SubSeqFull DEF Paths
    <3>3. Len(d) \in 0 .. Len(q) - 1
      BY <1>2, <2>1, <3>1
    <3> QED
      BY <3>2, <3>3 DEF Above
  <2> QED
    BY <2>1
<1>4. \A i \in 1 .. Len(d) : b[i] = d[i]
  <2>1. PICK m \in 0 .. Len(b) - 1 : d = SubSeq(b, 1, m)
    BY DEF Above
  <2>2. Len(d) = m /\ m <= Len(b) /\ m \in 0 .. Len(d)
    BY <1>2, <2>1, PrefixTyped
  <2>3. SubSeq(d, 1, m) = SubSeq(b, 1, m)
    BY <2>1, <2>2, SubSeqFull DEF Paths
  <2> QED
    BY <2>2, <2>3, BeginAlike
<1>5. Len(d) < Len(b)
  BY AboveTyped
<1>6. PartsAt(b, q, n)
  BY <1>1, <1>2, <1>3, <1>4, <1>5 DEF PartsAt
<1> QED
  BY <1>6, BeforeByParting

(* A tree is finite. *)
FiniteTree == IsFiniteSet(dirs) /\ IsFiniteSet(Files)

LEMMA FinitelyAbove ==
  ASSUME NEW p \in Paths
  PROVE  IsFiniteSet(Above(p)) /\ IsFiniteSet({p})
<1>1. Len(p) - 1 \in Int /\ 0 \in Int
  BY NamesOfPath
<1> DEFINE prefix == [n \in 0 .. Len(p) - 1 |-> SubSeq(p, 1, n)]
<1>2. prefix \in Surjection(0 .. Len(p) - 1, Above(p))
  BY DEF Above, Surjection
<1>3. IsFiniteSet(0 .. Len(p) - 1)
  BY <1>1, FS_Interval
<1> HIDE DEF prefix
<1>4. IsFiniteSet(Above(p))
  BY <1>2, <1>3, FS_Surjection
<1> QED
  BY <1>4, FS_Singleton

LEMMA FiniteStep == TypeInv /\ FiniteTree /\ [Next]_vars => FiniteTree'
<1> SUFFICES ASSUME TypeInv, FiniteTree, [Next]_vars PROVE FiniteTree'
  OBVIOUS
<1>1. CASE ExtractStep
  <2>1. CASE UNCHANGED <<dirs, content>>
    BY <2>1 DEF FiniteTree, Files
  <2>2. CASE ~UNCHANGED <<dirs, content>>
    <3>1. \E p \in Paths :
            /\ dirs' \in {dirs, dirs \cup Above(p), dirs \cup Above(p) \cup {p}}
            /\ \E q : Files' \in {Files, Files \cup {q}}
      <4>1. /\ Running /\ Refusal(Current) = "none" /\ Current.kind # "global"
            /\ ExtractTypeOK /\ verdict = "extracting"
        BY <1>1, <2>2 DEF ExtractStep, ExtractNext, RefuseEntry, SkipGlobalHeader, MakeDirectory, CannotCreate,
           WriteFile, DiskFails, EndOfArchive, Creates, WritesFile, Running, TypeInv, TypeOK
      <4>2. Current.target \in Paths /\ (Current.kind = "file" => Front(Current.target) \in Paths)
        BY <4>1, CurrentTyped, FrontIsAbove
      <4>3. CASE MakeDirectory
        BY <4>2, <4>3 DEF MakeDirectory, MkdirAll, Files
      <4>4. CASE CannotCreate
        BY <4>2, <4>4 DEF CannotCreate, WritesFile, MkdirAll, Files
      <4>5. ASSUME Creates, NEW n, NEW f, Copied(n, f)
            PROVE  /\ dirs' = dirs \cup Above(Front(Current.target)) \cup {Front(Current.target)}
                   /\ Files' = Files \cup {Current.target}
        BY <4>5 DEF Copied, MkdirAll, Files
      <4>6. CASE WriteFile
        <5>1. /\ Creates /\ Current.kind = "file"
              /\ Copied(Least(Readable, CopyBytes), Current.damage = "data" /\ Readable <= CopyLimit)
          BY <4>6 DEF WriteFile, Creates, WritesFile
        <5>2. /\ dirs' = dirs \cup Above(Front(Current.target)) \cup {Front(Current.target)}
              /\ Files' = Files \cup {Current.target}
          BY <5>1, <4>5
        <5> QED
          BY <4>2, <5>1, <5>2
      <4>7. CASE DiskFails
        <5>1. CASE Creates /\ \E n \in 0 .. Least(Readable, CopyLimit) : Copied(n, TRUE)
          <6>1. /\ dirs' = dirs \cup Above(Front(Current.target)) \cup {Front(Current.target)}
                /\ Files' = Files \cup {Current.target}
            BY <5>1, <4>5
          <6>2. Current.kind = "file"
            BY <5>1 DEF Creates, WritesFile
          <6> QED
            BY <4>2, <6>1, <6>2
        <5>2. CASE UNCHANGED content /\ dirs' \in {dirs, dirs \cup Above(Current.target)}
          BY <4>2, <5>2 DEF Files
        <5> QED
          BY <4>7, <5>1, <5>2 DEF DiskFails
      <4> QED
        BY <1>1, <2>2, <4>3, <4>4, <4>6, <4>7 DEF ExtractStep, ExtractNext, RefuseEntry, SkipGlobalHeader,
           EndOfArchive
    <3>2. PICK p \in Paths : dirs' \in {dirs, dirs \cup Above(p), dirs \cup Above(p) \cup {p}}
      BY <3>1
    <3>3. PICK q : Files' \in {Files, Files \cup {q}}
      BY <3>1
    <3>4. IsFiniteSet(dirs \cup Above(p))
      BY FinitelyAbove, FS_Union DEF FiniteTree
    <3>5. IsFiniteSet(dirs \cup Above(p) \cup {p})
      BY <3>4, FS_AddElement
    <3>6. IsFiniteSet(Files \cup {q})
      BY FS_AddElement DEF FiniteTree
    <3> QED
      BY <3>2, <3>3, <3>4, <3>5, <3>6 DEF FiniteTree
  <2> QED
    BY <2>1, <2>2
<1>2. CASE ~ExtractStep
  <2>1. dirs' \in {dirs, {}, {Root}} /\ Files' \in {Files, {}}
    <3>1. \/ UNCHANGED <<dirs, content>>
          \/ dirs' = {Root} /\ UNCHANGED content
          \/ dirs' = {} /\ content' = NoFiles
      BY <1>2 DEF Next, CannotBegin, BeginDirectory, BeginArchive, ExtractionFails, SearchArchive, SearchStep,
         SearchFails, SearchSucceeds, Cleanup, vars
    <3>2. content' = NoFiles => Files' = {}
      BY DEF NoFiles, Files
    <3> QED
      BY <3>1, <3>2 DEF Files
  <2>2. IsFiniteSet({}) /\ IsFiniteSet({Root})
    BY FS_EmptySet, FS_Singleton
  <2> QED
    BY <2>1, <2>2, Zenon DEF FiniteTree
<1> QED
  BY <1>1, <1>2

LEMMA FiniteInit == Init => FiniteTree
<1> SUFFICES ASSUME Init PROVE FiniteTree
  OBVIOUS
<1>1. CASE \E t \in Trees : dirs = t.dirs /\ content = t.content
  BY <1>1, InputAssumption DEF FiniteTree, Files
<1>2. CASE dirs = {} /\ content = NoFiles
  BY <1>2, FS_EmptySet DEF FiniteTree, NoFiles, Files
<1> QED
  BY <1>1, <1>2 DEF Init
-----------------------------------------------------------------------------
(* The walk visits the tree in that order. *)
\* The entries that have been called back for.
Visited == {p \in Walked : (Above(p) \cup {p}) \cap pending = {}}

\* The walk has gone through the tree in order up to where it is.
Ordered ==
  /\ \A v \in Visited, q \in pending : WalksBefore(v, q)
  /\ \A q, r \in pending : q \notin Above(r)
Counted == IsFiniteSet(Visited) /\ entries = Cardinality(Visited)
Recognised == roots = Collections \cap Visited

WalkInv ==
  /\ found # "none" /\ dirs # {} /\ flickered = {} => Ordered /\ Counted /\ Recognised
  /\ found \in Answers \ {"pathError"} => pending = {} \/ ~WithinCap

\* One callback: d, the next entry, is replaced by what is listed in it, C,
\* on the way to all that is still to be walked below it.
LEMMA CallbackMoves ==
  ASSUME TypeOK, pending \subseteq Walked, Ordered, Counted,
         NEW d, IsNext(d), NEW C \in SUBSET (Children(d) \cap Walked),
         \A p \in Walked : d \in Above(p) => (Above(p) \cup {p}) \cap C # {},
         Walked' = Walked, pending' = (pending \ {d}) \cup C, entries' = entries + 1
  PROVE  Visited' = Visited \cup {d} /\ Ordered' /\ Counted'
<1>1. /\ d \in pending /\ d \in Walked /\ \A q \in pending \ {d} : WalksBefore(d, q)
      /\ Walked \subseteq Paths
  BY DEF IsNext, Walked, TypeOK, TreeOK
<1>2. \A c \in C : c \in Paths /\ c \in Walked /\ d \in Above(c) /\ Above(c) = Above(d) \cup {d}
        /\ Len(c) = Len(d) + 1
  <2>1. \A c \in C : c \in Paths /\ c # Root /\ Front(c) = d /\ c \in Walked
    BY <1>1 DEF Children
  <2> QED
    BY <2>1, FrontIsAbove
<1>3. Visited' = Visited \cup {d}
  <2>1. ASSUME NEW p \in Visited PROVE p \in Visited'
    <3>1. p \in Walked /\ (Above(p) \cup {p}) \cap pending = {} /\ p \in Paths
      BY <1>1, <2>1 DEF Visited
    <3>2. ASSUME NEW c \in C, c \in Above(p) \cup {p} PROVE FALSE
      <4>1. d \in Above(p)
        BY <1>2, <3>1, <3>2, AboveIsClosed
      <4> QED
        BY <1>1, <3>1, <4>1
    <3> QED
      BY <3>1, <3>2 DEF Visited
  <2>2. d \in Visited'
    <3>1. Above(d) \cap pending = {}
      BY <1>1 DEF Ordered
    <3>2. ASSUME NEW c \in C, c \in Above(d) \cup {d} PROVE FALSE
      <4>1. d \in Paths /\ Len(d) \in Nat /\ \A a \in Above(d) : Len(a) \in 0 .. Len(d) - 1
        BY <1>1, AboveTyped
      <4> QED
        BY <1>2, <3>2, <4>1
    <3> QED
      BY <1>1, <3>1, <3>2 DEF Visited
  <2>3. ASSUME NEW p \in Visited', p # d PROVE p \in Visited
    <3>1. p \in Walked /\ (Above(p) \cup {p}) \cap pending' = {}
      BY <2>3 DEF Visited
    <3>2. d \notin Above(p)
      BY <3>1
    <3> QED
      BY <2>3, <3>1, <3>2 DEF Visited
  <2> QED
    BY <2>1, <2>2, <2>3
<1>4. d \notin Visited /\ \A v \in Visited : v \in Paths /\ \A q \in pending : WalksBefore(v, q)
  BY <1>1 DEF Visited, Ordered
<1>5. Ordered'
  <2>1. ASSUME NEW v \in Visited \cup {d}, NEW q \in pending' PROVE WalksBefore(v, q)
    <3>1. CASE q \in pending \ {d}
      BY <1>1, <1>4, <2>1, <3>1
    <3>2. CASE q \in C
      <4>1. WalksBefore(d, q) /\ d \in Paths /\ q \in Paths
        BY <1>1, <1>2, <3>2, AboveIsBefore
      <4>2. v = d \/ (v \in Paths /\ WalksBefore(v, d))
        BY <1>1, <1>4, <2>1
      <4> QED
        BY <4>1, <4>2, BeforeIsTransitive
    <3> QED
      BY <2>1, <3>1, <3>2
  <2>2. ASSUME NEW q \in pending', NEW r \in pending', q \in Above(r) PROVE FALSE
    <3>1. \A s, t \in pending : s \notin Above(t)
      BY DEF Ordered
    <3>2. CASE q \in pending \ {d} /\ r \in pending \ {d}
      BY <2>2, <3>1, <3>2
    <3>3. CASE q \in C /\ r \in pending \ {d}
      BY <1>1, <1>2, <2>2, <3>1, <3>3, AboveIsClosed
    <3>4. CASE q \in pending \ {d} /\ r \in C
      BY <1>1, <1>2, <2>2, <3>1, <3>4
    <3>5. CASE q \in C /\ r \in C
      <4>1. Len(q) = Len(r) /\ r \in Paths /\ q \in Above(r)
        BY <1>2, <2>2, <3>5
      <4>2. Len(r) \in Nat /\ Len(q) \in 0 .. Len(r) - 1
        BY <4>1, AboveTyped
      <4> QED
        BY <4>1, <4>2
    <3> QED
      BY <2>2, <3>2, <3>3, <3>4, <3>5
  <2> QED
    BY <1>3, <2>1, <2>2 DEF Ordered
<1>6. Counted'
  <2>1. IsFiniteSet(Visited) /\ entries = Cardinality(Visited)
    BY DEF Counted
  <2>2. IsFiniteSet(Visited \cup {d}) /\ Cardinality(Visited \cup {d}) = Cardinality(Visited) + 1
    BY <1>4, <2>1, FS_AddElement
  <2> QED
    BY <1>3, <2>1, <2>2 DEF Counted
<1> QED
  BY <1>3, <1>5, <1>6

\* Only what is walked can be a collection; below a file, a directory that is
\* skipped and one that is too deep, nothing is.
LEMMA CollectionsAreWalked ==
  ASSUME TypeOK
  PROVE  Collections \subseteq Walked
<1> SUFFICES ASSUME NEW c \in Collections, c # Root PROVE c \in Walked
  BY DEF Collections, Walked
<1>1. c \in dirs /\ c \in Paths /\ Searchable(c) /\ Len(c) \in Nat
  BY LenProperties DEF Collections, TypeOK, TreeOK, Paths
<1>2. /\ Above(c) = Above(Front(c)) \cup {Front(c)} /\ Len(Front(c)) = Len(c) - 1
      /\ opts.depth \in Nat /\ Len(c) <= opts.depth
  BY <1>1, FrontIsAbove DEF Searchable, TypeOK, SearchTypeOK
<1>3. Searchable(Front(c)) /\ Len(Front(c)) < opts.depth
  BY <1>1, <1>2 DEF Searchable
<1> QED
  BY <1>1, <1>3 DEF Walked

LEMMA NothingBelowFile ==
  ASSUME TypeOK, NEW d \in Files, NEW p \in Walked
  PROVE  d \notin Above(p)
  BY DEF Walked, TypeOK, TreeOK

LEMMA NothingBelowPruned ==
  ASSUME TypeOK, NEW d, SkippedAsHidden(d) \/ d \in unreadable, NEW p \in Walked
  PROVE  d \notin Above(p)
<1> SUFFICES ASSUME d \in Above(p) PROVE FALSE
  OBVIOUS
<1>1. p \in Paths /\ p # Root
  BY RootIsAbove DEF Walked, TypeOK, TreeOK
<1>2. Searchable(Front(p)) /\ Above(p) = Above(Front(p)) \cup {Front(p)}
  BY <1>1, FrontIsAbove DEF Walked
<1> QED
  BY <1>2 DEF Searchable, SkippedAsHidden

LEMMA NothingBelowDeepest ==
  ASSUME TypeOK, NEW d \in Paths, ~Descends(d), NEW p \in Walked
  PROVE  d \notin Above(p)
<1> SUFFICES ASSUME d \in Above(p) PROVE FALSE
  OBVIOUS
<1>1. p \in Paths /\ p # Root
  BY RootIsAbove DEF Walked, TypeOK, TreeOK
<1>2. /\ Len(Front(p)) < opts.depth /\ Len(Front(p)) = Len(p) - 1 /\ Len(p) \in Nat
      /\ Len(d) \in 0 .. Len(p) - 1 /\ opts.depth \in Nat
  BY <1>1, FrontIsAbove, AboveTyped DEF Walked, TypeOK, SearchTypeOK
<1> QED
  BY <1>2 DEF Descends

\* What is listed in a directory is on the way to all that is walked below it.
LEMMA ListedIsOnTheWay ==
  ASSUME TypeOK, NEW d \in dirs, Searchable(d), Descends(d)
  PROVE  /\ Children(d) \subseteq Walked
         /\ \A p \in Walked : d \in Above(p) => (Above(p) \cup {p}) \cap Children(d) # {}
<1>1. Children(d) \subseteq Walked
  BY DEF Children, Walked, Descends
<1>2. ASSUME NEW p \in Walked, d \in Above(p) PROVE (Above(p) \cup {p}) \cap Children(d) # {}
  <2>1. p \in Paths /\ p \in dirs \cup Files /\ Above(p) \subseteq dirs
    BY <1>2 DEF Walked, TypeOK, TreeOK
  <2>2. PICK s \in Above(p) \cup {p} : s \in Paths /\ s # Root /\ Front(s) = d
    BY <1>2, <2>1, EntryOnTheWay
  <2> QED
    BY <2>1, <2>2 DEF Children
<1> QED
  BY <1>1, <1>2

LEMMA CallbackKeepsOrder ==
  ASSUME TypeOK, found = "searching", PendingIsWalked, dirs # {},
         Ordered, Counted, Recognised, UNCHANGED <<dirs, content, opts, unreadable>>,
         NEW d \in pending, VisitFile(d) \/ PruneDirectory(d) \/ VisitDirectory(d),
         flickered' = {}
  PROVE  Ordered' /\ Counted' /\ Recognised'
<1>1. Collections' = Collections /\ Walked' = Walked
  BY CollectionsUnchanged
<1>2. pending \subseteq Walked /\ IsNext(d) /\ d \in Walked /\ entries' = entries + 1
  BY DEF PendingIsWalked, VisitFile, PruneDirectory, VisitDirectory
<1>3. d \in Paths
  BY <1>2 DEF Walked, TypeOK, TreeOK
<1>4. CASE VisitFile(d) \/ PruneDirectory(d)
  <2> DEFINE C == {}
  <2>1. pending' = (pending \ {d}) \cup C /\ C \in SUBSET (Children(d) \cap Walked) /\ roots' = roots
    BY <1>4 DEF VisitFile, PruneDirectory
  <2>2. \A p \in Walked : d \in Above(p) => (Above(p) \cup {p}) \cap C # {}
    BY <1>4, NothingBelowFile, NothingBelowPruned DEF VisitFile, PruneDirectory
  <2> HIDE DEF C
  <2>3. Visited' = Visited \cup {d} /\ Ordered' /\ Counted'
    BY <1>1, <1>2, <2>1, <2>2, CallbackMoves
  <2>4. d \notin Collections
    BY <1>4 DEF VisitFile, PruneDirectory, SkippedAsHidden, Collections, Searchable, TypeOK, TreeOK
  <2> QED
    BY <1>1, <2>1, <2>3, <2>4 DEF Recognised
<1>5. CASE VisitDirectory(d)
  <2>1. d \in dirs /\ Searchable(d)
    BY <1>2, <1>5, WalkedIsSearchable DEF VisitDirectory
  <2> DEFINE C == IF Descends(d) THEN Children(d) ELSE {}
  <2>2. pending' = (pending \ {d}) \cup C
    BY <1>5 DEF VisitDirectory
  <2>3. /\ C \in SUBSET (Children(d) \cap Walked)
        /\ \A p \in Walked : d \in Above(p) => (Above(p) \cup {p}) \cap C # {}
    BY <1>3, <2>1, ListedIsOnTheWay, NothingBelowDeepest
  <2> HIDE DEF C
  <2>4. Visited' = Visited \cup {d} /\ Ordered' /\ Counted'
    BY <1>1, <1>2, <2>2, <2>3, CallbackMoves
  <2>5. roots' = IF d \in Collections THEN roots \cup {d} ELSE roots
    BY <1>5, <2>1 DEF VisitDirectory, Collections
  <2> QED
    BY <1>1, <2>4, <2>5 DEF Recognised
<1> QED
  BY <1>4, <1>5

\* The walk begins with nothing visited.
LEMMA StartIsOrdered ==
  ASSUME TypeInv, stage \in {"stat", "extract"}, NEW options, SearchStart(options),
         UNCHANGED <<dirs, content>>
  PROVE  Ordered' /\ Counted' /\ Recognised'
<1>1. /\ pending' = {Root} /\ roots' = {} /\ entries' = 0 /\ UNCHANGED <<dirs, Files>>
  BY DEF SearchStart, TypeInv, Quiet, Files
<1>2. \A p \in Walked' : p \in Paths
  BY <1>1 DEF Walked, TypeInv, TypeOK, TreeOK
<1>3. Visited' = {}
  BY <1>1, <1>2, RootIsAbove DEF Visited
<1>4. Ordered'
  BY <1>1, <1>3, RootIsAbove DEF Ordered
<1>5. Counted'
  BY <1>1, <1>3, FS_EmptySet DEF Counted
<1>6. Recognised'
  BY <1>1, <1>3 DEF Recognised
<1> QED
  BY <1>4, <1>5, <1>6

LEMMA WalkStep == SearchInv /\ WalkInv /\ [Next]_vars => WalkInv'
<1> SUFFICES ASSUME SearchInv, WalkInv, [Next]_vars PROVE WalkInv'
  OBVIOUS
<1>1. TypeInv /\ TypeOK /\ PendingIsWalked
  BY DEF SearchInv, TypeInv
<1>2. CASE CannotBegin \/ BeginArchive \/ ExtractStep \/ ExtractionFails
  <2>1. found' = "none"
    BY <1>1, <1>2 DEF CannotBegin, BeginArchive, ExtractStep, ExtractionFails, searchVars, TypeInv, Quiet
  <2> QED
    BY <2>1 DEF WalkInv, Answers
<1>3. CASE BeginDirectory \/ SearchArchive
  <2>1. /\ stage \in {"stat", "extract"} /\ UNCHANGED <<dirs, content>> /\ found' = "searching"
        /\ \E options : SearchStart(options)
    BY <1>3 DEF BeginDirectory, SearchArchive, SearchStart
  <2>2. Ordered' /\ Counted' /\ Recognised'
    BY <1>1, <2>1, StartIsOrdered
  <2> QED
    BY <2>1, <2>2 DEF WalkInv, Answers
<1>4. CASE SearchStep /\ ~EndSearch
  <2>1. PICK d \in pending : VisitFile(d) \/ PruneDirectory(d) \/ VisitDirectory(d)
    BY <1>4 DEF SearchStep, SearchNext
  <2>2. /\ found = "searching" /\ found' \in {"searching", "pathError"} /\ flickered \subseteq flickered'
        /\ UNCHANGED <<dirs, content, opts, unreadable>>
    BY <1>4, <2>1 DEF SearchStep, VisitFile, PruneDirectory, VisitDirectory
  <2>3. dirs # {} /\ flickered' = {} => Ordered' /\ Counted' /\ Recognised'
    BY <1>1, <2>1, <2>2, CallbackKeepsOrder DEF WalkInv
  <2> QED
    BY <2>2, <2>3 DEF WalkInv, Answers
<1>5. CASE \/ SearchStep /\ EndSearch
           \/ SearchFails \/ SearchSucceeds \/ UNCHANGED vars
  <2>1. /\ UNCHANGED <<pending, entries, roots, opts, unreadable, flickered>>
        /\ dirs' = {} \/ UNCHANGED <<dirs, content>>
        /\ found # "none" \/ found' = "none"
        /\ found' \in Answers \ {"pathError"} => pending = {} \/ ~WithinCap
    BY <1>5 DEF SearchStep, EndSearch, SearchFails, SearchSucceeds, Cleanup, vars, searchVars, WalkInv, Answers
  <2>2. WithinCap' = WithinCap
    BY <2>1 DEF WithinCap
  <2>3. CASE dirs' = {}
    BY <2>1, <2>2, <2>3 DEF WalkInv
  <2>4. CASE UNCHANGED <<dirs, content>>
    <3>1. Collections' = Collections /\ Walked' = Walked
      BY <2>1, <2>4, CollectionsUnchanged
    <3>2. Visited' = Visited
      BY <2>1, <3>1 DEF Visited
    <3>3. (Ordered /\ Counted /\ Recognised) => (Ordered' /\ Counted' /\ Recognised')
      BY <2>1, <3>1, <3>2 DEF Ordered, Counted, Recognised
    <3> QED
      BY <2>1, <2>2, <2>4, <3>3 DEF WalkInv
  <2> QED
    BY <2>1, <2>3, <2>4
<1> QED
  BY <1>2, <1>3, <1>4, <1>5 DEF Next

\* FindPtStalkRoot's answer is a function of the tree and the options: it is
\* made of the collections among the first MaxEntries entries of the walk,
\* whatever the tree.
THEOREM AnswerOfTheTree == Spec => []AnswerIsOfTheTree
<1>1. Init => WalkInv
  BY DEF Init, SearchInit, WalkInv, Answers
<1>2. SearchInv /\ WalkInv /\ FiniteTree => AnswerIsOfTheTree
  <2> SUFFICES ASSUME SearchInv, WalkInv, FiniteTree, found \in Answers, found # "pathError", dirs # {},
                      flickered = {}
               PROVE  roots = {c \in Collections :
                                 Cardinality({p \in Walked : WalksBefore(p, c)}) < opts.entries}
    BY DEF AnswerIsOfTheTree
  <2>1. /\ TypeOK /\ Ordered /\ IsFiniteSet(Visited) /\ entries = Cardinality(Visited)
        /\ roots = Collections \cap Visited
        /\ pending = {} \/ ~WithinCap
    BY DEF SearchInv, TypeInv, WalkInv, Counted, Recognised, Answers
  <2>2. /\ entries \in 0 .. opts.entries /\ opts.entries \in Nat /\ Collections \subseteq Walked
        /\ Walked \subseteq Paths /\ Visited \subseteq Walked /\ pending \subseteq Walked
    BY <2>1, CollectionsAreWalked DEF TypeOK, SearchTypeOK, TreeOK, Walked, Visited, SearchInv,
       PendingIsWalked, Answers
  <2> DEFINE Before(c) == {p \in Walked : WalksBefore(p, c)}
  <2>3. ASSUME NEW c \in Walked
        PROVE  IsFiniteSet(Before(c)) /\ Cardinality(Before(c)) \in Nat
    <3>1. IsFiniteSet(dirs \cup Files)
      BY FS_Union DEF FiniteTree
    <3>2. Before(c) \in SUBSET (dirs \cup Files)
      BY DEF Walked
    <3> HIDE DEF Before
    <3> QED
      BY <3>1, <3>2, FS_Subset, FS_CardinalityType
  <2>4. ASSUME NEW c \in Visited PROVE Cardinality(Before(c)) < opts.entries
    <3>1. ASSUME NEW p \in Before(c) PROVE p \in Visited
      <4>1. ASSUME NEW q \in pending, q \in Above(p) \cup {p} PROVE FALSE
        <5>1. c \in Paths /\ p \in Paths /\ q \in Paths /\ WalksBefore(p, c) /\ WalksBefore(c, q)
          BY <2>1, <2>2, <2>4, <3>1, <4>1 DEF Ordered
        <5>2. WalksBefore(c, p)
          BY <4>1, <5>1, BeforeWhatIsBelow
        <5> QED
          BY <5>1, <5>2, BeforeIsTransitive, BeforeIsStrict
      <4> QED
        BY <3>1, <4>1 DEF Visited
    <3>2. c \notin Before(c) /\ c \in Visited
      BY <2>2, <2>4, BeforeIsStrict
    <3>3. Before(c) \in SUBSET Visited /\ Before(c) # Visited
      BY <3>1, <3>2
    <3> HIDE DEF Before
    <3>4. Cardinality(Before(c)) <= Cardinality(Visited) /\ Cardinality(Before(c)) # Cardinality(Visited)
      BY <2>1, <3>3, FS_Subset
    <3>5. Cardinality(Before(c)) \in Nat
      BY <2>2, <2>3, <2>4
    <3> QED
      BY <2>1, <2>2, <3>4, <3>5
  <2>5. ASSUME NEW c \in Collections \ Visited PROVE ~(Cardinality(Before(c)) < opts.entries)
    <3>1. c \in Walked /\ c \in Paths
      BY <2>2, <2>5
    <3>2. PICK q \in pending : q \in Above(c) \cup {c}
      BY <2>5, <3>1 DEF Visited
    <3>3. Visited \in SUBSET Before(c)
      <4>1. ASSUME NEW v \in Visited PROVE WalksBefore(v, c)
        <5>1. v \in Paths /\ q \in Paths /\ WalksBefore(v, q)
          BY <2>1, <2>2, <3>2, <4>1 DEF Ordered
        <5> QED
          BY <3>1, <3>2, <5>1, BeforeWhatIsBelow
      <4> QED
        BY <2>2, <4>1
    <3>4. entries = opts.entries
      BY <2>1, <2>2, <3>2 DEF WithinCap
    <3> HIDE DEF Before
    <3>5. Cardinality(Visited) <= Cardinality(Before(c)) /\ Cardinality(Before(c)) \in Nat
      BY <2>3, <3>1, <3>3, FS_Subset
    <3> QED
      BY <2>1, <2>2, <3>4, <3>5
  <2>6. \A c \in Collections : c \in Visited <=> Cardinality(Before(c)) < opts.entries
    BY <2>4, <2>5
  <2> QED
    BY <2>1, <2>6
<1>3. Spec => [](SearchInv /\ WalkInv /\ FiniteTree)
  <2>1. Init => SearchInv
    BY TypeInit DEF Init, SearchInit, SearchInv, PendingIsWalked, NoCollectionLost
  <2>2. SearchInv /\ [Next]_vars => SearchInv'
    BY TypeStep, QuietStep, SearchInvStep DEF SearchInv, TypeInv
  <2>3. SearchInv => TypeInv
    BY DEF SearchInv
  <2> QED
    BY <1>1, <2>1, <2>2, <2>3, WalkStep, FiniteInit, FiniteStep, PTL DEF Spec
<1> QED
  BY <1>2, <1>3, PTL
=============================================================================
