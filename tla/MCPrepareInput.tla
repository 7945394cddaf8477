--------------------------- MODULE MCPrepareInput ---------------------------
(* Instances of PrepareInput.  Name 0 is hidden, 1 a signal, 2 neither; a   *)
(* directory input is searched to depth 2, an archive without a bound; the  *)
(* walk gives up after five entries.                                        *)
EXTENDS PrepareInput

MCNames == {0, 1, 2}
MCSignals == {1}
MCHidden == {0}

\* Directories with up to five directories below the root, one of them too
\* deep, any with a signal of its own and any unreadable.
MCDirs == {<<0>>, <<2>>, <<2, 0>>, <<2, 2>>, <<2, 2, 2>>}
MCTrees ==
  {[dirs |-> D, content |-> [p \in {Append(d, 1) : d \in S} |-> 1], unreadable |-> U] :
     D \in {{Root} \cup E : E \in {E \in SUBSET MCDirs : \A p \in E : Above(p) \subseteq E \cup {Root}}},
     S \in SUBSET ({Root} \cup MCDirs), U \in SUBSET ({Root} \cup MCDirs)}
MCSoundTrees ==
  {t \in MCTrees : t.unreadable \subseteq t.dirs /\ {Front(p) : p \in DOMAIN t.content} \subseteq t.dirs}

Plain(kind, target) ==
  [kind |-> kind, safe |-> TRUE, target |-> target, size |-> 0, good |-> 0, damage |-> "none"]
File(target, size) == [Plain("file", target) EXCEPT !.size = size]
Damage(e, good) == [e EXCEPT !.damage = "data", !.good = good]

\* File 2 and directory 2 exclude each other; with limits of 2 bytes a file
\* and 3 in all, the data may exceed either, or both, or be damaged before.
MCFiles == {File(p, n) : p \in {<<1>>, <<2>>, <<2, 0, 1>>}, n \in {1, 2, 3}}
MCFaulty ==
  {Damage(File(<<1>>, 2), 1), Damage(File(<<1>>, 2), 2), Damage(File(<<2>>, 3), 3),
   [File(<<2, 1>>, 1) EXCEPT !.damage = "header"], [File(<<1>>, 1) EXCEPT !.safe = FALSE],
   Plain("other", <<2>>), Plain("file", Root)}
MCOthers == {Plain("dir", Root), Plain("dir", <<2>>), Plain("dir", <<2, 1>>)}
MCGlobal == [Plain("global", <<2>>) EXCEPT !.size = 1]

ZipEntries == MCFiles \cup MCFaulty \cup MCOthers
TarEntries == ZipEntries \cup {MCGlobal}

UpTo3(S) == {<<>>} \cup {<<e>> : e \in S} \cup (S \X S) \cup (S \X S \X S)

MCArchives ==
  {[format |-> "zip", entries |-> s] : s \in UpTo3(ZipEntries)}
    \cup {[format |-> "tar", entries |-> s] : s \in UpTo3(TarEntries)}
    \cup {[format |-> "gzip", entries |-> <<e>>] :
            e \in {e \in ZipEntries : e.kind = "file" /\ Len(e.target) = 1}}
=============================================================================
