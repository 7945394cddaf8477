------------------------------ MODULE FileTree ------------------------------
(***************************************************************************)
(* The directory that my-gather reads its input from: the one the user     *)
(* named, or the temporary one an archive is extracted into.  A path is    *)
(* the sequence of names below that directory, which is <<>> itself; names *)
(* are numbers in their lexical order, the order os.ReadDir lists them in. *)
(***************************************************************************)
EXTENDS Integers, Sequences, SequencesExt

CONSTANTS
  Names,     \* file and directory names
  Signals,   \* those that isPtStalkRootSignal accepts
  Hidden     \* those that begin with "."

ASSUME NameAssumption == Names \subseteq Nat /\ Signals \subseteq Names /\ Hidden \subseteq Names

Paths == Seq(Names)
Root == <<>>

VARIABLES
  dirs,      \* the paths of the directories
  content    \* the regular files: path -> bytes in it

Files == DOMAIN content

\* The directories above p, p itself not among them.
Above(p) == {SubSeq(p, 1, n) : n \in 0 .. Len(p) - 1}

\* The entries of directory d, as os.ReadDir lists them.
Children(d) == {p \in dirs \cup Files : p # Root /\ Front(p) = d}

\* A tree that the file system can hold; without Root it is not there.
TreeOK ==
  /\ dirs \in SUBSET Paths
  /\ content \in [Files -> Nat] /\ Files \subseteq Paths
  /\ dirs \cap Files = {}
  /\ \A p \in dirs \cup Files : Above(p) \subseteq dirs
=============================================================================
