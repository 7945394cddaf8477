---------------------------- MODULE AtomicOutput ----------------------------
(***************************************************************************)
(* What runs of my-gather promise about the output path, without any of     *)
(* their stages: the report of a run appears there whole, in one step, over  *)
(* nothing or where the run may overwrite; and what the run tells its caller *)
(* agrees with that.                                                        *)
(***************************************************************************)
CONSTANTS Runs, Overwrite, Absent, Foreign

VARIABLES
  file,       \* what is at the output path: Absent, Foreign, or the report of a run
  published,  \* the runs whose report has been there
  answer      \* what each run told its caller

outputVars == <<file, published, answer>>

Init ==
  /\ file \in {Absent, Foreign}
  /\ published = {}
  /\ answer = [r \in Runs |-> "none"]

\* The report of a run that has said nothing yet is there.
Publish(r) ==
  /\ answer[r] = "none" /\ r \notin published
  /\ file = Absent \/ r \in Overwrite
  /\ file' = r
  /\ published' = published \cup {r}
  /\ UNCHANGED answer

\* A run exits: it succeeds with its report published and fails without it;
\* "leftover" tells of a report whose temporary name could not be removed.
Tell(r) ==
  /\ answer[r] = "none"
  /\ \/ r \in published /\ \E a \in {"success", "leftover"} : answer' = [answer EXCEPT ![r] = a]
     \/ r \notin published /\ answer' = [answer EXCEPT ![r] = "failure"]
  /\ UNCHANGED <<file, published>>

\* A run is killed, before or after.
Die(r) ==
  /\ answer[r] = "none"
  /\ answer' = [answer EXCEPT ![r] = "killed"]
  /\ UNCHANGED <<file, published>>

\* Other programs create and remove files.
Other ==
  /\ file' \in {Absent, Foreign} /\ (file' = Foreign => file = Absent)
  /\ UNCHANGED <<published, answer>>

Next == Other \/ \E r \in Runs : Publish(r) \/ Tell(r) \/ Die(r)

Spec == Init /\ [][Next]_outputVars
=============================================================================
