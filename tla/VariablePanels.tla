--------------------------- MODULE VariablePanels ---------------------------
(***************************************************************************)
(* The Variables section: render/dedup.go collapses the snapshots with the  *)
(* same variables into one panel, render/build_view.go marks in a panel what *)
(* differs from the panel before it.  vars has a payload for each snapshot. *)
(***************************************************************************)
EXTENDS Payloads

CONSTANT Volatile   \* volatileVariables

\* snapshotSignature: the variables that do not move by themselves.
snapshotSignature(v) == [x \in DOMAIN v \ Volatile |-> v[x]]

\* Mutant of StartsRun: a snapshot without variables is passed over.
StartsRunAcross(vars, n) ==
  LET before == {m \in 1..n - 1 : vars[m] # Nil} IN
  \/ vars[n] = Nil \/ before = {}
  \/ snapshotSignature(vars[Max(before)]) # snapshotSignature(vars[n])

\* A snapshot without variables is a run of its own, and ends the one before.
StartsRun(vars, n) ==
  \/ n = 1 \/ vars[n] = Nil \/ vars[n - 1] = Nil
  \/ snapshotSignature(vars[n - 1]) # snapshotSignature(vars[n])

keptVariableRuns(vars) ==
  LET starts == Ascending({n \in DOMAIN vars : StartsRun(vars, n)})
  IN [k \in DOMAIN starts |->
        [first |-> starts[k],
         last |-> IF k = Len(starts) THEN Len(vars) ELSE starts[k + 1] - 1]]

\* The variables a panel marks: new or with another value than in the panel before.
Marked(old, new) ==
  IF old = Nil THEN {}
  ELSE {x \in DOMAIN new \ Volatile : x \notin DOMAIN old \/ old[x] # new[x]}

\* One panel for each run; unsupported snapshots are known by their file's status.
VariablePanelsOf(vars, unsupported) ==
  LET runs == keptVariableRuns(vars)
      shown(k) == vars[runs[k].first]
  IN [k \in DOMAIN runs |->
        [first |-> runs[k].first, last |-> runs[k].last,
         settings |-> shown(k),
         unsupported |-> shown(k) = Nil /\ runs[k].first \in unsupported,
         changed |-> IF k = 1 \/ shown(k) = Nil THEN {} ELSE Marked(shown(k - 1), shown(k))]]

HasVariables(panels) ==
  \E k \in DOMAIN panels : panels[k].settings # Nil \/ panels[k].unsupported

\* "missing", or how many panels there are and of how many snapshots.
VariablesBadge(panels, total) ==
  IF HasVariables(panels) THEN <<Len(panels), total>> ELSE <<>>
-----------------------------------------------------------------------------
\* render/dedup.go: no change is hidden in a collapsed panel.  Each snapshot is
\* in one panel, with its variables but for the volatile ones; and where both
\* snapshots have variables, the later one's panel begins with it and marks
\* exactly what changed, or nothing but volatile variables changed or vanished.
ChangesMarked(vars, panels) ==
  \A n \in DOMAIN vars :
    \E k \in DOMAIN panels :
      /\ n \in panels[k].first..panels[k].last
      /\ \A m \in DOMAIN panels \ {k} : n \notin panels[m].first..panels[m].last
      /\ (vars[n] = Nil) <=> (panels[k].settings = Nil)
      /\ vars[n] # Nil => snapshotSignature(panels[k].settings) = snapshotSignature(vars[n])
      /\ n > 1 /\ vars[n] # Nil =>
           IF vars[n - 1] = Nil THEN n = panels[k].first /\ panels[k].changed = {}
           ELSE IF n = panels[k].first THEN panels[k].changed = Marked(vars[n - 1], vars[n])
           ELSE Marked(vars[n - 1], vars[n]) = {}
=============================================================================
