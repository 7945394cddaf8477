---------------------------- MODULE InnodbParser ----------------------------
(***************************************************************************)
(* parseInnodbStatus: the scalars of SHOW ENGINE INNODB STATUS.  A waiting  *)
(* thread is counted under its site when its line is read; a mutex line     *)
(* that follows moves the count to the site with the mutex' name.           *)
(***************************************************************************)
EXTENDS LineParser

CONSTANTS Sites, Mutexes, Pages   \* file:line pairs, mutex names, values

\* A mutex has a name, and what the expressions read as a number has no sign.
ASSUME InnodbAssumption == "" \notin Mutexes /\ Pages \subseteq Nat

InnodbSections == {"SEMAPHORES", "TRANSACTIONS", "BUFFER POOL AND MEMORY"}

InnodbStart ==
  [section |-> "", waits |-> 0, sites |-> <<>>, pending |-> <<>>, pool |-> 0, history |-> 0]

\* Section state does not leak across sections.
InnodbSection ==
  \E s \in InnodbSections :
    Line("innodbstatus1", [t |-> "section", name |-> s], [loc EXCEPT !.section = s, !.pending = <<>>], None)

\* The number of waits of a site, 0 of one that is not there.
WaitsAt(sites, k) == IF k \in DOMAIN sites THEN sites[k] ELSE 0
Recount(sites, k, n) ==
  [s \in (DOMAIN sites \ {k}) \cup {s \in {k} : n # 0} |-> IF s = k THEN n ELSE sites[s]]

\* "--Thread ... has waited at": counted without a mutex at once.
InnodbWait ==
  \E site \in Sites :
    LET k == <<site, "">> IN
    Line("innodbstatus1", [t |-> "wait", site |-> site],
         IF loc.section # "SEMAPHORES" THEN loc
         ELSE [loc EXCEPT !.waits = @ + 1, !.sites = Recount(@, k, WaitsAt(@, k) + 1), !.pending = <<site>>],
         None)

\* Mutant of Upgrade: the count without a mutex stays.
UpgradeAdds(site, mutex) ==
  LET k == <<site, mutex>> IN Recount(loc.sites, k, WaitsAt(loc.sites, k) + 1)

\* The count of the last wait moves to the site with the mutex.
Upgrade(site, mutex) ==
  LET orphan == <<site, "">>
      k == <<site, mutex>>
      left == Recount(loc.sites, orphan, WaitsAt(loc.sites, orphan) - 1)
  IN Recount(left, k, WaitsAt(left, k) + 1)

InnodbMutex ==
  \E m \in Mutexes :
    Line("innodbstatus1", [t |-> "mutex", name |-> m],
         IF loc.section = "SEMAPHORES" /\ loc.pending # <<>>
         THEN [loc EXCEPT !.sites = Upgrade(loc.pending[1], m), !.pending = <<>>] ELSE loc, None)

InnodbBlank == Line("innodbstatus1", Of("blank"), loc, None)

\* Any other line ends the wait for a mutex.
InnodbOther ==
  Line("innodbstatus1", Of("other"), IF loc.section = "SEMAPHORES" THEN [loc EXCEPT !.pending = <<>>] ELSE loc, None)

\* A scalar: those of the buffer pools add up, the others are overwritten.
InnodbScalar ==
  \E name \in {"pool", "history"}, v \in Pages :
    Line("innodbstatus1", [t |-> "scalar", name |-> name, v |-> v],
         CASE name = "pool" /\ loc.section = "BUFFER POOL AND MEMORY" -> [loc EXCEPT !.pool = @ + v]
           [] name = "history" /\ loc.section = "TRANSACTIONS" -> [loc EXCEPT !.history = v]
           [] loc.section = "SEMAPHORES" -> [loc EXCEPT !.pending = <<>>]
           [] OTHER -> loc, None)

SiteSum == Total(loc.sites)

InnodbEnd ==
  End("innodbstatus1", FALSE,
      [waits |-> loc.waits, sites |-> loc.sites, pool |-> loc.pool, history |-> loc.history],
      (IF loc.section = "" THEN Warning ELSE None) \o (IF SiteSum # loc.waits THEN Warning ELSE None))

InnodbNext ==
  InnodbSection \/ InnodbWait \/ InnodbMutex \/ InnodbBlank \/ InnodbOther \/ InnodbScalar \/ InnodbEnd
-----------------------------------------------------------------------------
InSection(i, s) == LET h == LastBefore("section", i) IN h > 0 /\ read[h].name = s
WaitLines == {i \in Positions("wait", Len(read)) : InSection(i, "SEMAPHORES")}

\* The mutex of a wait: named on the next line that is not blank.
MutexOf(i) ==
  LET next == {j \in i + 1..Len(read) : read[j].t # "blank"} IN
  IF next # {} /\ read[Min(next)].t = "mutex" THEN read[Min(next)].name ELSE ""

ScalarLines(name, s) ==
  {i \in Positions("scalar", Len(read)) : read[i].name = name /\ InSection(i, s)}

\* parse/innodbstatus.go, SemaphoreSites: at every line the breakdown adds up
\* to the waiting threads, so that the warning of a mismatch never comes;
\* each wait is under its own site and mutex, also when another wait, another
\* line or another section follows; and the buffer pools of all instances add up.
WaitsUnderTheirSite ==
  kind = "innodbstatus1" =>
    /\ SiteSum = loc.waits
    /\ loc.waits = Cardinality(WaitLines)
    /\ \A k \in Sites \X (Mutexes \cup {""}) :
         WaitsAt(loc.sites, k) = Cardinality({i \in WaitLines : <<read[i].site, MutexOf(i)>> = k})
    /\ loc.pool = Total([i \in ScalarLines("pool", "BUFFER POOL AND MEMORY") |-> read[i].v])
    /\ LET h == ScalarLines("history", "TRANSACTIONS") IN loc.history = IF h = {} THEN 0 ELSE read[Max(h)].v
=============================================================================
