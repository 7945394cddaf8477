---------------------------- MODULE ParserProofs ----------------------------
(***************************************************************************)
(* What the parsers of package parse promise of every file, whatever its   *)
(* length: proofs about module Parsers.                                    *)
(***************************************************************************)
EXTENDS Parsers, SequenceTheorems, FiniteSetTheorems, WellFoundedInduction, TLAPS

\* A set of natural numbers that is not empty has a least element: what induction over
\* the natural numbers is done by here.
LEMMA LeastNumber ==
  ASSUME NEW T, T \subseteq Nat, T # {}
  PROVE  \E m \in T : \A n \in T : m <= n
<1> DEFINE R == {ss \in Nat \X Nat : ss[1] < ss[2]}
<1>1. IsWellFoundedOn(R, Nat)
  BY NatLessThanWellFounded DEF OpToRel
<1> HIDE DEF R
<1>2. PICK m \in T : \A n \in T : <<n, m>> \notin R
  BY <1>1, WFMin
<1>3. ASSUME NEW n \in T PROVE m <= n
  <2>1. m \in Nat /\ n \in Nat /\ <<n, m>> \notin R
    BY <1>2
  <2> QED
    BY <2>1 DEF R
<1> QED
  BY <1>2, <1>3

\* Min finds it.
LEMMA MinIs ==
  ASSUME NEW T, T \subseteq Nat, T # {}
  PROVE  Min(T) \in T /\ \A x \in T : Min(T) <= x
BY LeastNumber DEF Min

\* Sets that are mapped one to one have the same size.
LEMMA SameSize ==
  ASSUME NEW S, NEW T, IsFiniteSet(S), NEW f \in [S -> T],
         \A x, y \in S : f[x] = f[y] => x = y, \A t \in T : \E x \in S : f[x] = t
  PROVE  Cardinality(T) = Cardinality(S)
BY FS_Surjection DEF Surjection, Injection, IsInjective

-----------------------------------------------------------------------------
\* A file is of one kind from its first line to its last: each step of each parser
\* leaves it.
LEMMA LineKeeps ==
  ASSUME NEW k, NEW l, NEW s, NEW d, Line(k, l, s, d)
  PROVE  kind' = kind
BY DEF Line

LEMMA ReturnKeeps ==
  ASSUME NEW k, NEW nil, NEW data, NEW d, Return(k, nil, data, d)
  PROVE  kind' = kind
BY DEF Return

LEMMA EndKeeps ==
  ASSUME NEW k, NEW nil, NEW data, NEW d, End(k, nil, data, d)
  PROVE  kind' = kind
BY ReturnKeeps DEF End

LEMMA SamplersKeep == IostatNext \/ VmstatNext => kind' = kind
BY Zenon, LineKeeps, EndKeeps DEF IostatNext, IostatBlank, IostatHeader, IostatRow, IostatOther, IostatEnd,
  VmstatNext, VmstatBanner, VmstatUnknown, VmstatHeader, VmstatRow, VmstatEnd

LEMMA TopKeeps == TopNext => kind' = kind
BY Zenon, LineKeeps, EndKeeps DEF TopNext, TopHeader, TopPIDHeader, TopShort, TopRow, TopBadRow, TopEnd

LEMMA NetstatKeeps == NetstatNext \/ NetstatSNext => kind' = kind
BY Zenon, LineKeeps, EndKeeps DEF NetstatNext, NetstatTS, NetstatSocket, NetstatCutRow, NetstatOther, NetstatEnd,
  NetstatSNext, NetstatSTS, NetstatSSection, NetstatSCounter, NetstatSBadCounter, NetstatSEnd

LEMMA ProcesslistKeeps == ProcesslistNext => kind' = kind
BY Zenon, LineKeeps, EndKeeps DEF ProcesslistNext, ProcesslistTS, ProcesslistRow, ProcesslistEnd

LEMMA InnodbKeeps == InnodbNext => kind' = kind
BY Zenon, LineKeeps, EndKeeps DEF InnodbNext, InnodbSection, InnodbWait, InnodbMutex, InnodbBlank, InnodbOther,
  InnodbScalar, InnodbEnd

LEMMA MysqladminKeeps == MysqladminNext => kind' = kind
BY Zenon, LineKeeps, EndKeeps DEF MysqladminNext, MysqladminOther, MysqladminColumn, MysqladminRow, MysqladminEnd

LEMMA VariablesKeep == VariablesNext => kind' = kind
BY Zenon, LineKeeps, EndKeeps DEF VariablesNext, VariablesBlank, VariablesShow, VariablesHeader, VariablesOther,
  VariablesRow, VariablesEnd, VarLine

LEMMA MemoryKeeps == MeminfoNext \/ EnvMeminfoNext => kind' = kind
BY Zenon, LineKeeps, EndKeeps, ReturnKeeps DEF MeminfoNext, MeminfoTS, MeminfoOther, MeminfoField, MeminfoMisplaced,
  MeminfoEnd, EnvMeminfoNext, EnvMeminfoTS, EnvMeminfoOther, EnvMeminfoField, EnvMeminfoBadField, EnvMeminfoEnd

LEMMA HostKeeps == HostNext => kind' = kind
BY Zenon, LineKeeps, ReturnKeeps DEF HostNext, HostOther, HostFact, HostSetting, HostTS, HostCpu, DfTS, DfLine, HostEnd

LEMMA KindStays == [Next]_parserVars => kind' = kind
BY Zenon, SamplersKeep, TopKeeps, NetstatKeeps, ProcesslistKeeps, InnodbKeeps, MysqladminKeeps, VariablesKeep,
  MemoryKeeps, HostKeeps DEF Next, parserVars

\* What reading a line and returning change.
LEMMA LineFacts ==
  ASSUME NEW k, NEW l, NEW s, NEW d, Line(k, l, s, d)
  PROVE  /\ result.state = "reading" /\ result' = result /\ start' = start
         /\ read' = Append(read, l) /\ loc' = s /\ diags' = diags \o d
BY DEF Line

LEMMA ReturnFacts ==
  ASSUME NEW k, NEW nil, NEW data, NEW d, Return(k, nil, data, d)
  PROVE  /\ start' = start /\ read' = read /\ loc' = loc /\ diags' = diags \o d
         /\ result.state = "reading"
         /\ result'.state = IF nil THEN "nil" ELSE "data"
         /\ ~nil => result'.data = data
BY DEF Return

LEMMA EndFacts ==
  ASSUME NEW k, NEW nil, NEW data, NEW d, End(k, nil, data, d)
  PROVE  /\ start' = start /\ read' = read /\ loc' = loc
         /\ result.state = "reading"
         /\ result'.state = IF nil THEN "nil" ELSE "data"
         /\ ~nil => result'.data = data
BY ReturnFacts DEF End

\* One more line.
LEMMA OneMore ==
  ASSUME NEW S, NEW s \in Seq(S), NEW x \in S
  PROVE  /\ Append(s, x) \in Seq(S) /\ Len(s) \in Nat /\ Len(Append(s, x)) = Len(s) + 1
         /\ \A i \in 1..Len(s) : Append(s, x)[i] = s[i]
         /\ Append(s, x)[Len(s) + 1] = x
         /\ DOMAIN s = 1..Len(s) /\ DOMAIN Append(s, x) = 1..Len(s) + 1
OBVIOUS
-----------------------------------------------------------------------------
\* parseIostat.  A report is open after line n: a known header stands before it, and
\* neither a header nor a blank line after that.  What the parser has read of a device
\* are its rows of open reports, one point each and in their order.

IostatLines ==
  {Of("blank"), Of("other")} \cup [t : {"header"}, known : BOOLEAN] \cup [t : {"row"}, dev : Devices, v : Readings]

IsKnown(rd, h) == rd[h].t = "header" /\ rd[h].known
IsEnd(rd, i) == rd[i].t \in {"header", "blank"}
Open(rd, n) == \E h \in 1..n : IsKnown(rd, h) /\ \A k \in h + 1..n : ~IsEnd(rd, k)
DeviceRows(rd, d) == {i \in 1..Len(rd) : rd[i].t = "row" /\ rd[i].dev = d /\ Open(rd, i)}
Place(rd, d, i) == Cardinality({j \in DeviceRows(rd, d) : j <= i})

PointsOf(rd, points) ==
  \A d \in Devices :
    /\ Len(points[d]) = Cardinality(DeviceRows(rd, d))
    /\ \A i \in DeviceRows(rd, d) : points[d][Place(rd, d, i)] = rd[i].v

IostatData(points, at) ==
  [d \in {d \in Devices : points[d] # <<>>} |-> [i \in DOMAIN points[d] |-> [at |-> at + i - 1, v |-> points[d][i]]]]

IostatInv ==
  kind = "iostat" =>
    /\ read \in Seq(IostatLines)
    /\ loc \in [inSample : BOOLEAN, points : [Devices -> Seq(Readings)]]
    /\ loc.inSample <=> Open(read, Len(read))
    /\ PointsOf(read, loc.points)
    /\ result.state = "data" => result.data = IostatData(loc.points, start)

\* One more line leaves open what was, unless it ends it.
LEMMA OpenAppend ==
  ASSUME NEW rd \in Seq(IostatLines), NEW l \in IostatLines
  PROVE  /\ \A n \in 1..Len(rd) : Open(Append(rd, l), n) <=> Open(rd, n)
         /\ Open(Append(rd, l), Len(rd) + 1) <=>
              \/ l.t = "header" /\ l.known
              \/ l.t \notin {"header", "blank"} /\ Open(rd, Len(rd))
<1> DEFINE r2 == Append(rd, l)
           N == Len(rd)
<1>1. /\ N \in Nat /\ r2[N + 1] = l /\ \A i \in 1..N : r2[i] = rd[i]
  BY OneMore
<1> HIDE DEF r2, N
<1>2. \A i \in 1..N : (IsKnown(r2, i) <=> IsKnown(rd, i)) /\ (IsEnd(r2, i) <=> IsEnd(rd, i))
  BY <1>1 DEF IsKnown, IsEnd
<1>3. /\ IsKnown(r2, N + 1) <=> l.t = "header" /\ l.known
      /\ IsEnd(r2, N + 1) <=> l.t \in {"header", "blank"}
  BY <1>1 DEF IsKnown, IsEnd
<1>4. ASSUME NEW n \in 1..N PROVE Open(r2, n) <=> Open(rd, n)
  BY <1>1, <1>2 DEF Open
<1>5. ASSUME Open(r2, N + 1)
      PROVE  (l.t = "header" /\ l.known) \/ (l.t \notin {"header", "blank"} /\ Open(rd, N))
  <2>1. PICK h \in 1..N + 1 : IsKnown(r2, h) /\ \A k \in h + 1..N + 1 : ~IsEnd(r2, k)
    BY <1>5, Zenon DEF Open
  <2>2. CASE h = N + 1
    BY <1>3, <2>1, <2>2
  <2>3. CASE h # N + 1
    BY <1>1, <1>2, <1>3, <2>1, <2>3 DEF Open
  <2> QED
    BY <2>2, <2>3
<1>6. ASSUME l.t = "header" /\ l.known PROVE Open(r2, N + 1)
  BY <1>1, <1>3, <1>6 DEF Open
<1>7. ASSUME l.t \notin {"header", "blank"}, Open(rd, N) PROVE Open(r2, N + 1)
  <2>1. PICK h \in 1..N : IsKnown(rd, h) /\ \A k \in h + 1..N : ~IsEnd(rd, k)
    BY <1>7, Zenon DEF Open
  <2>2. h \in 1..N + 1 /\ IsKnown(r2, h)
    BY <1>1, <1>2, <2>1
  <2>3. ASSUME NEW k \in h + 1..N + 1 PROVE ~IsEnd(r2, k)
    <3>1. CASE k = N + 1
      BY <1>3, <1>7, <3>1
    <3>2. CASE k # N + 1
      BY <1>1, <1>2, <2>1, <3>2
    <3> QED
      BY <3>1, <3>2
  <2> QED
    BY <2>2, <2>3, Zenon DEF Open
<1> QED
  BY <1>4, <1>5, <1>6, <1>7 DEF r2, N

\* One more line is one more row of a device if a report is open and it is the device's.
LEMMA RowsAppend ==
  ASSUME NEW rd \in Seq(IostatLines), NEW l \in IostatLines, NEW d
  PROVE  DeviceRows(Append(rd, l), d) =
           DeviceRows(rd, d) \cup
             (IF l.t = "row" /\ l.dev = d /\ Open(rd, Len(rd)) THEN {Len(rd) + 1} ELSE {})
<1> DEFINE r2 == Append(rd, l)
           N == Len(rd)
<1>1. /\ N \in Nat /\ Len(r2) = N + 1 /\ r2[N + 1] = l /\ \A i \in 1..N : r2[i] = rd[i]
  BY OneMore
<1>2. /\ \A i \in 1..N : Open(r2, i) <=> Open(rd, i)
      /\ l.t = "row" => (Open(r2, N + 1) <=> Open(rd, N))
  BY OpenAppend
<1> HIDE DEF r2, N
<1>3. \A i \in 1..N : i \in DeviceRows(r2, d) <=> i \in 1..N /\ rd[i].t = "row" /\ rd[i].dev = d /\ Open(rd, i)
  BY <1>1, <1>2 DEF DeviceRows
<1>4. N + 1 \in DeviceRows(r2, d) <=> l.t = "row" /\ l.dev = d /\ Open(rd, N)
  BY <1>1, <1>2 DEF DeviceRows
<1>5. \A i \in DeviceRows(r2, d) : i \in 1..N \/ i = N + 1
  BY <1>1 DEF DeviceRows
<1>6. DeviceRows(rd, d) = {i \in 1..N : rd[i].t = "row" /\ rd[i].dev = d /\ Open(rd, i)}
  BY DEF DeviceRows, N
<1>7. DeviceRows(r2, d) = DeviceRows(rd, d) \cup (IF l.t = "row" /\ l.dev = d /\ Open(rd, N) THEN {N + 1} ELSE {})
  BY <1>3, <1>4, <1>5, <1>6
<1> QED
  BY <1>7 DEF r2, N

\* A device has finitely many rows, each with its place.
LEMMA RowsFinite ==
  ASSUME NEW rd \in Seq(IostatLines), NEW d
  PROVE  /\ DeviceRows(rd, d) \in SUBSET (1..Len(rd)) /\ IsFiniteSet(DeviceRows(rd, d))
         /\ Cardinality(DeviceRows(rd, d)) \in Nat
         /\ \A i : IsFiniteSet({j \in DeviceRows(rd, d) : j <= i}) /\ Place(rd, d, i) \in Nat
<1>1. Len(rd) \in Nat /\ IsFiniteSet(1..Len(rd))
  BY FS_Interval
<1>2. DeviceRows(rd, d) \in SUBSET (1..Len(rd))
  BY DEF DeviceRows
<1>3. IsFiniteSet(DeviceRows(rd, d)) /\ Cardinality(DeviceRows(rd, d)) \in Nat
  BY <1>1, <1>2, FS_Subset, FS_CardinalityType
<1>4. ASSUME NEW i PROVE IsFiniteSet({j \in DeviceRows(rd, d) : j <= i}) /\ Place(rd, d, i) \in Nat
  BY <1>3, FS_Subset, FS_CardinalityType DEF Place
<1> QED
  BY <1>2, <1>3, <1>4

\* A line that is no row of a report leaves the rows as they are.
LEMMA PointsStay ==
  ASSUME NEW rd \in Seq(IostatLines), NEW l \in IostatLines, NEW points, PointsOf(rd, points),
         l.t # "row" \/ ~Open(rd, Len(rd))
  PROVE  PointsOf(Append(rd, l), points)
<1>1. \A d : DeviceRows(Append(rd, l), d) = DeviceRows(rd, d)
  BY RowsAppend
<1>2. \A d, i : Place(Append(rd, l), d, i) = Place(rd, d, i)
  BY <1>1 DEF Place
<1>3. \A d : \A i \in DeviceRows(rd, d) : Append(rd, l)[i] = rd[i]
  BY OneMore, RowsFinite
<1> DEFINE r2 == Append(rd, l)
<1> HIDE DEF r2
<1>4. PointsOf(r2, points)
  BY <1>1, <1>2, <1>3, Zenon DEF PointsOf, r2
<1> QED
  BY <1>4 DEF r2

\* A row of a report is one more point of its device.
LEMMA PointsGrow ==
  ASSUME NEW rd \in Seq(IostatLines), NEW dev \in Devices, NEW v \in Readings,
         NEW points \in [Devices -> Seq(Readings)], PointsOf(rd, points), Open(rd, Len(rd))
  PROVE  PointsOf(Append(rd, [t |-> "row", dev |-> dev, v |-> v]), [points EXCEPT ![dev] = Append(@, v)])
<1> DEFINE l == [t |-> "row", dev |-> dev, v |-> v]
           r2 == Append(rd, l)
           N == Len(rd)
           p2 == [points EXCEPT ![dev] = Append(points[dev], v)]
<1>0. l \in IostatLines /\ l.t = "row" /\ l.dev = dev /\ l.v = v
  BY DEF IostatLines
<1> HIDE DEF l
<1>1. /\ N \in Nat /\ Len(r2) = N + 1 /\ r2[N + 1] = l /\ \A i \in 1..N : r2[i] = rd[i]
  BY <1>0, OneMore
<1>2. \A d : DeviceRows(r2, d) = DeviceRows(rd, d) \cup (IF dev = d THEN {N + 1} ELSE {})
  BY <1>0, RowsAppend
<1> HIDE DEF r2
<1>3. ASSUME NEW d \in Devices, d # dev
      PROVE  /\ Len(p2[d]) = Cardinality(DeviceRows(r2, d))
             /\ \A i \in DeviceRows(r2, d) : p2[d][Place(r2, d, i)] = r2[i].v
  BY <1>1, <1>2, <1>3, RowsFinite DEF Place, PointsOf
<1>4. /\ Len(p2[dev]) = Cardinality(DeviceRows(r2, dev))
      /\ \A i \in DeviceRows(r2, dev) : p2[dev][Place(r2, dev, i)] = r2[i].v
  <2> DEFINE R == DeviceRows(rd, dev)
             C == Cardinality(R)
  <2>1. /\ R \in SUBSET (1..N) /\ IsFiniteSet(R) /\ C \in Nat
        /\ \A i : IsFiniteSet({j \in R : j <= i}) /\ Place(rd, dev, i) \in Nat
    BY RowsFinite
  <2>2. Len(points[dev]) = C /\ \A i \in R : points[dev][Place(rd, dev, i)] = rd[i].v
    BY DEF PointsOf
  <2>3. p2[dev] = Append(points[dev], v)
    OBVIOUS
  <2>4. /\ Len(p2[dev]) = C + 1 /\ p2[dev][C + 1] = v
        /\ \A i \in 1..C : p2[dev][i] = points[dev][i]
    BY <2>2, <2>3, OneMore
  <2>5. DeviceRows(r2, dev) = R \cup {N + 1}
    BY <1>2
  <2> HIDE DEF R
  <2>6. N + 1 \notin R
    BY <1>1, <2>1
  <2>7. Cardinality(R \cup {N + 1}) = C + 1
    BY <2>1, <2>6, FS_AddElement
  <2>8. ASSUME NEW i \in R PROVE p2[dev][Place(r2, dev, i)] = r2[i].v
    <3>1. {j \in R \cup {N + 1} : j <= i} = {j \in R : j <= i}
      BY <1>1, <2>1
    <3>2. Place(r2, dev, i) = Place(rd, dev, i)
      BY <2>5, <3>1 DEF Place, R
    <3>3. Place(rd, dev, i) \in 1..C
      <4>1. Place(rd, dev, i) = Cardinality({j \in R : j <= i})
        BY DEF Place, R
      <4>2. Cardinality({j \in R : j <= i}) <= C
        BY <2>1, FS_Subset
      <4>3. {j \in R : j <= i} # {}
        BY <2>1
      <4>4. Cardinality({j \in R : j <= i}) # 0
        BY <2>1, <4>3, FS_EmptySet
      <4>5. Place(rd, dev, i) \in Nat
        BY <2>1
      <4> QED
        BY <2>1, <4>1, <4>2, <4>4, <4>5
    <3>4. r2[i] = rd[i]
      <4>1. i \in 1..N
        BY <2>1
      <4> QED
        BY <1>1, <4>1
    <3> QED
      BY <2>2, <2>4, <3>2, <3>3, <3>4
  <2>9. p2[dev][Place(r2, dev, N + 1)] = r2[N + 1].v
    <3>1. {j \in R \cup {N + 1} : j <= N + 1} = R \cup {N + 1}
      <4>1. \A j \in R \cup {N + 1} : j <= N + 1
        <5> HIDE DEF N
        <5>1. N \in Nat /\ R \subseteq 1..N
          BY <1>1, <2>1
        <5> QED
          BY <5>1
      <4> HIDE DEF N
      <4> QED
        BY <4>1
    <3>2. Place(r2, dev, N + 1) = C + 1
      BY <2>5, <2>7, <3>1 DEF Place
    <3> QED
      BY <1>0, <1>1, <2>4, <3>2
  <2> QED
    BY <2>4, <2>5, <2>7, <2>8, <2>9
<1>5. PointsOf(r2, p2)
  <2> HIDE DEF p2
  <2> QED
    BY <1>3, <1>4 DEF PointsOf
<1> QED
  BY <1>5 DEF r2, l

\* The invariant is kept by every line and by the end of the file ...
LEMMA IostatStep == IostatInv /\ [Next]_parserVars => IostatInv'
<1> SUFFICES ASSUME IostatInv, [Next]_parserVars, kind' = "iostat" PROVE IostatInv'
  BY DEF IostatInv
<1>1. kind = "iostat"
  BY KindStays
<1>2. /\ read \in Seq(IostatLines)
      /\ loc \in [inSample : BOOLEAN, points : [Devices -> Seq(Readings)]]
      /\ loc.inSample <=> Open(read, Len(read))
      /\ PointsOf(read, loc.points)
      /\ result.state = "data" => result.data = IostatData(loc.points, start)
  BY <1>1 DEF IostatInv
<1>3. CASE UNCHANGED parserVars
  BY <1>1, <1>2, <1>3 DEF IostatInv, parserVars
<1>4. ASSUME NEW l \in IostatLines, NEW points \in [Devices -> Seq(Readings)], NEW open \in BOOLEAN, NEW d,
             Line("iostat", l, [loc EXCEPT !.inSample = open, !.points = points], d),
             open <=> (l.t = "header" /\ l.known) \/ (l.t \notin {"header", "blank"} /\ loc.inSample),
             PointsOf(Append(read, l), points)
      PROVE  IostatInv'
  <2> DEFINE s == [loc EXCEPT !.inSample = open, !.points = points]
  <2>1. /\ s \in [inSample : BOOLEAN, points : [Devices -> Seq(Readings)]]
        /\ s.inSample = open /\ s.points = points
    BY <1>2
  <2> HIDE DEF s
  <2>2. /\ result.state = "reading" /\ result' = result /\ start' = start
        /\ read' = Append(read, l) /\ loc' = s
    BY <1>4, LineFacts DEF s
  <2>3. read' \in Seq(IostatLines) /\ Len(read') = Len(read) + 1
    BY <1>2, <2>2, OneMore
  <2>4. Open(read', Len(read')) <=> open
    BY <1>2, <1>4, <2>2, <2>3, OpenAppend
  <2>5. PointsOf(read', points)
    BY <1>4, <2>2
  <2> QED
    BY <1>4, <2>1, <2>2, <2>3, <2>4, <2>5 DEF IostatInv
<1>5. CASE IostatBlank
  <2> DEFINE l == Of("blank")
             s == [loc EXCEPT !.inSample = FALSE, !.points = loc.points]
  <2>1. l \in IostatLines /\ l.t = "blank"
    BY DEF IostatLines, Of
  <2>2. [loc EXCEPT !.inSample = FALSE] = s
    BY <1>2
  <2>3. Line("iostat", l, s, None)
    BY <1>5, <2>2 DEF IostatBlank
  <2>4. PointsOf(Append(read, l), loc.points)
    BY <1>2, <2>1, PointsStay
  <2> HIDE DEF l
  <2> QED
    BY <1>2, <1>4, <2>1, <2>3, <2>4
<1>6. CASE IostatHeader
  <2>1. PICK known \in BOOLEAN :
          Line("iostat", [t |-> "header", known |-> known], [loc EXCEPT !.inSample = known],
               IF known THEN None ELSE Warning)
    BY <1>6, Zenon DEF IostatHeader
  <2> DEFINE l == [t |-> "header", known |-> known]
             s == [loc EXCEPT !.inSample = known, !.points = loc.points]
  <2>2. l \in IostatLines /\ l.t = "header" /\ l.known = known
    BY DEF IostatLines
  <2>3. [loc EXCEPT !.inSample = known] = s
    BY <1>2
  <2>4. Line("iostat", l, s, IF known THEN None ELSE Warning)
    BY <2>1, <2>3
  <2>5. PointsOf(Append(read, l), loc.points)
    BY <1>2, <2>2, PointsStay
  <2> HIDE DEF l
  <2> QED
    BY <1>2, <1>4, <2>2, <2>4, <2>5
<1>7. CASE IostatRow
  <2>1. PICK dev \in Devices, v \in Readings :
          Line("iostat", [t |-> "row", dev |-> dev, v |-> v],
               IF loc.inSample THEN [loc EXCEPT !.points[dev] = Append(@, v)] ELSE loc, None)
    BY <1>7, Zenon DEF IostatRow
  <2> DEFINE l == [t |-> "row", dev |-> dev, v |-> v]
             p2 == IF loc.inSample THEN [loc.points EXCEPT ![dev] = Append(@, v)] ELSE loc.points
             s == [loc EXCEPT !.inSample = loc.inSample, !.points = p2]
  <2>2. l \in IostatLines /\ l.t = "row"
    BY DEF IostatLines
  <2>3. (IF loc.inSample THEN [loc EXCEPT !.points[dev] = Append(@, v)] ELSE loc) = s
    BY <1>2
  <2>4. Line("iostat", l, s, None)
    BY <2>1, <2>3
  <2>5. PointsOf(Append(read, l), p2)
    BY <1>2, <2>2, PointsGrow, PointsStay
  <2>6. p2 \in [Devices -> Seq(Readings)]
    BY <1>2
  <2> HIDE DEF l, p2
  <2> QED
    BY <1>2, <1>4, <2>2, <2>4, <2>5, <2>6
<1>8. CASE IostatOther
  <2> DEFINE l == Of("other")
             s == [loc EXCEPT !.inSample = loc.inSample, !.points = loc.points]
  <2>1. l \in IostatLines /\ l.t = "other"
    BY DEF IostatLines, Of
  <2>2. loc = s
    BY <1>2
  <2>3. Line("iostat", l, s, IF loc.inSample THEN Warning ELSE None)
    BY <1>8, <2>2 DEF IostatOther
  <2>4. PointsOf(Append(read, l), loc.points)
    BY <1>2, <2>1, PointsStay
  <2> HIDE DEF l
  <2> QED
    BY <1>2, <1>4, <2>1, <2>3, <2>4
<1>9. CASE IostatEnd
  <2>1. /\ start' = start /\ read' = read /\ loc' = loc
        /\ result'.state = "data" => result'.data = IostatData(loc.points, start)
    BY <1>9, EndFacts DEF IostatData, Seen, IostatEnd
  <2> QED
    BY <1>2, <2>1 DEF IostatInv
<1>10. IostatNext \/ UNCHANGED parserVars
  BY <1>1 DEF Next, HostKinds
<1> QED
  BY <1>3, <1>5, <1>6, <1>7, <1>8, <1>9, <1>10 DEF IostatNext

\* ... and holds before the first.
LEMMA IostatStarts == Init => IostatInv
<1> SUFFICES ASSUME Init, kind = "iostat" PROVE IostatInv
  BY DEF IostatInv
<1>1. read = <<>> /\ loc = IostatStart /\ result.state = "reading"
  BY DEF StartOf, HostKinds, Init
<1>2. /\ loc \in [inSample : BOOLEAN, points : [Devices -> Seq(Readings)]]
      /\ loc.points = [d \in Devices |-> <<>>] /\ loc.inSample = FALSE
  BY <1>1 DEF IostatStart
<1>3. read \in Seq(IostatLines) /\ Len(read) = 0 /\ ~Open(read, Len(read))
  BY <1>1 DEF Open
<1>4. PointsOf(read, loc.points)
  BY <1>2, <1>3, FS_EmptySet DEF DeviceRows, PointsOf
<1> QED
  BY <1>1, <1>2, <1>3, <1>4 DEF IostatInv

\* The rows of a report follow its header without another header or a blank line.
LEMMA RowsOfReport ==
  ASSUME read \in Seq(IostatLines), NEW h \in 1..Len(read), NEW i
  PROVE  i \in ReportRows(h) <=>
           i \in h + 1..Len(read) /\ read[i].t = "row" /\ \A k \in h + 1..i : ~IsEnd(read, k)
<1> DEFINE ends == {k \in h + 1..Len(read) : read[k].t \in {"header", "blank"}} \cup {Len(read) + 1}
           m == Min(ends)
<1>1. Len(read) \in Nat
  OBVIOUS
<1>2. m \in ends /\ \A k \in ends : m <= k
  <2>1. ends \subseteq Nat /\ ends # {}
    BY <1>1
  <2> HIDE DEF ends
  <2> QED
    BY <2>1, MinIs
<1>3. ReportRows(h) = {k \in h + 1..m - 1 : read[k].t = "row"}
  BY DEF ReportRows
<1>4. m \in h + 1..Len(read) + 1
  BY <1>1, <1>2
<1>5. m = Len(read) + 1 \/ IsEnd(read, m)
  BY <1>2 DEF IsEnd
<1>6. \A k \in h + 1..Len(read) : IsEnd(read, k) => m <= k
  BY <1>2 DEF IsEnd
<1> HIDE DEF m, ends
<1>7. ASSUME i \in ReportRows(h)
      PROVE  i \in h + 1..Len(read) /\ read[i].t = "row" /\ \A k \in h + 1..i : ~IsEnd(read, k)
  BY <1>1, <1>3, <1>4, <1>6, <1>7
<1>8. ASSUME i \in h + 1..Len(read), read[i].t = "row", \A k \in h + 1..i : ~IsEnd(read, k)
      PROVE  i \in ReportRows(h)
  BY <1>1, <1>3, <1>4, <1>5, <1>8
<1> QED
  BY <1>7, <1>8

\* parse/iostat.go, for any devices and any file: in a well-formed one, sample n
\* of a device is its row of report n, whatever stands between the reports.
THEOREM SampleOfEachReport == Spec => []IostatBySecond
<1>1. IostatInv => IostatBySecond
  <2> SUFFICES ASSUME IostatInv, kind = "iostat", result.state = "data", Complete,
                      NEW d \in Devices, NEW h \in Reports
               PROVE  LET n == Cardinality({g \in Reports : g <= h})
                          row == CHOOSE i \in ReportRows(h) : read[i].dev = d
                      IN /\ Len(result.data[d]) = Cardinality(Reports)
                         /\ result.data[d][n] = [at |-> start + n - 1, v |-> read[row].v]
    BY DEF IostatBySecond
  <2> DEFINE N == Len(read)
             Mine == DeviceRows(read, d)
             row(g) == CHOOSE i \in ReportRows(g) : read[i].dev = d
  <2>1. /\ read \in Seq(IostatLines) /\ N \in Nat
        /\ loc.points[d] \in Seq(Readings) /\ PointsOf(read, loc.points)
        /\ result.data = IostatData(loc.points, start)
    BY DEF IostatInv
  <2>2. Reports \in SUBSET (1..N) /\ IsFiniteSet(Reports)
    <3>1. Reports \in SUBSET (1..N)
      BY DEF Reports, Positions
    <3>2. IsFiniteSet(1..N)
      BY <2>1, FS_Interval
    <3> QED
      BY <3>1, <3>2, FS_Subset
  <2>3. \A g \in Reports : IsKnown(read, g) /\ IsEnd(read, g) /\ g \in 1..N
    BY <2>2 DEF Reports, Positions, IsKnown, IsEnd
  <2>4. ASSUME NEW g \in Reports
        PROVE  /\ row(g) \in Mine /\ row(g) \in g + 1..N
               /\ \A k \in g + 1..row(g) : ~IsEnd(read, k)
               /\ \A i \in ReportRows(g) : read[i].dev = d => i = row(g)
    <3> DEFINE S == {i \in ReportRows(g) : read[i].dev = d}
    <3>1. Cardinality(S) = 1
      BY DEF Complete
    <3>2. \A i \in S : i \in g + 1..N /\ i \in 1..N
      BY <2>1, <2>3, RowsOfReport
    <3>3. IsFiniteSet(S)
      <4>1. S \in SUBSET (1..N)
        BY <3>2
      <4>2. IsFiniteSet(1..N)
        BY <2>1, FS_Interval
      <4> HIDE DEF S
      <4> QED
        BY <4>1, <4>2, FS_Subset
    <3>4. \E x : S = {x}
      <4> HIDE DEF S
      <4> QED
        BY <3>1, <3>3, FS_Singleton
    <3>5. row(g) \in S /\ \A i \in S : i = row(g)
      BY <3>4
    <3> HIDE DEF row
    <3>6. /\ row(g) \in g + 1..N /\ read[row(g)].t = "row" /\ read[row(g)].dev = d
          /\ \A k \in g + 1..row(g) : ~IsEnd(read, k)
      BY <2>1, <2>3, <3>5, RowsOfReport
    <3>7. row(g) \in 1..N /\ g \in 1..row(g)
      BY <2>1, <2>3, <3>6
    <3>8. Open(read, row(g))
      BY <2>3, <3>6, <3>7, Zenon DEF Open
    <3> QED
      BY <3>5, <3>6, <3>7, <3>8 DEF DeviceRows
  <2>5. ASSUME NEW i \in Mine PROVE \E g \in Reports : row(g) = i
    <3>1. i \in 1..N /\ read[i].t = "row" /\ read[i].dev = d /\ Open(read, i)
      BY DEF DeviceRows
    <3>2. PICK g \in 1..i : IsKnown(read, g) /\ \A k \in g + 1..i : ~IsEnd(read, k)
      BY <3>1, Zenon DEF Open
    <3>3. g \in 1..N /\ g \in Reports
      BY <2>1, <3>1, <3>2 DEF Reports, Positions, IsKnown
    <3>4. g # i
      BY <3>1, <3>2 DEF IsKnown
    <3>5. i \in g + 1..N
      BY <2>1, <3>1, <3>2, <3>4
    <3>6. i \in ReportRows(g)
      BY <2>1, <3>1, <3>2, <3>3, <3>5, RowsOfReport
    <3> HIDE DEF row
    <3> QED
      BY <2>4, <3>1, <3>3, <3>6
  <2> HIDE DEF row, Mine
  <2>6. ASSUME NEW g \in Reports, NEW f \in Reports, g < f PROVE row(g) < row(f)
    BY <2>1, <2>3, <2>4, <2>6
  <2>7. ASSUME NEW g \in Reports, NEW f \in Reports PROVE (row(g) = row(f) => g = f) /\ (g <= f <=> row(g) <= row(f))
    BY <2>1, <2>3, <2>4, <2>6
  <2>8. Cardinality(Mine) = Cardinality(Reports)
    <3> DEFINE f == [g \in Reports |-> row(g)]
    <3>1. f \in [Reports -> Mine] /\ (\A x, y \in Reports : f[x] = f[y] => x = y) /\ \A t \in Mine : \E x \in Reports : f[x] = t
      BY <2>4, <2>5, <2>7
    <3> HIDE DEF f
    <3> QED
      BY <2>2, <3>1, SameSize
  <2> DEFINE n == Cardinality({g \in Reports : g <= h})
  <2>9. Place(read, d, row(h)) = n
    <3> DEFINE G == {g \in Reports : g <= h}
               R == {j \in Mine : j <= row(h)}
               f == [g \in G |-> row(g)]
    <3>1. G \in SUBSET Reports
      OBVIOUS
    <3>2. IsFiniteSet(G)
      BY <2>2, <3>1, FS_Subset
    <3>3. \A g \in G : row(g) \in R
      BY <2>4, <2>7
    <3>4. \A t \in R : \E g \in G : row(g) = t
      <4> SUFFICES ASSUME NEW t \in R PROVE \E g \in G : row(g) = t
        OBVIOUS
      <4>1. PICK g \in Reports : row(g) = t
        BY <2>5
      <4>2. g <= h
        BY <2>7, <4>1
      <4> QED
        BY <4>1, <4>2
    <3>5. \A x, y \in G : row(x) = row(y) => x = y
      BY <2>7
    <3> HIDE DEF G, R
    <3>6. f \in [G -> R] /\ (\A x, y \in G : f[x] = f[y] => x = y) /\ \A t \in R : \E x \in G : f[x] = t
      BY <3>3, <3>4, <3>5
    <3> HIDE DEF f
    <3>7. Cardinality(R) = Cardinality(G)
      BY <3>2, <3>6, SameSize
    <3> QED
      BY <3>7 DEF Place, Mine, R, G
  <2>10. /\ Len(loc.points[d]) = Cardinality(Reports) /\ loc.points[d][n] = read[row(h)].v
    BY <2>1, <2>4, <2>8, <2>9 DEF PointsOf, Mine
  <2>11. n \in 1..Cardinality(Reports)
    <3> DEFINE G == {g \in Reports : g <= h}
    <3>1. G \in SUBSET Reports /\ h \in G
      BY <2>3
    <3> HIDE DEF G
    <3>2. /\ IsFiniteSet(G) /\ Cardinality(G) <= Cardinality(Reports)
          /\ Cardinality(G) \in Nat /\ Cardinality(Reports) \in Nat
      BY <2>2, <3>1, FS_Subset, FS_CardinalityType
    <3>3. Cardinality(G) # 0
      BY <3>1, <3>2, FS_EmptySet
    <3> QED
      BY <3>2, <3>3 DEF G
  <2> HIDE DEF n
  <2>12. loc.points[d] # <<>>
    BY <2>10, <2>11
  <2>13. result.data[d] = [i \in DOMAIN loc.points[d] |-> [at |-> start + i - 1, v |-> loc.points[d][i]]]
    BY <2>1, <2>12 DEF IostatData
  <2>14. DOMAIN loc.points[d] = 1..Cardinality(Reports)
    BY <2>1, <2>10
  <2>15. Len(result.data[d]) = Cardinality(Reports)
    BY <2>2, <2>13, <2>14, FS_CardinalityType
  <2>16. result.data[d][n] = [at |-> start + n - 1, v |-> read[row(h)].v]
    BY <2>10, <2>11, <2>13, <2>14
  <2> QED
    BY <2>15, <2>16 DEF n, row
<1> QED
  BY <1>1, IostatStarts, IostatStep, PTL DEF Spec
-----------------------------------------------------------------------------
\* The last line of a class.

\* Max finds the greatest element.
LEMMA MaxIs ==
  ASSUME NEW T, NEW h \in T, T \subseteq Nat, \A x \in T : x <= h
  PROVE  Max(T) = h
<1>1. \E x \in T : \A y \in T : x >= y
  OBVIOUS
<1>2. Max(T) \in T /\ \A y \in T : Max(T) >= y
  BY <1>1 DEF Max
<1>3. Max(T) \in Nat /\ h \in Nat /\ Max(T) <= h /\ h <= Max(T)
  BY <1>2
<1> QED
  BY <1>3

\* A set of numbers up to n has one.
LEMMA Greatest ==
  ASSUME NEW n \in Nat, NEW T \in SUBSET (0..n), T # {}
  PROVE  (\E g \in T : \A x \in T : x <= g) /\ Max(T) \in T /\ \A x \in T : x <= Max(T)
<1> DEFINE U == {n - x : x \in T}
<1>0. \A x \in T : x \in 0..n
  OBVIOUS
<1>1. U \subseteq Nat /\ U # {}
  <2>1. \A x \in T : n - x \in Nat /\ n - x \in U
    BY <1>0
  <2> QED
    BY <2>1
<1> HIDE DEF U
<1>2. PICK u \in U : \A w \in U : u <= w
  BY <1>1, LeastNumber
<1>3. PICK g \in T : u = n - g
  BY DEF U
<1>4. \A x \in T : n - g <= n - x
  BY <1>2, <1>3 DEF U
<1>5. T \subseteq Nat
  BY <1>0
<1>6. \A x \in T : x <= g
  BY <1>4, <1>5
<1> QED
  BY <1>5, <1>6, MaxIs

\* h is the last of the first n lines that is of class t, or 0.
IsLast(rd, t, n, h) ==
  /\ h \in 0..n /\ (h > 0 => rd[h].t = t)
  /\ \A k \in h + 1..n : rd[k].t # t

\* LastBefore finds the last line of a class.
LEMMA LastIs ==
  ASSUME NEW L, read \in Seq(L), NEW t, NEW n \in Nat, n <= Len(read), NEW h
  PROVE  IsLast(read, t, n, h) <=> h = LastBefore(t, n + 1)
<1> DEFINE T == {i \in 1..n : read[i].t = t} \cup {0}
           m == LastBefore(t, n + 1)
<1>1. m = Max(T)
  <2>1. n + 1 - 1 = n
    OBVIOUS
  <2> QED
    BY <2>1 DEF LastBefore, Positions
<1>2. ASSUME NEW g, IsLast(read, t, n, g) PROVE g = m
  <2>1. g \in T /\ T \subseteq Nat
    BY <1>2 DEF IsLast
  <2>2. \A x \in T : x <= g
    <3> SUFFICES ASSUME NEW x \in T, x > g PROVE FALSE
      BY <2>1
    <3>1. g \in 0..n /\ x \in g + 1..n
      BY <1>2 DEF IsLast
    <3> QED
      BY <1>2, <3>1 DEF IsLast
  <2> HIDE DEF T, m
  <2> QED
    BY <1>1, <2>1, <2>2, MaxIs
<1>3. \E g : IsLast(read, t, n, g)
  <2>1. PICK g \in T : \A x \in T : x <= g
    <3>1. T \in SUBSET (0..n) /\ T # {}
      OBVIOUS
    <3> HIDE DEF T
    <3> QED
      BY <3>1, Greatest
  <2>2. g \in 0..n /\ (g > 0 => read[g].t = t)
    OBVIOUS
  <2>3. ASSUME NEW k \in g + 1..n PROVE read[k].t # t
    <3> SUFFICES ASSUME read[k].t = t PROVE FALSE
      OBVIOUS
    <3>1. k \in T
      BY <2>2
    <3> HIDE DEF T
    <3> QED
      BY <2>1, <2>2, <3>1
  <2> HIDE DEF T
  <2> QED
    BY <2>2, <2>3 DEF IsLast
<1> HIDE DEF m, T
<1> QED
  BY <1>2, <1>3 DEF m

\* The last line of a class after one more line.
LEMMA LastAppend ==
  ASSUME NEW L, NEW rd \in Seq(L), NEW l \in L, NEW t
  PROVE  /\ \A n \in 0..Len(rd) : \A h : IsLast(Append(rd, l), t, n, h) <=> IsLast(rd, t, n, h)
         /\ \A h : IsLast(Append(rd, l), t, Len(rd) + 1, h) <=>
                     IF l.t = t THEN h = Len(rd) + 1 ELSE IsLast(rd, t, Len(rd), h)
<1> DEFINE r2 == Append(rd, l)
           N == Len(rd)
<1>1. /\ N \in Nat /\ r2[N + 1] = l /\ \A i \in 1..N : r2[i] = rd[i]
  BY OneMore
<1> HIDE DEF r2, N
<1>2. ASSUME NEW n \in 0..N, NEW h PROVE IsLast(r2, t, n, h) <=> IsLast(rd, t, n, h)
  <2>1. CASE h \in 0..n
    BY <1>1, <2>1 DEF IsLast
  <2>2. CASE h \notin 0..n
    BY <2>2 DEF IsLast
  <2> QED
    BY <2>1, <2>2
<1>3. ASSUME NEW h
      PROVE  IsLast(r2, t, N + 1, h) <=> IF l.t = t THEN h = N + 1 ELSE IsLast(rd, t, N, h)
  <2>1. CASE l.t = t /\ h = N + 1
    BY <1>1, <2>1 DEF IsLast
  <2>2. CASE l.t = t /\ h # N + 1
    <3>1. ~IsLast(r2, t, N + 1, h)
      <4> SUFFICES ASSUME h \in 0..N + 1 PROVE \E k \in h + 1..N + 1 : r2[k].t = t
        BY DEF IsLast
      <4>1. N + 1 \in h + 1..N + 1
        BY <1>1, <2>2
      <4> QED
        BY <1>1, <2>2, <4>1
    <3> QED
      BY <2>2, <3>1
  <2>3. CASE l.t # t
    <3>1. CASE h \in 0..N
      BY <1>1, <2>3, <3>1 DEF IsLast
    <3>2. CASE h \notin 0..N
      <4>1. ~IsLast(rd, t, N, h)
        BY <3>2 DEF IsLast
      <4>2. ~IsLast(r2, t, N + 1, h)
        <5> SUFFICES ASSUME h = N + 1 PROVE ~(h > 0 => r2[h].t = t)
          BY <1>1, <3>2 DEF IsLast
        <5> QED
          BY <1>1, <2>3
      <4> QED
        BY <2>3, <4>1, <4>2
    <3> QED
      BY <3>1, <3>2
  <2> QED
    BY <2>1, <2>2, <2>3
<1> QED
  BY <1>2, <1>3 DEF r2, N
-----------------------------------------------------------------------------
\* A strict order in which any two elements can be compared.
StrictOrder(S, before) ==
  /\ \A x \in S : <<x, x>> \notin before
  /\ \A x, y, z \in S : <<x, y>> \in before /\ <<y, z>> \in before => <<x, z>> \in before
  /\ \A x, y \in S : x # y => <<x, y>> \in before \/ <<y, x>> \in before

\* How many elements come before x.
RankOf(S, before, x) == Cardinality({y \in S : <<y, x>> \in before})

\* Of C elements each comes after 0 to C - 1 others.
LEMMA RankRange ==
  ASSUME NEW S, IsFiniteSet(S), NEW before, StrictOrder(S, before), NEW x \in S
  PROVE  /\ IsFiniteSet({y \in S : <<y, x>> \in before})
         /\ RankOf(S, before, x) \in 0..Cardinality(S) - 1
<1> DEFINE T == {y \in S : <<y, x>> \in before}
<1>1. IsFiniteSet(S \ {x}) /\ Cardinality(S \ {x}) = Cardinality(S) - 1
  BY FS_RemoveElement
<1>2. T \in SUBSET (S \ {x})
  BY DEF StrictOrder
<1>3. Cardinality(S) \in Nat /\ Cardinality(S \ {x}) \in Nat
  BY <1>1, FS_CardinalityType
<1> HIDE DEF T
<1>4. IsFiniteSet(T) /\ Cardinality(T) <= Cardinality(S \ {x})
  BY <1>1, <1>2, FS_Subset
<1>5. Cardinality(T) \in Nat
  BY <1>4, FS_CardinalityType
<1>6. IsFiniteSet(T) /\ Cardinality(T) \in 0..Cardinality(S) - 1
  BY <1>1, <1>3, <1>4, <1>5
<1> QED
  BY <1>6 DEF T, RankOf

\* An element that comes later has more before it.
LEMMA RankGrows ==
  ASSUME NEW S, IsFiniteSet(S), NEW before, StrictOrder(S, before),
         NEW x \in S, NEW y \in S, <<x, y>> \in before
  PROVE  RankOf(S, before, x) < RankOf(S, before, y)
<1> DEFINE X == {z \in S : <<z, x>> \in before}
           Y == {z \in S : <<z, y>> \in before}
<1>1. x \notin X /\ X \cup {x} \in SUBSET Y
  BY DEF StrictOrder
<1>2. IsFiniteSet(X) /\ IsFiniteSet(Y)
  BY RankRange
<1>3. RankOf(S, before, x) = Cardinality(X) /\ RankOf(S, before, y) = Cardinality(Y)
  BY DEF RankOf
<1> HIDE DEF X, Y
<1>4. Cardinality(X) \in Nat /\ Cardinality(Y) \in Nat
  BY <1>2, FS_CardinalityType
<1>5. Cardinality(X \cup {x}) = Cardinality(X) + 1
  BY <1>1, <1>2, FS_AddElement
<1>6. Cardinality(X \cup {x}) <= Cardinality(Y)
  BY <1>1, <1>2, FS_Subset
<1> QED
  BY <1>3, <1>4, <1>5, <1>6

\* Every number of elements is what comes before one of them.
LEMMA RanksTaken ==
  ASSUME NEW S, IsFiniteSet(S), NEW before, StrictOrder(S, before)
  PROVE  /\ \A n \in 0..Cardinality(S) - 1 : \E x \in S : RankOf(S, before, x) = n
         /\ \A x, y \in S : RankOf(S, before, x) = RankOf(S, before, y) => x = y
<1> DEFINE R == 0..Cardinality(S) - 1
           rank == [x \in S |-> RankOf(S, before, x)]
           C == Cardinality(S)
<1>1. C \in Nat
  BY FS_CardinalityType
<1>2. IsFiniteSet(R) /\ Cardinality(R) = C
  BY <1>1, FS_Interval
<1>3. rank \in Injection(S, R)
  <2>1. rank \in [S -> R]
    BY RankRange
  <2>2. ASSUME NEW x \in S, NEW y \in S, x # y PROVE rank[x] # rank[y]
    <3>1. RankOf(S, before, x) \in R /\ RankOf(S, before, y) \in R
      BY RankRange
    <3>2. <<x, y>> \in before \/ <<y, x>> \in before
      BY <2>2 DEF StrictOrder
    <3>3. RankOf(S, before, x) < RankOf(S, before, y) \/ RankOf(S, before, y) < RankOf(S, before, x)
      BY <3>2, RankGrows
    <3> QED
      BY <1>1, <3>1, <3>3
  <2> HIDE DEF rank, R
  <2> QED
    BY <2>1, <2>2 DEF Injection, IsInjective
<1>4. rank \in Surjection(S, R)
  <2> HIDE DEF rank, R
  <2> QED
    BY <1>2, <1>3, FS_Injection
<1>5. \A n \in R : \E x \in S : RankOf(S, before, x) = n
  <2>1. \A n \in R : \E x \in S : rank[x] = n
    <3> HIDE DEF rank, R
    <3> QED
      BY <1>4 DEF Surjection
  <2> QED
    BY <2>1
<1>6. ASSUME NEW x \in S, NEW y \in S, RankOf(S, before, x) = RankOf(S, before, y) PROVE x = y
  <2>1. rank[x] = rank[y]
    BY <1>6
  <2> HIDE DEF rank
  <2> QED
    BY <1>3, <2>1 DEF Injection, IsInjective
<1> QED
  BY <1>5, <1>6

\* InOrder sorts: every element stands at one place, and they stand in order.
LEMMA InOrderSorts ==
  ASSUME NEW S, IsFiniteSet(S), NEW before, StrictOrder(S, before)
  PROVE  /\ Cardinality(S) \in Nat
         /\ InOrder(S, before) \in [1..Cardinality(S) -> S]
         /\ \A x \in S : \E n \in 1..Cardinality(S) : InOrder(S, before)[n] = x
         /\ \A m, n \in 1..Cardinality(S) :
              m < n => <<InOrder(S, before)[m], InOrder(S, before)[n]>> \in before
<1> DEFINE C == Cardinality(S)
           s == InOrder(S, before)
<1>1. C \in Nat
  BY FS_CardinalityType
<1>2. s = [n \in 1..C |-> CHOOSE x \in S : RankOf(S, before, x) = n - 1]
  BY DEF InOrder, RankOf
<1>3. ASSUME NEW n \in 1..C
      PROVE  s[n] \in S /\ RankOf(S, before, s[n]) = n - 1
  <2>1. n - 1 \in 0..C - 1
    BY <1>1
  <2>2. \E x \in S : RankOf(S, before, x) = n - 1
    BY <2>1, RanksTaken
  <2>3. s[n] = CHOOSE x \in S : RankOf(S, before, x) = n - 1
    BY <1>2
  <2> HIDE DEF s
  <2> QED
    BY <2>2, <2>3
<1> HIDE DEF s
<1>4. s \in [1..C -> S]
  BY <1>2, <1>3
<1>5. ASSUME NEW x \in S PROVE \E n \in 1..C : s[n] = x
  <2> DEFINE n == RankOf(S, before, x) + 1
  <2>1. RankOf(S, before, x) \in 0..C - 1
    BY RankRange
  <2>2. n \in 1..C /\ n - 1 = RankOf(S, before, x)
    BY <1>1, <2>1
  <2>3. s[n] \in S /\ RankOf(S, before, s[n]) = RankOf(S, before, x)
    BY <1>3, <2>2
  <2> HIDE DEF n
  <2>4. s[n] = x
    BY <2>3, RanksTaken
  <2> QED
    BY <2>2, <2>4
<1>6. ASSUME NEW m \in 1..C, NEW n \in 1..C, m < n PROVE <<s[m], s[n]>> \in before
  <2>1. /\ s[m] \in S /\ RankOf(S, before, s[m]) = m - 1
        /\ s[n] \in S /\ RankOf(S, before, s[n]) = n - 1
    BY <1>3
  <2>2. m \in Int /\ n \in Int /\ s[m] # s[n]
    BY <1>1, <1>6, <2>1
  <2>3. ~(RankOf(S, before, s[n]) < RankOf(S, before, s[m]))
    BY <1>6, <2>1, <2>2
  <2> QED
    BY <2>1, <2>2, <2>3, RankGrows DEF StrictOrder
<1> QED
  BY <1>1, <1>4, <1>5, <1>6 DEF s
-----------------------------------------------------------------------------
\* parseTop.  The clock is that of the last header, and each sample is of a row that
\* stands under the header whose instant it has.  Of a time of day the day is worked out
\* by arithmetic: two instants less than a day, or half a day, apart.

\* Quotient and remainder.
LEMMA DivMod ==
  ASSUME NEW a \in Nat, NEW d \in Nat \ {0}
  PROVE  /\ a \div d \in Int /\ a % d \in 0..d - 1
         /\ a = (a \div d) * d + (a % d)
OBVIOUS

\* A multiple of d that is less than k times d.
LEMMA Multiple ==
  ASSUME NEW k \in Int, NEW d \in Nat \ {0}
  PROVE  /\ k * d \in Int
         /\ k >= 1 => k * d >= d
         /\ k >= 2 => k * d >= d + d
         /\ k <= -1 => k * d <= -d
         /\ k <= -2 => k * d <= -d - d
<1>1. \A j \in Nat : j * d \in Nat
  OBVIOUS
<1>2. k >= 1 => k * d >= d
  <2> SUFFICES ASSUME k >= 1 PROVE k * d >= d
    OBVIOUS
  <2>1. (k - 1) * d \in Nat
    BY <1>1
  <2>2. k * d = (k - 1) * d + d
    OBVIOUS
  <2> QED
    BY <2>1, <2>2
<1>3. k >= 2 => k * d >= d + d
  <2> SUFFICES ASSUME k >= 2 PROVE k * d >= d + d
    OBVIOUS
  <2>1. (k - 2) * d \in Nat
    BY <1>1
  <2>2. k * d = (k - 2) * d + d + d
    OBVIOUS
  <2> QED
    BY <2>1, <2>2
<1>4. k <= -1 => k * d <= -d
  <2> SUFFICES ASSUME k <= -1 PROVE k * d <= -d
    OBVIOUS
  <2>1. (-1 - k) * d \in Nat
    BY <1>1
  <2>2. k * d = -d - (-1 - k) * d
    OBVIOUS
  <2> QED
    BY <2>1, <2>2
<1>5. k <= -2 => k * d <= -d - d
  <2> SUFFICES ASSUME k <= -2 PROVE k * d <= -d - d
    OBVIOUS
  <2>1. (-2 - k) * d \in Nat
    BY <1>1
  <2>2. k * d = -d - d - (-2 - k) * d
    OBVIOUS
  <2> QED
    BY <2>1, <2>2
<1> QED
  BY <1>2, <1>3, <1>4, <1>5

\* Two instants, by the days they lie on and the times of day.
LEMMA Apart ==
  ASSUME NEW a \in Nat, NEW b \in Nat, NEW d \in Nat \ {0}
  PROVE  /\ a - b < d /\ b <= a =>
              a \div d = IF (a % d) < (b % d) THEN b \div d + 1 ELSE b \div d
         /\ 2 * (a - b) < d /\ 2 * (b - a) < d =>
              a \div d = IF 2 * ((b % d) - (a % d)) > d THEN b \div d + 1
                         ELSE IF 2 * ((a % d) - (b % d)) > d THEN b \div d - 1 ELSE b \div d
<1> DEFINE m == a % d
           n == b % d
           p == a \div d
           q == b \div d
           k == p - q
           e == k * d
<1>1. /\ p \in Int /\ m \in 0..d - 1 /\ a = p * d + m
      /\ q \in Int /\ n \in 0..d - 1 /\ b = q * d + n
  BY DivMod
<1> HIDE DEF m, n, p, q
<1>2. a - b = e + m - n
  BY <1>1
<1>3. /\ e \in Int /\ k \in Int
      /\ k >= 1 => e >= d
      /\ k >= 2 => e >= d + d
      /\ k <= -1 => e <= -d
      /\ k <= -2 => e <= -d - d
  BY <1>1, Multiple
<1>4. (k = 0 => e = 0) /\ (k = 1 => e = d) /\ (k = -1 => e = -d)
  BY <1>1
<1>5. p = q + k
  BY <1>1
<1> HIDE DEF e, k
<1>6. k <= -2 \/ k = -1 \/ k = 0 \/ k = 1 \/ k >= 2
  BY <1>3
<1>7. a - b < d /\ b <= a => p = IF m < n THEN q + 1 ELSE q
  BY <1>1, <1>2, <1>3, <1>4, <1>5, <1>6
<1>8. 2 * (a - b) < d /\ 2 * (b - a) < d =>
        p = IF 2 * (n - m) > d THEN q + 1 ELSE IF 2 * (m - n) > d THEN q - 1 ELSE q
  BY <1>1, <1>2, <1>3, <1>4, <1>5, <1>6
<1> QED
  BY <1>7, <1>8, Zenon DEF m, n, p, q

\* The lines a top file has.
TopLines ==
  {Of("pid"), Of("short"), Of("bad")} \cup [t : {"top"}, at : Instants] \cup [t : {"row"}, pid : Pids, v : Loads]

\* SteadyClock, of any lines.
Steady(rd) ==
  \A i \in 1..Len(rd), h \in 0..Len(rd) :
    rd[i].t = "top" /\ IsLast(rd, "top", i - 1, h) =>
      IF h = 0 THEN 2 * (rd[i].at - start) < Day /\ 2 * (start - rd[i].at) < Day
      ELSE rd[h].at <= rd[i].at /\ rd[i].at < rd[h].at + Day

\* The parser's locals.
TopLocals ==
  [state : {"awaitHeader", "awaitPID", "inProcRows"}, clock : Int, days : Int, now : Int,
   samples : Seq([at : Int, pid : Pids, v : Loads])]

\* The clock after header h.
ClockAt(rd, s, h) ==
  /\ h = 0 => s.clock = -1 /\ s.days = 0 /\ s.state = "awaitHeader"
  /\ h > 0 => /\ s.clock = rd[h].at % Day
              /\ Steady(rd) => /\ s.days = rd[h].at \div Day - start \div Day
                               /\ s.now = rd[h].at

\* Row i under header h is sample s.
RowUnder(rd, s, i, h) ==
  /\ i \in 1..Len(rd) /\ h \in 1..Len(rd) /\ IsLast(rd, "top", i - 1, h)
  /\ rd[i].t = "row" /\ rd[i].pid = s.pid /\ rd[h].at = s.at

\* The invariant.
TopInv ==
  kind = "top" =>
    /\ start \in Nat
    /\ read \in Seq(TopLines)
    /\ loc \in TopLocals
    /\ \E h : IsLast(read, "top", Len(read), h) /\ ClockAt(read, loc, h)
    /\ Steady(read) => \A k \in DOMAIN loc.samples : \E i, h : RowUnder(read, loc.samples[k], i, h)
    /\ result.state = "data" => result.data.samples = TopSorted(loc.samples)

\* What is steady with one more line was so without it.
LEMMA SteadyBefore ==
  ASSUME NEW rd \in Seq(TopLines), NEW l \in TopLines, Steady(Append(rd, l))
  PROVE  /\ Steady(rd)
         /\ l.t = "top" => \A h : IsLast(rd, "top", Len(rd), h) =>
              IF h = 0 THEN 2 * (l.at - start) < Day /\ 2 * (start - l.at) < Day
              ELSE rd[h].at <= l.at /\ l.at < rd[h].at + Day
<1> DEFINE r2 == Append(rd, l)
           N == Len(rd)
           Near(at, h) == IF h = 0 THEN 2 * (at - start) < Day /\ 2 * (start - at) < Day
                          ELSE rd[h].at <= at /\ at < rd[h].at + Day
           Near2(at, h) == IF h = 0 THEN 2 * (at - start) < Day /\ 2 * (start - at) < Day
                          ELSE r2[h].at <= at /\ at < r2[h].at + Day
<1>1. /\ N \in Nat /\ Len(r2) = N + 1 /\ r2[N + 1] = l /\ \A i \in 1..N : r2[i] = rd[i]
  BY OneMore
<1>2. \A n \in 0..N : \A h : IsLast(r2, "top", n, h) <=> IsLast(rd, "top", n, h)
  BY LastAppend
<1>3. \A i \in 1..Len(r2), h \in 0..Len(r2) : r2[i].t = "top" /\ IsLast(r2, "top", i - 1, h) => Near2(r2[i].at, h)
  BY Zenon DEF Steady
<1> HIDE DEF r2, N
<1>4. \A at, h : h \in 0..N => (Near(at, h) <=> Near2(at, h))
  BY <1>1
<1> HIDE DEF Near, Near2
<1>5. ASSUME NEW i \in 1..N, NEW h \in 0..N, rd[i].t = "top", IsLast(rd, "top", i - 1, h) PROVE Near(rd[i].at, h)
  BY <1>1, <1>2, <1>3, <1>4, <1>5
<1>6. Steady(rd)
  BY <1>5, Zenon DEF Steady, Near, N
<1>7. ASSUME l.t = "top", NEW h, IsLast(rd, "top", N, h) PROVE Near(l.at, h)
  BY <1>1, <1>2, <1>3, <1>4, <1>7 DEF IsLast
<1> QED
  BY <1>6, <1>7, Zenon DEF Near, N

\* The rows of the samples stay where they are.
LEMMA RowStays ==
  ASSUME NEW rd \in Seq(TopLines), NEW l \in TopLines, NEW s, NEW i, NEW h, RowUnder(rd, s, i, h)
  PROVE  RowUnder(Append(rd, l), s, i, h)
<1>1. /\ Len(rd) \in Nat /\ Len(Append(rd, l)) = Len(rd) + 1
      /\ \A k \in 1..Len(rd) : Append(rd, l)[k] = rd[k]
  BY OneMore
<1>2. /\ i \in 1..Len(rd) /\ h \in 1..Len(rd) /\ IsLast(rd, "top", i - 1, h)
      /\ rd[i].t = "row" /\ rd[i].pid = s.pid /\ rd[h].at = s.at
  BY DEF RowUnder
<1>3. i - 1 \in 0..Len(rd)
  BY <1>1, <1>2
<1>4. IsLast(Append(rd, l), "top", i - 1, h)
  BY <1>2, <1>3, LastAppend
<1>5. Append(rd, l)[i] = rd[i] /\ Append(rd, l)[h] = rd[h] /\ i \in 1..Len(Append(rd, l)) /\ h \in 1..Len(Append(rd, l))
  BY <1>1, <1>2
<1> QED
  BY <1>2, <1>4, <1>5 DEF RowUnder

\* The invariant is kept by every line and by the end of the file ...
LEMMA TopStep == TopInv /\ [Next]_parserVars => TopInv'
<1> SUFFICES ASSUME TopInv, [Next]_parserVars, kind' = "top" PROVE TopInv'
  BY DEF TopInv
<1>1. kind = "top"
  BY KindStays
<1>2. /\ start \in Nat /\ read \in Seq(TopLines) /\ loc \in TopLocals
      /\ Steady(read) => \A k \in DOMAIN loc.samples : \E i, h : RowUnder(read, loc.samples[k], i, h)
      /\ result.state = "data" => result.data.samples = TopSorted(loc.samples)
  BY <1>1 DEF TopInv
<1>3. PICK h : IsLast(read, "top", Len(read), h) /\ ClockAt(read, loc, h)
  BY <1>1 DEF TopInv
<1>4. h \in 0..Len(read) /\ Len(read) \in Nat
  BY <1>2, <1>3 DEF IsLast
<1>5. CASE UNCHANGED parserVars
  BY <1>2, <1>3, <1>5 DEF parserVars, Steady, ClockAt, TopInv
\* A line that is no header: the clock stays, and a row may be added.
<1>6. ASSUME NEW l \in TopLines, l.t # "top", NEW s \in TopLocals, NEW d, Line("top", l, s, d),
             s.clock = loc.clock, s.days = loc.days, s.now = loc.now,
             loc.state = "awaitHeader" => s.state = "awaitHeader",
             \/ s.samples = loc.samples
             \/ /\ l.t = "row" /\ loc.state = "inProcRows"
                /\ s.samples = Append(loc.samples, [at |-> loc.now, pid |-> l.pid, v |-> l.v])
      PROVE  TopInv'
  <2>1. /\ result.state = "reading" /\ result' = result /\ start' = start
        /\ read' = Append(read, l) /\ loc' = s
    BY <1>6, LineFacts
  <2>2. /\ read' \in Seq(TopLines) /\ Len(read') = Len(read) + 1
        /\ \A i \in 1..Len(read) : read'[i] = read[i]
        /\ read'[Len(read) + 1] = l
    BY <1>2, <2>1, OneMore
  <2>3. IsLast(read', "top", Len(read'), h)
    BY <1>2, <1>3, <1>6, <2>1, <2>2, LastAppend
  <2>4. Steady(read') => Steady(read)
    BY <1>2, <2>1, SteadyBefore
  <2>5. ClockAt(read, s, h)
    BY <1>3, <1>6 DEF ClockAt
  <2>6. Steady(read)' <=> Steady(read')
    BY <2>1 DEF Steady
  <2>7. h > 0 => read'[h] = read[h]
    BY <1>4, <2>2
  <2>8. ClockAt(read, loc, h)'
    BY <1>4, <2>1, <2>4, <2>5, <2>6, <2>7 DEF ClockAt
  <2>9. ASSUME Steady(read'), NEW k \in DOMAIN s.samples PROVE \E i, g : RowUnder(read', s.samples[k], i, g)
    <3>1. CASE k \in DOMAIN loc.samples /\ s.samples[k] = loc.samples[k]
      BY <1>2, <2>1, <2>4, <2>9, <3>1, RowStays
    <3>2. CASE /\ l.t = "row" /\ loc.state = "inProcRows"
               /\ s.samples[k] = [at |-> loc.now, pid |-> l.pid, v |-> l.v]
      <4>1. h \in 1..Len(read)
        BY <1>3, <1>4, <3>2 DEF ClockAt
      <4>2. loc.now = read[h].at
        BY <1>3, <2>4, <2>9, <4>1 DEF ClockAt
      <4>3. /\ Len(read) + 1 \in 1..Len(read') /\ h \in 1..Len(read') /\ Len(read) \in 0..Len(read)
            /\ Len(read) + 1 - 1 = Len(read) /\ read'[h] = read[h]
        BY <1>4, <2>2, <4>1
      <4>4. IsLast(read', "top", Len(read) + 1 - 1, h)
        BY <1>2, <1>3, <2>1, <4>3, LastAppend
      <4>5. RowUnder(read', s.samples[k], Len(read) + 1, h)
        BY <2>2, <3>2, <4>2, <4>3, <4>4 DEF RowUnder
      <4> QED
        BY <4>5
    <3>3. loc.samples \in Seq([at : Int, pid : Pids, v : Loads])
      BY <1>2 DEF TopLocals
    <3>4. CASE s.samples = loc.samples
      BY <2>9, <3>1, <3>4
    <3>5. CASE /\ l.t = "row" /\ loc.state = "inProcRows"
               /\ s.samples = Append(loc.samples, [at |-> loc.now, pid |-> l.pid, v |-> l.v])
      <4> DEFINE x == [at |-> loc.now, pid |-> l.pid, v |-> l.v]
      <4>1. Len(s.samples) = Len(loc.samples) + 1 /\ s.samples[Len(loc.samples) + 1] = x
        BY <3>3, <3>5
      <4>2. \A j \in 1..Len(loc.samples) : s.samples[j] = loc.samples[j]
        BY <3>3, <3>5
      <4>3. DOMAIN loc.samples = 1..Len(loc.samples) /\ Len(loc.samples) \in Nat
        BY <3>3
      <4>4. s.samples \in Seq([at : Int, pid : Pids, v : Loads])
        BY DEF TopLocals
      <4>5. DOMAIN s.samples = 1..Len(s.samples)
        BY <4>4
      <4>6. k \in DOMAIN loc.samples \/ k = Len(loc.samples) + 1
        BY <2>9, <4>1, <4>3, <4>5
      <4> HIDE DEF x
      <4>7. CASE k \in DOMAIN loc.samples
        BY <3>1, <4>2, <4>3, <4>7
      <4>8. CASE k = Len(loc.samples) + 1
        BY <3>2, <3>5, <4>1, <4>8 DEF x
      <4> QED
        BY <4>6, <4>7, <4>8
    <3> QED
      BY <1>6, <3>4, <3>5
  <2>10. result'.state # "data"
    BY <2>1
  <2> QED
    BY <1>2, <1>6, <2>1, <2>2, <2>3, <2>6, <2>8, <2>9, <2>10 DEF TopInv
<1>7. CASE TopHeader
  <2>1. PICK at \in Instants :
          LET clock == at % Day
              days == DayOffset(clock)
          IN Line("top", [t |-> "top", at |-> at],
                  [loc EXCEPT !.state = "awaitPID", !.clock = clock, !.days = days,
                              !.now = (start \div Day + days) * Day + clock], None)
    BY <1>7, Zenon DEF TopHeader
  <2> DEFINE clock == at % Day
             days == DayOffset(clock)
             now == (start \div Day + days) * Day + clock
             l == [t |-> "top", at |-> at]
             s == [loc EXCEPT !.state = "awaitPID", !.clock = clock, !.days = days, !.now = now]
             N == Len(read)
  <2>2. Line("top", l, s, None)
    BY <2>1
  <2>3. at \in Nat /\ Day \in Nat \ {0}
    BY TopAssumption
  <2>4. /\ clock \in 0..Day - 1 /\ at \div Day \in Int /\ at = (at \div Day) * Day + clock
        /\ start % Day \in 0..Day - 1 /\ start \div Day \in Int /\ start = (start \div Day) * Day + (start % Day)
    BY <1>2, <2>3, DivMod
  <2>5. /\ l \in TopLines /\ l.t = "top" /\ l.at = at
    BY DEF TopLines
  <2>6. days \in Int
    BY <1>2, <2>4 DEF DayOffset, TopLocals
  <2>7. now \in Int
    BY <2>3, <2>4, <2>6
  <2>8. s \in TopLocals /\ s.clock = clock /\ s.days = days /\ s.now = now /\ s.samples = loc.samples
    <3> HIDE DEF clock, days, now
    <3>1. clock \in Int
      BY <2>3, <2>4
    <3> QED
      BY <1>2, <2>6, <2>7, <3>1 DEF TopLocals
  <2> HIDE DEF l, s
  <2>9. /\ result.state = "reading" /\ result' = result /\ start' = start
        /\ read' = Append(read, l) /\ loc' = s
    BY <2>2, LineFacts
  <2>10. /\ read' \in Seq(TopLines) /\ Len(read') = N + 1
         /\ \A i \in 1..N : read'[i] = read[i]
         /\ read'[N + 1] = l
    BY <1>2, <2>5, <2>9, OneMore
  <2>11. IsLast(read', "top", Len(read'), N + 1)
    <3>1. IsLast(Append(read, l), "top", N + 1, N + 1)
      <4> HIDE DEF clock, days, now
      <4> QED
        BY <1>2, <2>5, LastAppend
    <3> QED
      BY <2>9, <2>10, <3>1
  <2>12. Steady(read') =>
           /\ Steady(read)
           /\ IF h = 0 THEN 2 * (at - start) < Day /\ 2 * (start - at) < Day
              ELSE read[h].at <= at /\ at < read[h].at + Day
    BY <1>2, <1>3, <2>5, <2>9, SteadyBefore
  <2>13. ASSUME Steady(read') PROVE days = at \div Day - start \div Day /\ now = at
    <3>1. days = at \div Day - start \div Day
      <4>1. CASE h = 0
        <5>1. loc.clock = -1 /\ loc.days = 0
          BY <1>3, <4>1 DEF ClockAt
        <5> DEFINE m == start % Day
                   q == start \div Day
                   p == at \div Day
                   candidate == q * Day + clock
        <5>2. days = IF 2 * (start - candidate) > Day THEN 1
                     ELSE IF 2 * (candidate - start) > Day THEN -1 ELSE 0
          BY <5>1 DEF DayOffset
        <5>3. p = IF 2 * (m - clock) > Day THEN q + 1
                  ELSE IF 2 * (clock - m) > Day THEN q - 1 ELSE q
          BY <1>2, <2>3, <2>12, <2>13, <4>1, Apart
        <5>4. q * Day \in Int /\ start = q * Day + m
          BY <2>3, <2>4
        <5>5. p \in Int /\ q \in Int /\ m \in Int /\ clock \in Int
          BY <2>3, <2>4
        <5> HIDE DEF m, q, p, clock, days
        <5>6. start - candidate = m - clock /\ candidate - start = clock - m
          BY <5>4, <5>5
        <5>7. days = p - q
          BY <5>2, <5>3, <5>5, <5>6
        <5> QED
          BY <5>7 DEF p, q
      <4>2. CASE h # 0
        <5>1. h \in 1..N /\ h > 0
          BY <1>4, <4>2
        <5> DEFINE b == read[h].at
        <5>2. b \in Nat
          <6>1. read[h] \in TopLines /\ read[h].t = "top"
            BY <1>2, <1>3, <5>1 DEF IsLast
          <6>2. b \in Instants
            BY <6>1 DEF TopLines, Of
          <6> QED
            BY <6>2, TopAssumption
        <5>3. loc.clock = b % Day /\ loc.days = b \div Day - start \div Day
          BY <1>3, <2>12, <2>13, <5>1 DEF ClockAt
        <5>4. b % Day \in 0..Day - 1 /\ b \div Day \in Int
          BY <2>3, <5>2, DivMod
        <5>5. at - b < Day /\ b <= at
          BY <2>3, <2>12, <2>13, <4>2, <5>2
        <5> HIDE DEF b
        <5>6. at \div Day = IF clock < (b % Day) THEN b \div Day + 1 ELSE b \div Day
          BY <2>3, <5>2, <5>5, Apart
        <5>7. days = IF clock < loc.clock THEN loc.days + 1 ELSE loc.days
          BY <2>3, <5>3, <5>4 DEF DayOffset
        <5> DEFINE p == at \div Day
                   q == b \div Day
                   r == start \div Day
                   m == b % Day
        <5>8. p \in Int /\ q \in Int /\ r \in Int /\ m \in Int /\ clock \in Int
          BY <2>3, <2>4, <5>4
        <5>9. /\ p = IF clock < m THEN q + 1 ELSE q
              /\ days = IF clock < m THEN (q - r) + 1 ELSE q - r
          BY <5>3, <5>6, <5>7, Zenon
        <5> HIDE DEF p, q, r, m, clock, days
        <5>10. days = p - r
          BY <5>8, <5>9
        <5> QED
          BY <5>10 DEF p, r
      <4> QED
        BY <4>1, <4>2
    <3>2. now = at
      <4> DEFINE p == at \div Day
                 r == start \div Day
      <4>1. p \in Int /\ r \in Int /\ days = p - r /\ at = p * Day + clock
        BY <2>4, <3>1
      <4> HIDE DEF p, days, clock
      <4>2. r + days = p
        <5> HIDE DEF r
        <5> QED
          BY <4>1
      <4> QED
        BY <4>1, <4>2
    <3> QED
      BY <3>1, <3>2
  <2>14. Steady(read)' <=> Steady(read')
    BY <2>9 DEF Steady
  <2> PICK g : g = N + 1
    OBVIOUS
  <2>15. ClockAt(read, loc, g)'
    <3>1. g # 0
      BY <1>4
    <3>2. read'[g].at = at
      BY <2>5, <2>10
    <3>3. s.clock = read'[g].at % Day
      BY <2>8, <3>2
    <3>4. Steady(read)' => s.days = read'[g].at \div Day - start' \div Day /\ s.now = read'[g].at
      <4> HIDE DEF days, now
      <4> QED
        BY <2>8, <2>9, <2>13, <2>14, <3>2
    <3> HIDE DEF days, now, clock, N
    <3> QED
      BY <2>9, <3>1, <3>3, <3>4 DEF ClockAt
  <2>16. ASSUME Steady(read'), NEW k \in DOMAIN s.samples PROVE \E i, j : RowUnder(read', s.samples[k], i, j)
    BY <1>2, <2>5, <2>8, <2>9, <2>12, <2>16, RowStays
  <2>17. result'.state # "data"
    BY <2>9
  <2> HIDE DEF clock, days, now
  <2>18. IsLast(read', "top", Len(read'), g)
    BY <2>11
  <2> QED
    BY <1>2, <2>8, <2>9, <2>10, <2>18, <2>14, <2>15, <2>16, <2>17 DEF TopInv
<1>8. CASE TopPIDHeader
  <2> DEFINE s == [loc EXCEPT !.state = IF loc.state = "awaitPID" THEN "inProcRows" ELSE loc.state]
             l == Of("pid")
  <2>1. Line("top", l, s, None)
    BY <1>8 DEF TopPIDHeader
  <2>2. s \in TopLocals /\ s.clock = loc.clock /\ s.days = loc.days /\ s.now = loc.now /\ s.samples = loc.samples
    BY <1>2 DEF TopLocals
  <2>3. loc.state = "awaitHeader" => s.state = "awaitHeader"
    BY <1>2 DEF TopLocals
  <2>4. l \in TopLines /\ l.t # "top"
    BY DEF TopLines, Of
  <2> HIDE DEF s, l
  <2> QED
    BY <1>6, <2>1, <2>2, <2>3, <2>4
<1>9. CASE TopShort
  <2> DEFINE s == [loc EXCEPT !.state = IF loc.state = "inProcRows" THEN "awaitHeader" ELSE loc.state]
             l == Of("short")
  <2>1. Line("top", l, s, None)
    BY <1>9 DEF TopShort
  <2>2. s \in TopLocals /\ s.clock = loc.clock /\ s.days = loc.days /\ s.now = loc.now /\ s.samples = loc.samples
    BY <1>2 DEF TopLocals
  <2>3. loc.state = "awaitHeader" => s.state = "awaitHeader"
    BY <1>2 DEF TopLocals
  <2>4. l \in TopLines /\ l.t # "top"
    BY DEF TopLines, Of
  <2> HIDE DEF s, l
  <2> QED
    BY <1>6, <2>1, <2>2, <2>3, <2>4
<1>10. CASE TopRow
  <2>1. PICK p \in Pids, v \in Loads :
          Line("top", [t |-> "row", pid |-> p, v |-> v],
               IF loc.state = "inProcRows"
               THEN [loc EXCEPT !.samples = Append(loc.samples, [at |-> loc.now, pid |-> p, v |-> v])] ELSE loc, None)
    BY <1>10, Zenon DEF TopRow
  <2> DEFINE l == [t |-> "row", pid |-> p, v |-> v]
             x == [at |-> loc.now, pid |-> p, v |-> v]
             s == IF loc.state = "inProcRows" THEN [loc EXCEPT !.samples = Append(loc.samples, x)] ELSE loc
  <2>2. Line("top", l, s, None)
    BY <2>1
  <2>3. l \in TopLines /\ l.t # "top" /\ l.t = "row" /\ l.pid = p /\ l.v = v
    BY DEF TopLines
  <2>4. x \in [at : Int, pid : Pids, v : Loads]
    BY <1>2 DEF TopLocals
  <2> DEFINE more == Append(loc.samples, x)
  <2>5. more \in Seq([at : Int, pid : Pids, v : Loads])
    <3> HIDE DEF x
    <3> QED
      BY <1>2, <2>4 DEF TopLocals
  <2>6. CASE loc.state = "inProcRows"
    <3> HIDE DEF more
    <3>1. s = [loc EXCEPT !.samples = more]
      BY <2>6 DEF more
    <3> HIDE DEF s
    <3>2. s \in TopLocals /\ s.clock = loc.clock /\ s.days = loc.days /\ s.now = loc.now /\ s.samples = more /\ s.state = loc.state
      BY <1>2, <2>5, <3>1 DEF TopLocals
    <3>3. more = Append(loc.samples, [at |-> loc.now, pid |-> l.pid, v |-> l.v])
      BY <2>3 DEF more
    <3> HIDE DEF l
    <3> QED
      BY <1>6, <2>2, <2>3, <2>6, <3>2, <3>3
  <2>7. CASE loc.state # "inProcRows"
    <3>1. s = loc
      BY <2>7
    <3> HIDE DEF s, l
    <3> QED
      BY <1>2, <1>6, <2>2, <2>3, <3>1
  <2> QED
    BY <2>6, <2>7
<1>11. CASE TopBadRow
  <2> DEFINE l == Of("bad")
  <2>1. Line("top", l, loc, IF loc.state = "inProcRows" THEN Warning ELSE None)
    BY <1>11 DEF TopBadRow
  <2>2. l \in TopLines /\ l.t # "top"
    BY DEF TopLines, Of
  <2> HIDE DEF l
  <2> QED
    BY <1>2, <1>6, <2>1, <2>2
<1>12. CASE TopEnd
  <2>1. /\ start' = start /\ read' = read /\ loc' = loc
        /\ result'.state = "data" => result'.data.samples = TopSorted(loc.samples)
    <3> DEFINE data == [samples |-> TopSorted(loc.samples), top3 |-> TopThree(RankedByCpu(loc.samples))]
    <3>1. data.samples = TopSorted(loc.samples)
      OBVIOUS
    <3>2. End("top", loc.samples = <<>>, data, None)
      BY <1>12 DEF TopEnd
    <3> HIDE DEF data
    <3> QED
      BY <3>1, <3>2, EndFacts
  <2>2. Steady(read)' <=> Steady(read)
    BY <2>1 DEF Steady
  <2>3. ClockAt(read, loc, h)' <=> ClockAt(read, loc, h)
    BY <2>1, <2>2 DEF ClockAt
  <2> QED
    BY <1>2, <1>3, <2>1, <2>2, <2>3 DEF TopInv
<1>13. TopNext \/ UNCHANGED parserVars
  BY <1>1 DEF Next, HostKinds
<1> QED
  BY <1>5, <1>7, <1>8, <1>9, <1>10, <1>11, <1>12, <1>13 DEF TopNext

\* ... and holds before the first.
LEMMA TopStarts == Init => TopInv
<1> SUFFICES ASSUME Init, kind = "top" PROVE TopInv
  BY DEF TopInv
<1>1. read = <<>> /\ loc = TopStart /\ result.state = "reading" /\ start \in Nat
  BY LineAssumption DEF StartOf, HostKinds, Init
<1>2. /\ loc \in TopLocals /\ loc.samples = <<>>
      /\ loc.clock = -1 /\ loc.days = 0 /\ loc.state = "awaitHeader"
  BY <1>1 DEF TopStart, TopLocals
<1>3. read \in Seq(TopLines) /\ Len(read) = 0
  BY <1>1
<1>4. IsLast(read, "top", Len(read), 0) /\ ClockAt(read, loc, 0)
  BY <1>2, <1>3 DEF IsLast, ClockAt
<1> QED
  BY <1>1, <1>2, <1>3, <1>4 DEF TopInv

\* TopSorted gives every sample a place of its own.
LEMMA PlacesTaken ==
  ASSUME NEW samples \in Seq([at : Int, pid : Pids, v : Loads])
  PROVE  \A n \in DOMAIN samples : \E i \in DOMAIN samples :
           Cardinality({j \in DOMAIN samples : ComesBefore(samples, j, i)}) + 1 = n
<1> DEFINE S == DOMAIN samples
           C == Len(samples)
           B == {p \in S \X S : ComesBefore(samples, p[1], p[2])}
<1>1. S = 1..C /\ C \in Nat /\ IsFiniteSet(S) /\ Cardinality(S) = C
  <2>1. S = 1..C /\ C \in Nat
    OBVIOUS
  <2> HIDE DEF S, C
  <2>2. IsFiniteSet(1..C) /\ Cardinality(1..C) = C
    BY <2>1, FS_Interval
  <2> QED
    BY <2>1, <2>2
<1>2. \A i \in S : samples[i].at \in Int /\ samples[i].pid \in Nat /\ i \in Nat
  <2> DEFINE T == [at : Int, pid : Pids, v : Loads]
  <2>1. \A i \in S : samples[i] \in T
    <3>1. samples \in Seq(T)
      OBVIOUS
    <3> HIDE DEF T
    <3> QED
      BY <3>1
  <2> HIDE DEF S, C
  <2>2. \A i \in S : i \in Nat
    BY <1>1
  <2> QED
    BY <2>1, <2>2, TopAssumption
<1> HIDE DEF S, C
<1>3. \A i \in S : ~ComesBefore(samples, i, i)
  BY <1>2 DEF ComesBefore
<1>4. ASSUME NEW i \in S, NEW j \in S, NEW k \in S, ComesBefore(samples, i, j), ComesBefore(samples, j, k)
      PROVE  ComesBefore(samples, i, k)
  <2>1. /\ samples[i].at \in Int /\ samples[j].at \in Int /\ samples[k].at \in Int
        /\ samples[i].pid \in Nat /\ samples[j].pid \in Nat /\ samples[k].pid \in Nat
        /\ i \in Nat /\ j \in Nat /\ k \in Nat
    BY <1>2
  <2>2. /\ samples[i].at <= samples[j].at /\ samples[j].at <= samples[k].at
        /\ samples[i].at = samples[j].at =>
             \/ samples[i].pid < samples[j].pid
             \/ samples[i].pid = samples[j].pid /\ i < j
        /\ samples[j].at = samples[k].at =>
             \/ samples[j].pid < samples[k].pid
             \/ samples[j].pid = samples[k].pid /\ j < k
    BY <1>4, <2>1 DEF ComesBefore
  <2>3. CASE samples[i].at = samples[j].at /\ samples[j].at = samples[k].at
    <3>1. \/ samples[i].pid < samples[k].pid
          \/ samples[i].pid = samples[k].pid /\ i < k
      BY <2>1, <2>2, <2>3
    <3> QED
      BY <2>3, <3>1 DEF ComesBefore
  <2>4. CASE samples[i].at # samples[j].at \/ samples[j].at # samples[k].at
    BY <2>1, <2>2, <2>4 DEF ComesBefore
  <2> QED
    BY <2>3, <2>4
<1>5. \A i, j \in S : i # j => ComesBefore(samples, i, j) \/ ComesBefore(samples, j, i)
  BY <1>2 DEF ComesBefore
<1>6. \A i, j \in S : <<i, j>> \in B <=> ComesBefore(samples, i, j)
  OBVIOUS
<1> HIDE DEF B
<1>7. StrictOrder(S, B)
  BY <1>3, <1>4, <1>5, <1>6 DEF StrictOrder
<1>8. ASSUME NEW n \in S PROVE \E i \in S : Cardinality({j \in S : ComesBefore(samples, j, i)}) + 1 = n
  <2>1. n - 1 \in 0..Cardinality(S) - 1 /\ n \in Nat
    BY <1>1
  <2> PICK i \in S : RankOf(S, B, i) = n - 1
    BY <1>1, <1>7, <2>1, RanksTaken
  <2> DEFINE c == Cardinality({j \in S : ComesBefore(samples, j, i)})
  <2>2. {j \in S : ComesBefore(samples, j, i)} = {j \in S : <<j, i>> \in B}
    BY <1>6
  <2>3. c = n - 1
    BY <2>2 DEF RankOf
  <2> HIDE DEF c
  <2>4. c + 1 = n
    BY <2>1, <2>3
  <2> QED
    BY <2>4, Zenon DEF c
<1>9. \A n \in S : \E i \in S : Cardinality({j \in S : ComesBefore(samples, j, i)}) + 1 = n
  BY <1>8
<1> QED
  BY <1>9, Zenon DEF S

\* What is sorted are the samples.
LEMMA SortedSamples ==
  ASSUME NEW samples \in Seq([at : Int, pid : Pids, v : Loads]), NEW s \in ToSet(TopSorted(samples))
  PROVE  \E k \in DOMAIN samples : s = samples[k]
<1> DEFINE S == DOMAIN samples
           At(n, i) == Cardinality({j \in S : ComesBefore(samples, j, i)}) + 1 = n
<1>1. TopSorted(samples) = [n \in S |-> samples[CHOOSE i \in S : At(n, i)]]
  BY DEF TopSorted
<1>2. \A n \in S : \E i \in S : At(n, i)
  BY PlacesTaken
<1> HIDE DEF At, S
<1> DEFINE of(n) == CHOOSE i \in S : At(n, i)
<1>3. \A n \in S : of(n) \in S
  BY <1>2
<1>4. PICK n \in S : s = samples[of(n)]
  <2> DEFINE sorted == [n \in S |-> samples[of(n)]]
  <2>1. s \in ToSet(sorted) /\ DOMAIN sorted = S /\ \A n \in S : sorted[n] = samples[of(n)]
    BY <1>1
  <2> HIDE DEF sorted, of
  <2>2. \E n \in DOMAIN sorted : s = sorted[n]
    BY <2>1 DEF ToSet
  <2> QED
    BY <2>1, <2>2
<1> HIDE DEF of
<1> QED
  BY <1>3, <1>4 DEF S

\* parse/top.go, for any day, processes and captures: in a file whose batches follow one
\* another within a day the parser knows the instant of the last header, and every sample is
\* of a row, at the instant of the header it stands under.
THEOREM InstantOfEachBatch == Spec => []TopClockRecovered
<1>1. TopInv => TopClockRecovered
  <2> SUFFICES ASSUME TopInv, kind = "top", SteadyClock
               PROVE  /\ loc.clock >= 0 => loc.now = read[LastBefore("top", Len(read) + 1)].at
                      /\ result.state = "data" =>
                           \A s \in ToSet(result.data.samples) :
                             \E i \in Positions("row", Len(read)) :
                               /\ LastBefore("top", i) > 0
                               /\ s.at = read[LastBefore("top", i)].at /\ s.pid = read[i].pid
    BY DEF TopClockRecovered
  <2>1. /\ read \in Seq(TopLines) /\ Len(read) \in Nat /\ loc \in TopLocals
        /\ Steady(read) => \A k \in DOMAIN loc.samples : \E i, h : RowUnder(read, loc.samples[k], i, h)
        /\ result.state = "data" => result.data.samples = TopSorted(loc.samples)
    BY DEF TopInv
  <2>2. PICK h : IsLast(read, "top", Len(read), h) /\ ClockAt(read, loc, h)
    BY DEF TopInv
  <2>3. ASSUME NEW i \in 1..Len(read), NEW g PROVE IsLast(read, "top", i - 1, g) <=> g = LastBefore("top", i)
    <3>1. i - 1 \in Nat /\ i - 1 <= Len(read) /\ i - 1 + 1 = i
      BY <2>1
    <3> QED
      BY <2>1, <3>1, LastIs
  <2>4. Steady(read)
    <3> SUFFICES ASSUME NEW i \in 1..Len(read), NEW g \in 0..Len(read), read[i].t = "top", IsLast(read, "top", i - 1, g)
                 PROVE  IF g = 0 THEN 2 * (read[i].at - start) < Day /\ 2 * (start - read[i].at) < Day
                        ELSE read[g].at <= read[i].at /\ read[i].at < read[g].at + Day
      BY Zenon DEF Steady
    <3>1. g = LastBefore("top", i) /\ i \in Positions("top", Len(read))
      BY <2>3 DEF Positions
    <3> QED
      BY <3>1, Zenon DEF SteadyClock
  <2>5. ASSUME loc.clock >= 0 PROVE loc.now = read[LastBefore("top", Len(read) + 1)].at
    BY <2>1, <2>2, <2>4, <2>5, LastIs DEF IsLast, ClockAt
  <2>6. ASSUME result.state = "data", NEW s \in ToSet(result.data.samples)
        PROVE  \E i \in Positions("row", Len(read)) :
                 /\ LastBefore("top", i) > 0
                 /\ s.at = read[LastBefore("top", i)].at /\ s.pid = read[i].pid
    <3>1. loc.samples \in Seq([at : Int, pid : Pids, v : Loads]) /\ s \in ToSet(TopSorted(loc.samples))
      BY <2>1, <2>6 DEF TopLocals
    <3>2. PICK k \in DOMAIN loc.samples : s = loc.samples[k]
      BY <3>1, SortedSamples
    <3>3. PICK i, g : RowUnder(read, loc.samples[k], i, g)
      BY <2>1, <2>4
    <3>4. /\ i \in 1..Len(read) /\ g \in 1..Len(read) /\ IsLast(read, "top", i - 1, g)
          /\ read[i].t = "row" /\ read[i].pid = s.pid /\ read[g].at = s.at
      BY <3>2, <3>3 DEF RowUnder
    <3>5. g = LastBefore("top", i) /\ i \in Positions("row", Len(read)) /\ g > 0
      BY <2>1, <2>3, <3>4 DEF Positions
    <3> QED
      BY <3>4, <3>5
  <2> QED
    BY <2>5, <2>6
<1> QED
  BY <1>1, TopStarts, TopStep, PTL DEF Spec
-----------------------------------------------------------------------------
\* ParseEnvMeminfoWithDiagnostics.  The samples are the dumps that were opened, each of
\* what its own lines say, in the order of the file; and there is a warning of each line
\* that could not be read.

\* The lines a -meminfo file has.
MemLines ==
  {Of("ts"), Of("other"), Of("bad")} \cup [t : {"field"}, f : Fields, v : Sizes]

\* The lines of dump s that say something of field f.
Says(rd, s, f) == {i \in 1..Len(rd) : rd[i].t = "field" /\ rd[i].f = f /\ IsLast(rd, "ts", i - 1, s)}

\* A sample is what dump s says: of each field the last line.
SampleOf(rd, sample, s) ==
  /\ DOMAIN sample \in SUBSET Fields
  /\ \A f \in Fields : f \in DOMAIN sample <=> Says(rd, s, f) # {}
  /\ \A f \in DOMAIN sample : \E i \in Says(rd, s, f) :
       sample[f] = rd[i].v /\ \A j \in Says(rd, s, f) : j <= i

\* Sample i is of the dump that starts at line at[i].
DumpsAre(rd, samples, at) ==
  /\ at \in Seq(Nat) /\ Len(at) = Len(samples)
  /\ \A i \in 1..Len(samples), j \in 1..Len(samples) : i < j => at[i] < at[j]
  /\ \A i \in 1..Len(samples) :
       /\ at[i] \in 0..Len(rd) /\ (at[i] = 0 \/ rd[at[i]].t = "ts")
       /\ SampleOf(rd, samples[i], at[i])
  /\ IsLast(rd, "ts", Len(rd), IF Len(samples) = 0 THEN 0 ELSE at[Len(samples)])
  /\ \A s, f : Says(rd, s, f) # {} => \E i \in 1..Len(samples) : at[i] = s

\* What a dump says after one more line.
LEMMA SaysAppend ==
  ASSUME NEW rd \in Seq(MemLines), NEW l \in MemLines, NEW s, NEW f
  PROVE  /\ l.t = "field" /\ l.f = f /\ IsLast(rd, "ts", Len(rd), s) =>
              Says(Append(rd, l), s, f) = Says(rd, s, f) \cup {Len(rd) + 1}
         /\ l.t # "field" \/ l.f # f \/ ~IsLast(rd, "ts", Len(rd), s) =>
              Says(Append(rd, l), s, f) = Says(rd, s, f)
         /\ Says(rd, s, f) \in SUBSET (1..Len(rd))
         /\ \A i \in Says(rd, s, f) : Append(rd, l)[i] = rd[i]
<1> DEFINE r2 == Append(rd, l)
           N == Len(rd)
<1>1. /\ N \in Nat /\ Len(r2) = N + 1 /\ r2[N + 1] = l /\ \A i \in 1..N : r2[i] = rd[i]
  BY OneMore
<1>2. \A n \in 0..N : IsLast(r2, "ts", n, s) <=> IsLast(rd, "ts", n, s)
  BY LastAppend
<1> HIDE DEF r2
<1>3. \A i \in 1..N : i - 1 \in 0..N
  BY <1>1
<1>4. \A i \in 1..N : i \in Says(r2, s, f) <=> i \in Says(rd, s, f)
  BY <1>1, <1>2, <1>3 DEF Says
<1>5. N + 1 \in Says(r2, s, f) <=> l.t = "field" /\ l.f = f /\ IsLast(rd, "ts", N, s)
  BY <1>1, <1>2 DEF Says
<1>6. Says(rd, s, f) \in SUBSET (1..N) /\ Says(r2, s, f) \in SUBSET (1..N + 1)
  BY <1>1 DEF Says
<1>7. \A i \in 1..N + 1 : i \in 1..N \/ i = N + 1
  BY <1>1
<1>8. /\ N + 1 \in Says(r2, s, f) => Says(r2, s, f) = Says(rd, s, f) \cup {N + 1}
      /\ N + 1 \notin Says(r2, s, f) => Says(r2, s, f) = Says(rd, s, f)
  <2> HIDE DEF N
  <2> QED
    BY <1>4, <1>6, <1>7
<1> QED
  BY <1>1, <1>5, <1>6, <1>8 DEF r2

\* What a dump says stays as it is when the line says nothing of it.
LEMMA SampleStays ==
  ASSUME NEW rd \in Seq(MemLines), NEW l \in MemLines, NEW sample, NEW s, SampleOf(rd, sample, s),
         l.t # "field" \/ ~IsLast(rd, "ts", Len(rd), s)
  PROVE  SampleOf(Append(rd, l), sample, s)
<1> DEFINE r2 == Append(rd, l)
<1>1. \A f : /\ Says(r2, s, f) = Says(rd, s, f)
             /\ \A i \in Says(rd, s, f) : r2[i] = rd[i]
  BY SaysAppend
<1> HIDE DEF r2
<1>2. SampleOf(r2, sample, s)
  BY <1>1 DEF SampleOf
<1> QED
  BY <1>2 DEF r2

\* The first line that is not blank opens a sample.
LEMMA DumpsOpen ==
  ASSUME NEW rd \in Seq(MemLines), NEW at, DumpsAre(rd, <<>>, at)
  PROVE  DumpsAre(rd, <<<<>>>>, <<0>>)
<1>1. \A s, f : Says(rd, s, f) = {}
  BY DEF DumpsAre
<1>2. IsLast(rd, "ts", Len(rd), 0)
  BY DEF DumpsAre
<1>3. SampleOf(rd, <<>>, 0)
  BY <1>1 DEF SampleOf
<1> DEFINE ss == <<<<>>>>
           aa == <<0>>
<1>4. Len(ss) = 1 /\ ss[1] = <<>> /\ Len(aa) = 1 /\ aa[1] = 0 /\ aa \in Seq(Nat)
  OBVIOUS
<1>5. Len(rd) \in Nat
  OBVIOUS
<1> HIDE DEF ss, aa
<1>6. DumpsAre(rd, ss, aa)
  BY <1>1, <1>2, <1>3, <1>4, <1>5 DEF DumpsAre
<1> QED
  BY <1>6 DEF ss, aa

\* A line that says nothing leaves the dumps as they are.
LEMMA DumpsQuiet ==
  ASSUME NEW rd \in Seq(MemLines), NEW l \in MemLines, l.t \notin {"ts", "field"},
         NEW samples, Len(samples) \in Nat, NEW at, DumpsAre(rd, samples, at)
  PROVE  DumpsAre(Append(rd, l), samples, at)
<1> DEFINE r2 == Append(rd, l)
           N == Len(rd)
<1>1. /\ N \in Nat /\ Len(r2) = N + 1 /\ r2[N + 1] = l /\ \A i \in 1..N : r2[i] = rd[i]
  BY OneMore
<1>2. \A h : IsLast(r2, "ts", N + 1, h) <=> IsLast(rd, "ts", N, h)
  BY LastAppend
<1>3. \A s, f : Says(r2, s, f) = Says(rd, s, f)
  BY SaysAppend
<1>4. \A i \in 1..Len(samples) : SampleOf(r2, samples[i], at[i])
  BY SampleStays DEF DumpsAre
<1> HIDE DEF r2
<1>5. ASSUME NEW i \in 1..Len(samples) PROVE at[i] \in 0..Len(r2) /\ (at[i] = 0 \/ r2[at[i]].t = "ts")
  BY <1>1 DEF DumpsAre
<1>6. DumpsAre(r2, samples, at)
  BY <1>1, <1>2, <1>3, <1>4, <1>5 DEF DumpsAre
<1> QED
  BY <1>6 DEF r2

\* A TS line opens one.
LEMMA DumpsTS ==
  ASSUME NEW rd \in Seq(MemLines), NEW l \in MemLines, l.t = "ts",
         NEW X, NEW samples \in Seq(X), <<>> \in X, NEW at, DumpsAre(rd, samples, at)
  PROVE  DumpsAre(Append(rd, l), Append(samples, <<>>), Append(at, Len(rd) + 1))
<1> DEFINE r2 == Append(rd, l)
           N == Len(rd)
           n == Len(samples)
           s2 == Append(samples, <<>>)
           a2 == Append(at, N + 1)
<1>1. /\ N \in Nat /\ Len(r2) = N + 1 /\ r2[N + 1] = l /\ \A i \in 1..N : r2[i] = rd[i]
  BY OneMore
<1>2. IsLast(r2, "ts", N + 1, N + 1)
  BY LastAppend
<1>3. \A s, f : Says(r2, s, f) = Says(rd, s, f)
  BY SaysAppend
<1>4. \A i \in 1..n : SampleOf(r2, samples[i], at[i])
  BY SampleStays DEF DumpsAre
<1>5. /\ n \in Nat /\ Len(s2) = n + 1 /\ s2[n + 1] = <<>> /\ \A i \in 1..n : s2[i] = samples[i]
  BY OneMore
<1>6. /\ at \in Seq(Nat) /\ Len(at) = n /\ \A i \in 1..n : at[i] \in 0..N
  BY DEF DumpsAre
<1>7. /\ a2 \in Seq(Nat) /\ Len(a2) = n + 1 /\ a2[n + 1] = N + 1 /\ \A i \in 1..n : a2[i] = at[i]
  <2>1. N + 1 \in Nat
    BY <1>1
  <2> QED
    BY <1>6, <2>1, OneMore
<1> HIDE DEF r2, s2, a2
<1>8. SampleOf(r2, <<>>, N + 1)
  <2>1. \A f : Says(rd, N + 1, f) = {}
    <3> SUFFICES ASSUME NEW f, Says(rd, N + 1, f) # {} PROVE FALSE
      OBVIOUS
    <3>1. \E i \in 1..n : at[i] = N + 1
      BY DEF DumpsAre
    <3> QED
      BY <1>1, <1>6, <3>1
  <2> QED
    BY <1>3, <2>1 DEF SampleOf
<1>9. ASSUME NEW i \in 1..n + 1
      PROVE  a2[i] \in 0..Len(r2) /\ (a2[i] = 0 \/ r2[a2[i]].t = "ts") /\ SampleOf(r2, s2[i], a2[i])
  <2>1. CASE i \in 1..n
    <3>1. at[i] \in 0..N /\ (at[i] = 0 \/ rd[at[i]].t = "ts")
      BY <2>1 DEF DumpsAre
    <3>2. a2[i] = at[i] /\ s2[i] = samples[i]
      BY <1>5, <1>7, <2>1
    <3> QED
      BY <1>1, <1>4, <2>1, <3>1, <3>2
  <2>2. CASE i = n + 1
    BY <1>1, <1>5, <1>7, <1>8, <2>2
  <2> QED
    BY <1>5, <2>1, <2>2
<1>10. ASSUME NEW i \in 1..n + 1, NEW j \in 1..n + 1, i < j PROVE a2[i] < a2[j]
  <2>1. i \in 1..n
    BY <1>5, <1>10
  <2>2. CASE j \in 1..n
    BY <1>7, <1>10, <2>1, <2>2 DEF DumpsAre
  <2>3. CASE j = n + 1
    <3> HIDE DEF N, n
    <3>1. a2[i] = at[i] /\ at[i] \in 0..N /\ a2[j] = N + 1
      BY <1>6, <1>7, <2>1, <2>3
    <3> QED
      BY <1>1, <3>1
  <2> QED
    BY <1>5, <2>2, <2>3
<1>11. ASSUME NEW s, NEW f, Says(r2, s, f) # {} PROVE \E i \in 1..n + 1 : a2[i] = s
  BY <1>3, <1>5, <1>7, <1>11 DEF DumpsAre
<1>12. IsLast(r2, "ts", Len(r2), IF Len(s2) = 0 THEN 0 ELSE a2[Len(s2)])
  BY <1>1, <1>2, <1>5, <1>7
<1>13. DumpsAre(r2, s2, a2)
  BY <1>5, <1>7, <1>9, <1>10, <1>11, <1>12 DEF DumpsAre
<1> QED
  BY <1>13 DEF r2, s2, a2

\* A field line is of the last one.
LEMMA DumpsField ==
  ASSUME NEW rd \in Seq(MemLines), NEW ff \in Fields, NEW v \in Sizes,
         NEW X, NEW samples \in Seq(X), Len(samples) # 0, NEW at, DumpsAre(rd, samples, at)
  PROVE  DumpsAre(Append(rd, [t |-> "field", f |-> ff, v |-> v]),
                  [samples EXCEPT ![Len(samples)] = Filled(samples[Len(samples)], ff, v)], at)
<1> DEFINE l == [t |-> "field", f |-> ff, v |-> v]
           r2 == Append(rd, l)
           N == Len(rd)
           n == Len(samples)
           last == samples[n]
           new == Filled(last, ff, v)
           s2 == [samples EXCEPT ![n] = new]
<1>0. l \in MemLines /\ l.t = "field" /\ l.f = ff /\ l.v = v
  BY DEF MemLines
<1> HIDE DEF l
<1>1. /\ N \in Nat /\ Len(r2) = N + 1 /\ r2[N + 1] = l /\ \A i \in 1..N : r2[i] = rd[i]
  BY <1>0, OneMore
<1>2. \A h : IsLast(r2, "ts", N + 1, h) <=> IsLast(rd, "ts", N, h)
  BY <1>0, LastAppend
<1>3. /\ at \in Seq(Nat) /\ Len(at) = n /\ \A i \in 1..n : at[i] \in 0..N
      /\ IsLast(rd, "ts", N, at[n])
  BY DEF DumpsAre
<1>4. n \in Nat /\ n \in 1..n
  <2>1. n \in Nat /\ n # 0
    OBVIOUS
  <2> HIDE DEF n
  <2> QED
    BY <2>1
<1>5. Len(s2) = n /\ s2[n] = new /\ \A i \in 1..n : i # n => s2[i] = samples[i]
  <2> HIDE DEF new
  <2> QED
    OBVIOUS
<1>6. \A s : IsLast(rd, "ts", N, s) => s = at[n]
  <2> SUFFICES ASSUME NEW s, IsLast(rd, "ts", N, s), s # at[n] PROVE FALSE
    OBVIOUS
  <2> DEFINE h == at[n]
  <2>0. IsLast(rd, "ts", N, h)
    BY <1>3
  <2> HIDE DEF h
  <2>1. s \in 0..N /\ h \in 0..N
    BY <2>0 DEF IsLast
  <2>2. s < h \/ h < s
    BY <1>1, <2>1 DEF h
  <2>3. CASE s < h
    BY <1>1, <2>0, <2>1, <2>3 DEF IsLast
  <2>4. CASE h < s
    BY <1>1, <2>0, <2>1, <2>4 DEF IsLast
  <2> QED
    BY <2>2, <2>3, <2>4
<1>7. \A s, f : f # ff \/ s # at[n] => Says(r2, s, f) = Says(rd, s, f)
  BY <1>0, <1>6, SaysAppend
<1>8. Says(r2, at[n], ff) = Says(rd, at[n], ff) \cup {N + 1}
  <2> DEFINE s == at[n]
  <2>1. IsLast(rd, "ts", N, s)
    BY <1>3
  <2> HIDE DEF s
  <2>2. Says(r2, s, ff) = Says(rd, s, ff) \cup {N + 1}
    BY <1>0, <2>1, SaysAppend
  <2> QED
    BY <2>2 DEF s
<1>9. \A s, f : Says(rd, s, f) \in SUBSET (1..N) /\ \A i \in Says(rd, s, f) : r2[i] = rd[i]
  BY <1>0, SaysAppend
<1> HIDE DEF r2
<1>10. SampleOf(r2, new, at[n])
  <2> DEFINE s == at[n]
  <2>1. SampleOf(rd, last, s)
    BY <1>4 DEF DumpsAre
  <2>2. DOMAIN new = DOMAIN last \cup {ff} /\ new[ff] = v /\ \A f \in DOMAIN last : f # ff => new[f] = last[f]
    BY DEF Filled
  <2> HIDE DEF new, last, s
  <2>3. DOMAIN new \in SUBSET Fields
    BY <2>1, <2>2 DEF SampleOf
  <2>4. \A f \in Fields : f \in DOMAIN new <=> Says(r2, s, f) # {}
    BY <1>7, <1>8, <2>1, <2>2 DEF SampleOf, s
  <2>5. ASSUME NEW f \in DOMAIN new
        PROVE  \E i \in Says(r2, s, f) : new[f] = r2[i].v /\ \A j \in Says(r2, s, f) : j <= i
    <3>1. CASE f = ff
      <4>1. N + 1 \in Says(r2, s, f) /\ new[f] = r2[N + 1].v
        BY <1>0, <1>1, <1>8, <2>2, <3>1 DEF s
      <4>2. ASSUME NEW j \in Says(r2, s, f) PROVE j <= N + 1
        BY <1>1, <1>8, <1>9, <3>1 DEF s
      <4> QED
        BY <4>1, <4>2
    <3>2. CASE f # ff
      BY <1>7, <1>9, <2>1, <2>2, <3>2 DEF SampleOf
    <3> QED
      BY <3>1, <3>2
  <2>6. SampleOf(r2, new, s)
    BY <2>3, <2>4, <2>5 DEF SampleOf
  <2> QED
    BY <2>6 DEF s
<1> HIDE DEF new, s2, last
<1>11. ASSUME NEW i \in 1..n
       PROVE  at[i] \in 0..Len(r2) /\ (at[i] = 0 \/ r2[at[i]].t = "ts") /\ SampleOf(r2, s2[i], at[i])
  <2>1. at[i] \in 0..N /\ (at[i] = 0 \/ rd[at[i]].t = "ts") /\ SampleOf(rd, samples[i], at[i])
    BY DEF DumpsAre
  <2>2. at[i] \in 0..Len(r2) /\ (at[i] = 0 \/ r2[at[i]].t = "ts")
    BY <1>1, <2>1
  <2>3. CASE i = n
    BY <1>5, <1>10, <2>2, <2>3
  <2>4. CASE i # n
    <3>1. at[i] # at[n]
      BY <1>3, <1>4, <2>4 DEF DumpsAre
    <3>2. \A f : Says(r2, at[i], f) = Says(rd, at[i], f)
      BY <1>7, <3>1
    <3>3. SampleOf(r2, samples[i], at[i])
      BY <1>9, <2>1, <3>2 DEF SampleOf
    <3> QED
      BY <1>5, <2>2, <2>4, <3>3
  <2> QED
    BY <2>3, <2>4
<1>12. ASSUME NEW s, NEW f, Says(r2, s, f) # {} PROVE \E i \in 1..n : at[i] = s
  BY <1>4, <1>7, <1>12 DEF DumpsAre
<1>13. IsLast(r2, "ts", Len(r2), IF Len(s2) = 0 THEN 0 ELSE at[Len(s2)])
  BY <1>1, <1>2, <1>3, <1>5
<1>14. \A i \in 1..n, j \in 1..n : i < j => at[i] < at[j]
  BY DEF DumpsAre
<1>15. DumpsAre(r2, s2, at)
  BY <1>3, <1>5, <1>11, <1>12, <1>13, <1>14 DEF DumpsAre
<1> QED
  BY <1>15 DEF r2, s2, l, new, last

\* The lines that a warning was given for.
BadLines(rd) == {i \in 1..Len(rd) : rd[i].t = "bad"}

\* They are counted.
LEMMA BadAppend ==
  ASSUME NEW rd \in Seq(MemLines), NEW l \in MemLines
  PROVE  /\ Cardinality(BadLines(rd)) \in Nat
         /\ l.t = "bad" => Cardinality(BadLines(Append(rd, l))) = Cardinality(BadLines(rd)) + 1
         /\ l.t # "bad" => BadLines(Append(rd, l)) = BadLines(rd)
<1> DEFINE r2 == Append(rd, l)
           N == Len(rd)
<1>1. /\ N \in Nat /\ Len(r2) = N + 1 /\ r2[N + 1] = l /\ \A i \in 1..N : r2[i] = rd[i]
  BY OneMore
<1> HIDE DEF r2, N
<1>2. BadLines(rd) \in SUBSET (1..N) /\ N + 1 \notin BadLines(rd)
  BY <1>1 DEF BadLines, N
<1>3. IsFiniteSet(1..N)
  BY <1>1, FS_Interval
<1>4. IsFiniteSet(BadLines(rd)) /\ Cardinality(BadLines(rd)) \in Nat
  BY <1>2, <1>3, FS_Subset, FS_CardinalityType
<1>5. \A i : i \in 1..N + 1 <=> i \in 1..N \/ i = N + 1
  BY <1>1
<1>6. BadLines(r2) = BadLines(rd) \cup (IF l.t = "bad" THEN {N + 1} ELSE {})
  BY <1>1, <1>5 DEF BadLines, N
<1>7. Cardinality(BadLines(rd) \cup {N + 1}) = Cardinality(BadLines(rd)) + 1
  BY <1>2, <1>4, FS_AddElement
<1> QED
  BY <1>4, <1>6, <1>7 DEF r2

\* The dumps of the lines, what they have, and those that have enough of it.
DumpsIn(rd) == {0} \cup {i \in 1..Len(rd) : rd[i].t = "ts"}
FieldsIn(rd, s) == {f \in Fields : Says(rd, s, f) # {}}
CompleteIn(rd) == {s \in DumpsIn(rd) : CoreFields \subseteq FieldsIn(rd, s)}
TotalIn(rd) == {s \in DumpsIn(rd) : "MemTotal" \in FieldsIn(rd, s)}
SaidIn(rd) == {s \in DumpsIn(rd) : FieldsIn(rd, s) # {}}

\* CompleteBeatsPartial, of lines, data and a number of diagnostics.
Shown(rd, data, len) ==
  /\ \E s \in DumpsIn(rd) :
       /\ DOMAIN data = FieldsIn(rd, s)
       /\ \A f \in FieldsIn(rd, s) : data[f] = rd[Max(Says(rd, s, f))].v
       /\ CompleteIn(rd) # {} => s = Max(CompleteIn(rd))
       /\ CompleteIn(rd) = {} /\ TotalIn(rd) # {} => s = Max(TotalIn(rd))
  /\ len > Cardinality(BadLines(rd)) <=> Max(SaidIn(rd)) \notin CompleteIn(rd)

\* What ParseEnvMeminfoWithDiagnostics chooses of the samples.
LEMMA ChosenIsShown ==
  ASSUME NEW rd \in Seq(MemLines), NEW X, NEW samples \in Seq(X), NEW at, DumpsAre(rd, samples, at),
         NEW tracked \in SUBSET (1..Len(samples)), tracked # {},
         \A i \in 1..Len(samples) : i \in tracked <=> DOMAIN samples[i] # {},
         NEW complete \in SUBSET tracked,
         \A i \in tracked : i \in complete <=> CoreFields \subseteq DOMAIN samples[i],
         NEW total \in SUBSET tracked,
         \A i \in tracked : i \in total <=> "MemTotal" \in DOMAIN samples[i],
         NEW len \in Nat,
         len = IF Max(tracked) \in complete THEN Cardinality(BadLines(rd)) ELSE Cardinality(BadLines(rd)) + 1
  PROVE  Shown(rd, samples[IF complete # {} THEN Max(complete) ELSE IF total # {} THEN Max(total) ELSE Max(tracked)], len)
<1> DEFINE n == Len(samples)
<1>1. /\ n \in Nat /\ at \in Seq(Nat) /\ Len(at) = n /\ DOMAIN samples = 1..n
      /\ \A i \in 1..n, j \in 1..n : i < j => at[i] < at[j]
  BY DEF DumpsAre
<1>2. /\ \A i \in 1..n : at[i] \in 0..Len(rd) /\ (at[i] = 0 \/ rd[at[i]].t = "ts") /\ SampleOf(rd, samples[i], at[i])
      /\ \A s, f : Says(rd, s, f) # {} => \E i \in 1..n : at[i] = s
  BY DEF DumpsAre
<1>3. ASSUME NEW i \in 1..n PROVE at[i] \in DumpsIn(rd) /\ DOMAIN samples[i] = FieldsIn(rd, at[i])
  <2>1. at[i] \in DumpsIn(rd)
    BY <1>2 DEF DumpsIn
  <2>2. DOMAIN samples[i] = FieldsIn(rd, at[i])
    BY <1>2 DEF SampleOf, FieldsIn
  <2> QED
    BY <2>1, <2>2
<1>4. {"MemTotal"} \subseteq CoreFields
  BY MemoryAssumption
<1> HIDE DEF n
<1>5. /\ tracked \in SUBSET (1..n) /\ complete \in SUBSET (1..n) /\ total \in SUBSET (1..n)
  BY Zenon DEF n
<1>6. ASSUME NEW s PROVE s \in SaidIn(rd) <=> \E i \in tracked : at[i] = s
  <2>1. ASSUME s \in SaidIn(rd) PROVE \E i \in tracked : at[i] = s
    BY <1>2, <1>3, <2>1 DEF SaidIn, FieldsIn, n
  <2>2. ASSUME NEW i \in tracked, at[i] = s PROVE s \in SaidIn(rd)
    BY <1>3, <1>5, <2>2 DEF SaidIn, n
  <2> QED
    BY <2>1, <2>2
<1>7. ASSUME NEW s PROVE s \in CompleteIn(rd) <=> \E i \in complete : at[i] = s
  BY <1>3, <1>4, <1>5, <1>6 DEF CompleteIn, SaidIn
<1>8. ASSUME NEW s PROVE s \in TotalIn(rd) <=> \E i \in total : at[i] = s
  BY <1>3, <1>5, <1>6 DEF TotalIn, SaidIn
<1>20. ASSUME NEW I \in SUBSET (1..n), I # {}, NEW V, \A x : x \in V <=> \E i \in I : at[i] = x
       PROVE  Max(I) \in I /\ Max(V) = at[Max(I)]
  <2>1. I \in SUBSET (0..n)
    BY <1>1
  <2>2. Max(I) \in I /\ \A i \in I : i <= Max(I)
    BY <1>1, <1>20, <2>1, Greatest
  <2> DEFINE m == Max(I)
  <2> HIDE DEF m
  <2>3. m \in I /\ m \in 1..n /\ \A i \in I : i <= m
    BY <2>2 DEF m
  <2>4. V \subseteq Nat
    BY <1>1, <1>20
  <2>5. at[m] \in V
    BY <1>20, <2>3
  <2>6. ASSUME NEW x \in V PROVE x <= at[m]
    BY <1>1, <1>20, <2>3
  <2>7. Max(V) = at[m]
    BY <2>4, <2>5, <2>6, MaxIs
  <2> QED
    BY <2>3, <2>5, <2>7 DEF m
<1>9. Max(tracked) \in tracked /\ Max(SaidIn(rd)) = at[Max(tracked)]
  BY <1>5, <1>6, <1>20
<1>10. complete # {} => Max(complete) \in complete /\ Max(CompleteIn(rd)) = at[Max(complete)]
  BY <1>5, <1>7, <1>20
<1>11. total # {} => Max(total) \in total /\ Max(TotalIn(rd)) = at[Max(total)]
  BY <1>5, <1>8, <1>20
<1> DEFINE chosen == IF complete # {} THEN Max(complete) ELSE IF total # {} THEN Max(total) ELSE Max(tracked)
<1>12. chosen \in 1..n
  BY <1>5, <1>9, <1>10, <1>11
<1>13. /\ CompleteIn(rd) # {} => at[chosen] = Max(CompleteIn(rd))
       /\ CompleteIn(rd) = {} /\ TotalIn(rd) # {} => at[chosen] = Max(TotalIn(rd))
  BY <1>7, <1>8, <1>10, <1>11
<1> HIDE DEF chosen
<1>14. ASSUME NEW f \in FieldsIn(rd, at[chosen]) PROVE samples[chosen][f] = rd[Max(Says(rd, at[chosen], f))].v
  <2> DEFINE T == Says(rd, at[chosen], f)
  <2>1. PICK i \in T : samples[chosen][f] = rd[i].v /\ \A j \in T : j <= i
    <3>1. f \in DOMAIN samples[chosen] /\ SampleOf(rd, samples[chosen], at[chosen])
      BY <1>2, <1>3, <1>12
    <3> QED
      BY <3>1, Zenon DEF SampleOf
  <2>2. T \subseteq Nat
    BY DEF Says
  <2> HIDE DEF T
  <2>3. Max(T) = i
    BY <2>1, <2>2, MaxIs
  <2> QED
    BY <2>1, <2>3 DEF T
<1>15. Max(tracked) \in complete <=> Max(SaidIn(rd)) \in CompleteIn(rd)
  <2>1. ASSUME Max(SaidIn(rd)) \in CompleteIn(rd) PROVE Max(tracked) \in complete
    BY <1>3, <1>5, <1>9, <2>1 DEF CompleteIn
  <2>2. ASSUME Max(tracked) \in complete PROVE Max(SaidIn(rd)) \in CompleteIn(rd)
    BY <1>7, <1>9, <2>2
  <2> QED
    BY <2>1, <2>2
<1>16. Cardinality(BadLines(rd)) \in Nat
  <2>1. Of("ts") \in MemLines
    BY DEF MemLines
  <2> QED
    BY <2>1, BadAppend
<1>17. len > Cardinality(BadLines(rd)) <=> Max(SaidIn(rd)) \notin CompleteIn(rd)
  <2> DEFINE bad == Cardinality(BadLines(rd))
  <2>1. bad \in Nat /\ len = IF Max(tracked) \in complete THEN bad ELSE bad + 1
    BY <1>16
  <2> HIDE DEF bad
  <2>2. len > bad <=> Max(tracked) \notin complete
    BY <2>1
  <2> QED
    BY <1>15, <2>2 DEF bad
<1>18. at[chosen] \in DumpsIn(rd) /\ DOMAIN samples[chosen] = FieldsIn(rd, at[chosen])
  BY <1>3, <1>12
<1>19. Shown(rd, samples[chosen], len)
  BY <1>13, <1>14, <1>17, <1>18 DEF Shown
<1> QED
  BY <1>19 DEF chosen

\* A sample has values of some fields.
Samples == UNION {[D -> Sizes] : D \in SUBSET Fields}

\* The samples so far are the dumps so far.
Dumped(rd, samples) == samples \in Seq(Samples) /\ \E at : DumpsAre(rd, samples, at)

\* The severities of what the parser may say of a line.
Severities == {"warning"}

\* The invariant.
MemInv ==
  kind = "env_meminfo" =>
    /\ read \in Seq(MemLines) /\ diags \in Seq(Severities)
    /\ result.state = "reading" =>
         /\ loc = [samples |-> loc.samples] /\ Dumped(read, loc.samples)
         /\ Len(diags) = Cardinality(BadLines(read))
    /\ result.state = "data" => Shown(read, result.data, Len(diags))

\* One more warning, or none.
LEMMA MoreDiags ==
  ASSUME diags \in Seq(Severities)
  PROVE  /\ diags \o None \in Seq(Severities) /\ Len(diags \o None) = Len(diags)
         /\ diags \o Warning \in Seq(Severities) /\ Len(diags \o Warning) = Len(diags) + 1
         /\ Len(diags) \in Nat
BY ConcatProperties DEF None, Warning, Severities

\* A sample without a field, and one with a field more.
LEMMA NoFieldYet == <<>> \in Samples /\ DOMAIN <<>> = {}
<1>1. <<>> \in [{} -> Sizes]
  OBVIOUS
<1> QED
  BY <1>1 DEF Samples

LEMMA FilledIs ==
  ASSUME NEW sample \in Samples, NEW f \in Fields, NEW v \in Sizes
  PROVE  Filled(sample, f, v) \in Samples
<1>1. PICK D \in SUBSET Fields : sample \in [D -> Sizes]
  BY DEF Samples
<1>2. D \cup {f} \in SUBSET Fields /\ DOMAIN sample = D
  BY <1>1
<1>3. Filled(sample, f, v) \in [D \cup {f} -> Sizes]
  BY <1>1, <1>2 DEF Filled
<1> QED
  BY <1>2, <1>3 DEF Samples

\* Opened opens a sample if there is none.
LEMMA OpenedIs ==
  ASSUME loc = [samples |-> loc.samples], NEW rd \in Seq(MemLines), Dumped(rd, loc.samples)
  PROVE  /\ Opened = [samples |-> Opened.samples]
         /\ Dumped(rd, Opened.samples)
         /\ Opened.samples # <<>>
<1>1. CASE loc.samples = <<>>
  <2> DEFINE s == Append(loc.samples, <<>>)
  <2>1. Opened = [samples |-> s]
    BY <1>1 DEF Opened, NewSample
  <2>2. s = <<<<>>>> /\ s # <<>> /\ s \in Seq(Samples)
    BY <1>1, NoFieldYet
  <2>3. PICK at : DumpsAre(rd, <<>>, at)
    BY <1>1 DEF Dumped
  <2>4. DumpsAre(rd, s, <<0>>)
    BY <2>2, <2>3, DumpsOpen
  <2> HIDE DEF s
  <2>5. Dumped(rd, s)
    BY <2>2, <2>4 DEF Dumped
  <2> QED
    BY <2>1, <2>2, <2>5
<1>2. CASE loc.samples # <<>>
  <2>1. Opened = loc
    BY <1>2 DEF Opened
  <2> QED
    BY <1>2, <2>1
<1> QED
  BY <1>1, <1>2

\* The invariant is kept by every line and by the end of the file ...
LEMMA MemStep == MemInv /\ [Next]_parserVars => MemInv'
<1> SUFFICES ASSUME MemInv, [Next]_parserVars, kind' = "env_meminfo" PROVE MemInv'
  BY DEF MemInv
<1>1. kind = "env_meminfo"
  BY KindStays
<1>2. /\ read \in Seq(MemLines) /\ diags \in Seq(Severities)
      /\ result.state = "reading" =>
           /\ loc = [samples |-> loc.samples] /\ Dumped(read, loc.samples)
           /\ Len(diags) = Cardinality(BadLines(read))
      /\ result.state = "data" => Shown(read, result.data, Len(diags))
  BY <1>1 DEF MemInv
<1>3. CASE UNCHANGED parserVars
  BY <1>1, <1>2, <1>3 DEF MemInv, parserVars
<1>4. ASSUME NEW l \in MemLines, NEW s, Line("env_meminfo", l, s, IF l.t = "bad" THEN Warning ELSE None),
             result.state = "reading" => s = [samples |-> s.samples] /\ Dumped(Append(read, l), s.samples)
      PROVE  MemInv'
  <2> DEFINE d == IF l.t = "bad" THEN Warning ELSE None
  <2>1. /\ result.state = "reading" /\ result' = result
        /\ read' = Append(read, l) /\ loc' = s /\ diags' = diags \o d
    <3> HIDE DEF d
    <3>1. Line("env_meminfo", l, s, d)
      BY <1>4 DEF d
    <3> QED
      BY <3>1, LineFacts
  <2>2. read' \in Seq(MemLines)
    BY <1>2, <2>1, OneMore
  <2>3. diags' \in Seq(Severities) /\ Len(diags') = Len(diags) + (IF l.t = "bad" THEN 1 ELSE 0)
    <3>1. CASE l.t = "bad"
      BY <1>2, <2>1, <3>1, MoreDiags
    <3>2. CASE l.t # "bad"
      BY <1>2, <2>1, <3>2, MoreDiags
    <3> QED
      BY <3>1, <3>2
  <2>4. Len(diags') = Cardinality(BadLines(read'))
    <3> DEFINE bad == Cardinality(BadLines(read))
               bad2 == Cardinality(BadLines(Append(read, l)))
    <3>1. bad \in Nat /\ bad2 = IF l.t = "bad" THEN bad + 1 ELSE bad
      BY <1>2, BadAppend
    <3>2. Len(diags) = bad
      BY <1>2, <2>1
    <3> HIDE DEF bad, bad2
    <3>3. Len(diags') = bad2
      BY <2>3, <3>1, <3>2
    <3> QED
      BY <2>1, <3>3 DEF bad2
  <2> QED
    BY <1>4, <2>1, <2>2, <2>3, <2>4 DEF MemInv
<1>5. CASE EnvMeminfoTS
  <2> DEFINE l == Of("ts")
             ss == Append(loc.samples, <<>>)
             s == [loc EXCEPT !.samples = ss]
  <2>1. l \in MemLines /\ l.t = "ts"
    BY DEF MemLines, Of
  <2>2. Line("env_meminfo", l, s, IF l.t = "bad" THEN Warning ELSE None)
    BY <1>5, <2>1 DEF EnvMeminfoTS, NewSample
  <2> HIDE DEF l
  <2>3. ASSUME result.state = "reading" PROVE s = [samples |-> s.samples] /\ Dumped(Append(read, l), s.samples)
    <3>1. PICK at : DumpsAre(read, loc.samples, at)
      BY <1>2, <2>3 DEF Dumped
    <3>2. loc.samples \in Seq(Samples) /\ loc = [samples |-> loc.samples]
      BY <1>2, <2>3 DEF Dumped
    <3>3. DumpsAre(Append(read, l), ss, Append(at, Len(read) + 1))
      BY <1>2, <2>1, <3>1, <3>2, NoFieldYet, DumpsTS
    <3>4. ss \in Seq(Samples)
      BY <3>2, NoFieldYet
    <3> HIDE DEF ss
    <3>5. Dumped(Append(read, l), ss)
      BY <3>3, <3>4 DEF Dumped
    <3>6. s = [samples |-> ss]
      BY <3>2
    <3> QED
      BY <3>5, <3>6
  <2> HIDE DEF s
  <2> QED
    BY <1>4, <2>1, <2>2, <2>3
\* A line that says nothing of any field opens a sample and leaves it.
<1>6. ASSUME NEW l \in MemLines, l.t \notin {"ts", "field"}, result.state = "reading"
      PROVE  Opened = [samples |-> Opened.samples] /\ Dumped(Append(read, l), Opened.samples)
  <2>1. Opened = [samples |-> Opened.samples] /\ Dumped(read, Opened.samples)
    BY <1>2, <1>6, OpenedIs
  <2>2. PICK at : DumpsAre(read, Opened.samples, at)
    BY <2>1 DEF Dumped
  <2>3. Opened.samples \in Seq(Samples) /\ Len(Opened.samples) \in Nat
    BY <2>1 DEF Dumped
  <2>4. DumpsAre(Append(read, l), Opened.samples, at)
    BY <1>2, <1>6, <2>2, <2>3, DumpsQuiet
  <2> QED
    BY <2>1, <2>3, <2>4 DEF Dumped
<1>7. CASE EnvMeminfoOther
  BY <1>4, <1>6, <1>7 DEF MemLines, Of, EnvMeminfoOther
<1>8. CASE EnvMeminfoBadField
  BY <1>4, <1>6, <1>8 DEF MemLines, Of, EnvMeminfoBadField
<1>9. CASE EnvMeminfoField
  <2>1. PICK f \in Fields, v \in Sizes :
          Line("env_meminfo", [t |-> "field", f |-> f, v |-> v], WithField(Opened, f, v), None)
    BY <1>9, Zenon DEF EnvMeminfoField
  <2> DEFINE l == [t |-> "field", f |-> f, v |-> v]
             old == Opened.samples
             n == Len(old)
             ss == [old EXCEPT ![n] = Filled(old[n], f, v)]
             s == [Opened EXCEPT !.samples = ss]
  <2>2. l \in MemLines /\ l.t = "field"
    BY DEF MemLines
  <2>3. ASSUME result.state = "reading"
        PROVE  /\ WithField(Opened, f, v) = [samples |-> ss]
               /\ Dumped(Append(read, l), ss)
    <3>1. Opened = [samples |-> old] /\ Dumped(read, old) /\ old # <<>>
      BY <1>2, <2>3, OpenedIs
    <3>2. old \in Seq(Samples) /\ n # 0 /\ n \in 1..n
      BY <3>1 DEF Dumped
    <3>3. PICK at : DumpsAre(read, old, at)
      BY <3>1 DEF Dumped
    <3>4. WithField(Opened, f, v) = [samples |-> ss]
      BY <3>1 DEF WithField
    <3>5. DumpsAre(Append(read, l), ss, at)
      BY <1>2, <3>2, <3>3, DumpsField
    <3>6. ss \in Seq(Samples)
      <4>1. old[n] \in Samples
        BY <3>2
      <4>2. Filled(old[n], f, v) \in Samples
        BY <4>1, FilledIs
      <4> HIDE DEF old
      <4> QED
        BY <3>2, <4>2
    <3> QED
      BY <3>4, <3>5, <3>6 DEF Dumped
  <2>4. Line("env_meminfo", l, WithField(Opened, f, v), IF l.t = "bad" THEN Warning ELSE None)
    BY <2>1, <2>2
  <2>5. result.state = "reading" =>
          /\ WithField(Opened, f, v) = [samples |-> WithField(Opened, f, v).samples]
          /\ Dumped(Append(read, l), WithField(Opened, f, v).samples)
    <3> HIDE DEF ss, l
    <3> QED
      BY <2>3
  <2> HIDE DEF l
  <2> QED
    BY <1>4, <2>2, <2>4, <2>5
<1>10. CASE EnvMeminfoEnd
  <2> DEFINE complete == {i \in Tracked : CoreFields \subseteq DOMAIN loc.samples[i]}
             total == {i \in Tracked : "MemTotal" \in DOMAIN loc.samples[i]}
             chosen == IF complete # {} THEN Max(complete) ELSE IF total # {} THEN Max(total) ELSE Max(Tracked)
             d == IF Tracked = {} \/ Max(Tracked) \in complete THEN None ELSE Warning
             data == IF Tracked = {} THEN <<>> ELSE loc.samples[chosen]
  <2>1. Return("env_meminfo", Tracked = {}, data, d)
    BY <1>10 DEF EnvMeminfoEnd, Newest
  <2>2. /\ read' = read /\ diags' = diags \o d /\ result.state = "reading"
        /\ result'.state = IF Tracked = {} THEN "nil" ELSE "data"
        /\ Tracked # {} => result'.data = data
    <3> DEFINE nil == Tracked = {}
    <3>1. Return("env_meminfo", nil, data, d)
      BY <2>1
    <3> HIDE DEF data, d, nil
    <3>2. /\ read' = read /\ diags' = diags \o d /\ result.state = "reading"
          /\ result'.state = IF nil THEN "nil" ELSE "data"
          /\ ~nil => result'.data = data
      BY <3>1, ReturnFacts
    <3> QED
      BY <3>2, Zenon DEF nil
  <2>3. /\ diags' \in Seq(Severities)
        /\ Tracked # {} => Len(diags') = Len(diags) + (IF Max(Tracked) \in complete THEN 0 ELSE 1)
    <3> HIDE DEF complete
    <3>1. CASE Tracked = {} \/ Max(Tracked) \in complete
      BY <1>2, <2>2, <3>1, MoreDiags
    <3>2. CASE ~(Tracked = {} \/ Max(Tracked) \in complete)
      BY <1>2, <2>2, <3>2, MoreDiags
    <3> QED
      BY <3>1, <3>2
  <2>4. ASSUME Tracked # {} PROVE Shown(read, loc.samples[chosen], Len(diags'))
    <3>1. PICK at : DumpsAre(read, loc.samples, at)
      BY <1>2, <2>2 DEF Dumped
    <3>2. loc.samples \in Seq(Samples)
      BY <1>2, <2>2 DEF Dumped
    <3> DEFINE samples == loc.samples
               n == Len(samples)
    <3>3. /\ DOMAIN samples = 1..n
          /\ \A i \in 1..n : samples[i] # <<>> <=> DOMAIN samples[i] # {}
      <4>1. ASSUME NEW x \in Samples PROVE x # <<>> <=> DOMAIN x # {}
        BY DEF Samples
      <4>2. \A i \in 1..n : samples[i] \in Samples
        BY <3>2
      <4> QED
        BY <3>2, <4>1, <4>2
    <3>4. /\ Tracked \in SUBSET (1..n)
          /\ \A i \in 1..n : i \in Tracked <=> DOMAIN samples[i] # {}
      BY <3>3 DEF Tracked
    <3>5. /\ complete \in SUBSET Tracked
          /\ \A i \in Tracked : i \in complete <=> CoreFields \subseteq DOMAIN samples[i]
          /\ total \in SUBSET Tracked
          /\ \A i \in Tracked : i \in total <=> "MemTotal" \in DOMAIN samples[i]
      OBVIOUS
    <3>6. /\ Len(diags') \in Nat
          /\ Len(diags') = IF Max(Tracked) \in complete THEN Cardinality(BadLines(read))
                           ELSE Cardinality(BadLines(read)) + 1
      <4>1. Len(diags) = Cardinality(BadLines(read)) /\ Len(diags) \in Nat
        BY <1>2, <2>2
      <4> HIDE DEF complete
      <4> QED
        BY <2>3, <2>4, <4>1
    <3> HIDE DEF complete, total, samples
    <3>7. Shown(read, samples[chosen], Len(diags'))
      BY <1>2, <2>4, <3>1, <3>2, <3>4, <3>5, <3>6, ChosenIsShown DEF samples
    <3> QED
      BY <3>7 DEF samples
  <2>5. result'.state = "data" => Shown(read', result'.data, Len(diags'))
    <3> HIDE DEF complete, total, chosen, d
    <3> QED
      BY <2>2, <2>4
  <2> QED
    BY <1>2, <2>2, <2>3, <2>5 DEF MemInv
<1>11. EnvMeminfoNext \/ UNCHANGED parserVars
  BY <1>1 DEF Next, HostKinds
<1> QED
  BY <1>3, <1>5, <1>7, <1>8, <1>9, <1>10, <1>11 DEF EnvMeminfoNext

\* ... and holds before the first.
LEMMA MemStarts == Init => MemInv
<1> SUFFICES ASSUME Init, kind = "env_meminfo" PROVE MemInv
  BY DEF MemInv
<1>1. read = <<>> /\ loc = [samples |-> <<>>] /\ diags = <<>> /\ result.state = "reading"
  BY DEF StartOf, HostKinds, Init, MemoryStart
<1>2. read \in Seq(MemLines) /\ diags \in Seq(Severities) /\ Len(read) = 0 /\ Len(diags) = 0
  BY <1>1
<1>3. Cardinality(BadLines(read)) = 0
  <2>1. BadLines(read) = {}
    BY <1>2 DEF BadLines
  <2> QED
    BY <2>1, FS_EmptySet
<1>4. DumpsAre(read, <<>>, <<>>)
  BY <1>2 DEF Says, IsLast, DumpsAre
<1>5. Dumped(read, loc.samples)
  BY <1>1, <1>4 DEF Dumped
<1> QED
  BY <1>1, <1>2, <1>3, <1>5 DEF MemInv

\* parse/envmeminfo.go, for any fields, sizes and file: the memory shown is that of one
\* dump of the file, the newest complete one or else the newest with MemTotal, and a
\* warning tells when the newest dump of all is incomplete.
THEOREM OneDumpShown == Spec => []CompleteBeatsPartial
<1>1. MemInv => CompleteBeatsPartial
  <2> SUFFICES ASSUME MemInv, kind = "env_meminfo", result.state = "data"
               PROVE  CompleteBeatsPartial
    BY DEF CompleteBeatsPartial
  <2>1. read \in Seq(MemLines) /\ Shown(read, result.data, Len(diags)) /\ Len(read) \in Nat
    BY DEF MemInv
  <2>2. \A s, f : DumpLines(s, f) = Says(read, s, f)
    <3>1. \A i \in 1..Len(read) : \A s : IsLast(read, "ts", i - 1, s) <=> LastBefore("ts", i) = s
      <4> SUFFICES ASSUME NEW i \in 1..Len(read), NEW s
                   PROVE  IsLast(read, "ts", i - 1, s) <=> LastBefore("ts", i) = s
        OBVIOUS
      <4>1. i - 1 \in Nat /\ i - 1 <= Len(read) /\ i - 1 + 1 = i
        BY <2>1
      <4> QED
        BY <2>1, <4>1, LastIs
    <3> QED
      BY <3>1 DEF DumpLines, Says, Positions
  <2>3. Dumps = DumpsIn(read)
    BY DEF Dumps, DumpsIn, Positions
  <2>4. \A s : FieldsOf(s) = FieldsIn(read, s)
    BY <2>2 DEF FieldsOf, FieldsIn
  <2>5. CompleteDumps = CompleteIn(read)
    BY <2>3, <2>4 DEF CompleteDumps, CompleteIn
  <2>6. {u \in Dumps : "MemTotal" \in FieldsOf(u)} = TotalIn(read)
    BY <2>3, <2>4 DEF TotalIn
  <2>7. {s \in Dumps : FieldsOf(s) # {}} = SaidIn(read)
    BY <2>3, <2>4 DEF SaidIn
  <2>8. Positions("bad", Len(read)) = BadLines(read)
    BY DEF Positions, BadLines
  <2> QED
    BY <2>1, <2>2, <2>3, <2>4, <2>5, <2>6, <2>7, <2>8 DEF CompleteBeatsPartial, Shown
<1> QED
  BY <1>1, MemStarts, MemStep, PTL DEF Spec

-----------------------------------------------------------------------------
\* parseInnodbStatus.  The sum of a function with finitely many arguments.

Units(f, x) == {x} \X (1..f[x])
AllUnits(f) == UNION {Units(f, x) : x \in DOMAIN f}

\* Each argument adds its value.
LEMMA UnitsOf ==
  ASSUME NEW f, NEW x, f[x] \in Nat
  PROVE  IsFiniteSet(Units(f, x)) /\ Cardinality(Units(f, x)) = f[x]
<1> DEFINE m == f[x]
           g == [n \in 1..m |-> <<x, n>>]
           U == {x} \X (1..m)
<1> HIDE DEF m
<1>1. m \in Nat
  BY DEF m
<1>2. IsFiniteSet(1..m) /\ Cardinality(1..m) = m
  BY <1>1, FS_Interval
<1>3. g \in [1..m -> U]
  OBVIOUS
<1>4. (\A i, j \in 1..m : g[i] = g[j] => i = j) /\ \A t \in U : \E i \in 1..m : g[i] = t
  OBVIOUS
<1>5. g \in Surjection(1..m, U)
  BY <1>3, <1>4 DEF Surjection
<1> HIDE DEF g, U
<1>6. Cardinality(U) = m
  BY <1>2, <1>3, <1>4, SameSize
<1>7. IsFiniteSet(U)
  BY <1>2, <1>5, FS_Surjection
<1> QED
  BY <1>6, <1>7 DEF U, m, Units

\* Finitely many arguments make a finite sum.
LEMMA UnitsFinite ==
  ASSUME NEW f, IsFiniteSet(DOMAIN f), \A x \in DOMAIN f : f[x] \in Nat
  PROVE  IsFiniteSet(AllUnits(f)) /\ Total(f) = Cardinality(AllUnits(f)) /\ Total(f) \in Nat
<1> DEFINE S == DOMAIN f
           T == {Units(f, x) : x \in S}
           g == [x \in S |-> Units(f, x)]
<1>1. g \in Surjection(S, T)
  BY DEF Surjection
<1>2. \A u \in T : IsFiniteSet(u)
  BY UnitsOf
<1>3. AllUnits(f) = UNION T
  BY DEF AllUnits
<1> HIDE DEF g, T
<1>4. IsFiniteSet(T)
  BY <1>1, FS_Surjection
<1>5. IsFiniteSet(AllUnits(f))
  BY <1>2, <1>3, <1>4, FS_UNION
<1>6. Total(f) = Cardinality(AllUnits(f))
  BY DEF Total, AllUnits, Units
<1> QED
  BY <1>5, <1>6, FS_CardinalityType

\* Two functions that agree but for one argument differ by its values.
LEMMA TotalWithout ==
  ASSUME NEW f, IsFiniteSet(DOMAIN f), \A x \in DOMAIN f : f[x] \in Nat, NEW k \in DOMAIN f,
         NEW g, DOMAIN g = DOMAIN f \ {k}, \A x \in DOMAIN g : g[x] = f[x]
  PROVE  Total(f) = Total(g) + f[k] /\ Total(g) \in Nat
<1>1. IsFiniteSet(DOMAIN g) /\ \A x \in DOMAIN g : g[x] \in Nat
  BY FS_RemoveElement
<1>2. AllUnits(f) = AllUnits(g) \cup Units(f, k)
  <2>1. \A x \in DOMAIN g : Units(g, x) = Units(f, x) /\ x \in DOMAIN f
    BY DEF Units
  <2>2. ASSUME NEW p PROVE p \in AllUnits(f) <=> p \in AllUnits(g) \cup Units(f, k)
    BY <2>1 DEF AllUnits
  <2> QED
    BY <2>2
<1>3. AllUnits(g) \cap Units(f, k) = {}
  <2> SUFFICES ASSUME NEW p \in AllUnits(g), p \in Units(f, k) PROVE FALSE
    OBVIOUS
  <2>1. PICK x \in DOMAIN g : p \in Units(g, x)
    BY DEF AllUnits
  <2> QED
    BY <2>1 DEF Units
<1>4. IsFiniteSet(Units(f, k)) /\ Cardinality(Units(f, k)) = f[k]
  BY UnitsOf
<1>5. IsFiniteSet(AllUnits(g)) /\ Total(g) = Cardinality(AllUnits(g)) /\ Total(g) \in Nat
  BY <1>1, UnitsFinite
<1>6. Total(f) = Cardinality(AllUnits(f))
  BY UnitsFinite
<1>7. Cardinality(AllUnits(f)) = Cardinality(AllUnits(g)) + Cardinality(Units(f, k)) - Cardinality({})
  BY <1>2, <1>3, <1>4, <1>5, FS_Union
<1>8. Cardinality({}) = 0
  BY FS_EmptySet
<1> QED
  BY <1>4, <1>5, <1>6, <1>7, <1>8

\* Counts of finitely many keys of K.
Counts(K, f) == IsFiniteSet(DOMAIN f) /\ DOMAIN f \subseteq K /\ \A x \in DOMAIN f : f[x] \in Nat

\* In g key k counts n, and the others what they count in f.
CountsInstead(f, k, n, g) ==
  /\ \A x : WaitsAt(g, x) = IF x = k THEN n ELSE WaitsAt(f, x)
  /\ Total(g) + WaitsAt(f, k) = Total(f) + n
  /\ Total(f) \in Nat /\ Total(g) \in Nat

\* That is what Recount does.
LEMMA RecountIs ==
  ASSUME NEW K, NEW f, Counts(K, f), NEW k \in K, NEW n \in Nat
  PROVE  Counts(K, Recount(f, k, n)) /\ CountsInstead(f, k, n, Recount(f, k, n))
<1> DEFINE g == Recount(f, k, n)
           h == [x \in DOMAIN f \ {k} |-> f[x]]
           old == WaitsAt(f, k)
<1>0. IsFiniteSet(DOMAIN f) /\ DOMAIN f \subseteq K /\ \A x \in DOMAIN f : f[x] \in Nat
  BY DEF Counts
<1>1. /\ DOMAIN g = (DOMAIN f \ {k}) \cup (IF n = 0 THEN {} ELSE {k})
      /\ \A x \in DOMAIN g : g[x] = IF x = k THEN n ELSE f[x]
  BY DEF Recount
<1>2. DOMAIN h = DOMAIN f \ {k} /\ \A x \in DOMAIN h : h[x] = f[x]
  OBVIOUS
<1>3. old = IF k \in DOMAIN f THEN f[k] ELSE 0
  BY DEF WaitsAt
<1>4. \A x : WaitsAt(f, x) = IF x \in DOMAIN f THEN f[x] ELSE 0
  BY DEF WaitsAt
<1>5. \A x : WaitsAt(g, x) = IF x \in DOMAIN g THEN g[x] ELSE 0
  BY DEF WaitsAt
<1> HIDE DEF g, h, old
<1>6. IsFiniteSet(DOMAIN h)
  BY <1>0, <1>2, FS_RemoveElement
<1>7. IsFiniteSet(DOMAIN h \cup {k})
  BY <1>6, FS_AddElement
<1>8. IsFiniteSet(DOMAIN g) /\ DOMAIN g \subseteq K /\ \A x \in DOMAIN g : g[x] \in Nat
  BY <1>0, <1>1, <1>2, <1>6, <1>7
<1>9. \A x : WaitsAt(g, x) = IF x = k THEN n ELSE WaitsAt(f, x)
  BY <1>1, <1>4, <1>5
<1>10. Total(h) \in Nat /\ Total(f) = Total(h) + old
  <2>1. CASE k \in DOMAIN f
    BY <1>0, <1>2, <1>3, <2>1, TotalWithout
  <2>2. CASE k \notin DOMAIN f
    <3>1. AllUnits(f) = AllUnits(h)
      BY <1>2, <2>2 DEF Units, AllUnits
    <3>2. \A x \in DOMAIN h : h[x] \in Nat
      BY <1>0, <1>2
    <3>3. Total(h) \in Nat /\ Total(h) = Cardinality(AllUnits(h)) /\ Total(f) = Cardinality(AllUnits(f))
      BY <1>0, <1>6, <3>2, UnitsFinite
    <3> QED
      BY <1>3, <2>2, <3>1, <3>3
  <2> QED
    BY <2>1, <2>2
<1>11. Total(g) = Total(h) + n /\ Total(g) \in Nat
  <2>1. CASE n = 0
    <3>1. AllUnits(g) = AllUnits(h)
      BY <1>1, <1>2, <2>1 DEF Units, AllUnits
    <3>2. \A x \in DOMAIN h : h[x] \in Nat
      BY <1>0, <1>2
    <3>3. Total(h) = Cardinality(AllUnits(h)) /\ Total(g) = Cardinality(AllUnits(g))
      BY <1>6, <1>8, <3>2, UnitsFinite
    <3> QED
      BY <1>10, <2>1, <3>1, <3>3
  <2>2. CASE n # 0
    BY <1>1, <1>2, <1>8, <1>10, <2>2, TotalWithout
  <2> QED
    BY <2>1, <2>2
<1>12. old \in Nat
  BY <1>0, <1>3
<1>13. Total(g) + old = Total(f) + n
  BY <1>10, <1>11, <1>12
<1>14. Total(f) \in Nat
  BY <1>0, UnitsFinite
<1> QED
  BY <1>8, <1>9, <1>11, <1>13, <1>14 DEF g, old, Counts, CountsInstead

-----------------------------------------------------------------------------
\* What the parser has read of waits: each is in a SEMAPHORES section, and its mutex
\* is that of the next line that is not blank, if that line is one.

InnodbLines ==
  [t : {"section"}, name : InnodbSections] \cup [t : {"wait"}, site : Sites] \cup [t : {"mutex"}, name : Mutexes]
    \cup {Of("blank"), Of("other")} \cup [t : {"scalar"}, name : {"pool", "history"}, v : Pages]

Within(rd, i, s) == \E h : IsLast(rd, "section", i - 1, h) /\ h > 0 /\ rd[h].name = s
WaitsIn(rd) == {i \in 1..Len(rd) : rd[i].t = "wait" /\ Within(rd, i, "SEMAPHORES")}
ScalarsIn(rd, name, s) == {i \in 1..Len(rd) : rd[i].t = "scalar" /\ rd[i].name = name /\ Within(rd, i, s)}

Blanks(rd, i, j) == \A k \in i + 1..j : rd[k].t = "blank"
Follows(rd, i, j) == j \in i + 1..Len(rd) /\ rd[j].t # "blank" /\ Blanks(rd, i, j - 1)
OfMutex(rd, i, m) ==
  \/ \E j : Follows(rd, i, j) /\ rd[j].t = "mutex" /\ rd[j].name = m
  \/ m = "" /\ \A j : Follows(rd, i, j) => rd[j].t # "mutex"

Keys == Sites \X (Mutexes \cup {""})
WaitsOf(rd, k) == {i \in WaitsIn(rd) : rd[i].site = k[1] /\ OfMutex(rd, i, k[2])}

\* There is one last line of a class.
LEMMA LastOne ==
  ASSUME NEW rd, NEW t, NEW n \in Nat, NEW g, NEW h, IsLast(rd, t, n, g), IsLast(rd, t, n, h)
  PROVE  g = h
<1>1. g \in 0..n /\ h \in 0..n /\ (g > 0 => rd[g].t = t) /\ (h > 0 => rd[h].t = t)
  BY DEF IsLast
<1>2. ~ g < h
  BY <1>1 DEF IsLast
<1>3. ~ h < g
  BY <1>1 DEF IsLast
<1> QED
  BY <1>1, <1>2, <1>3

\* The section and the mutex of the lines before stay when a line is read.
LEMMA WithinAppend ==
  ASSUME NEW rd \in Seq(InnodbLines), NEW l \in InnodbLines, NEW s
  PROVE  /\ \A i \in 1..Len(rd) : Within(Append(rd, l), i, s) <=> Within(rd, i, s)
         /\ \A h : IsLast(rd, "section", Len(rd), h) =>
              (Within(Append(rd, l), Len(rd) + 1, s) <=> h > 0 /\ rd[h].name = s)
<1> DEFINE r2 == Append(rd, l)
           N == Len(rd)
<1>1. /\ N \in Nat /\ r2[N + 1] = l /\ \A i \in 1..N : r2[i] = rd[i]
  BY OneMore
<1>2. \A n \in 0..N : \A h : IsLast(r2, "section", n, h) <=> IsLast(rd, "section", n, h)
  BY LastAppend
<1> HIDE DEF r2, N
<1>3. \A n \in 0..N : \A h : IsLast(rd, "section", n, h) => h \in 0..N
  BY <1>1 DEF IsLast
<1>4. ASSUME NEW n \in 0..N
      PROVE  Within(r2, n + 1, s) <=> \E h : IsLast(rd, "section", n, h) /\ h > 0 /\ rd[h].name = s
  BY <1>1, <1>2, <1>3 DEF Within
<1>5. ASSUME NEW n \in 0..N
      PROVE  Within(rd, n + 1, s) <=> \E h : IsLast(rd, "section", n, h) /\ h > 0 /\ rd[h].name = s
  <2>1. n + 1 - 1 = n
    OBVIOUS
  <2> QED
    BY <2>1 DEF Within
<1>6. ASSUME NEW h, IsLast(rd, "section", N, h), NEW g, IsLast(rd, "section", N, g) PROVE g = h
  BY <1>1, <1>6, LastOne
<1>7. N \in 0..N /\ \A i \in 1..N : i - 1 \in 0..N /\ i = (i - 1) + 1
  BY <1>1
<1>8. \A i \in 1..N : Within(r2, i, s) <=> Within(rd, i, s)
  BY <1>4, <1>5, <1>7
<1>9. ASSUME NEW h, IsLast(rd, "section", N, h)
      PROVE  Within(r2, N + 1, s) <=> h > 0 /\ rd[h].name = s
  BY <1>4, <1>6, <1>7, <1>9
<1> QED
  BY <1>8, <1>9 DEF r2, N

\* A line that names the mutex of a wait, or takes the place of such a line.
LEMMA MutexAppend ==
  ASSUME NEW rd \in Seq(InnodbLines), NEW l \in InnodbLines, NEW i \in 1..Len(rd), NEW m
  PROVE  /\ ~Blanks(rd, i, Len(rd)) => (OfMutex(Append(rd, l), i, m) <=> OfMutex(rd, i, m))
         /\ Blanks(rd, i, Len(rd)) =>
              /\ OfMutex(rd, i, m) <=> m = ""
              /\ OfMutex(Append(rd, l), i, m) <=> m = IF l.t = "mutex" THEN l.name ELSE ""
<1> DEFINE r2 == Append(rd, l)
           N == Len(rd)
<1>1. /\ N \in Nat /\ Len(r2) = N + 1 /\ r2[N + 1] = l /\ \A j \in 1..N : r2[j] = rd[j]
  BY OneMore
<1> HIDE DEF r2, N
<1>2. i \in 1..N
  BY DEF N
<1>3. \A j \in i..N : Blanks(r2, i, j) <=> Blanks(rd, i, j)
  <2> SUFFICES ASSUME NEW j \in i..N PROVE Blanks(r2, i, j) <=> Blanks(rd, i, j)
    OBVIOUS
  <2>1. \A k \in i + 1..j : k \in 1..N
    BY <1>1, <1>2
  <2> QED
    BY <1>1, <2>1 DEF Blanks
<1>4. \A j \in i + 1..N : (Follows(r2, i, j) <=> Follows(rd, i, j)) /\ r2[j] = rd[j]
  <2> SUFFICES ASSUME NEW j \in i + 1..N PROVE (Follows(r2, i, j) <=> Follows(rd, i, j)) /\ r2[j] = rd[j]
    OBVIOUS
  <2>1. j \in 1..N /\ j - 1 \in i..N /\ j \in i + 1..N + 1
    BY <1>1, <1>2
  <2> QED
    BY <1>1, <1>3, <2>1 DEF Follows, N
<1>5. Follows(r2, i, N + 1) <=> l.t # "blank" /\ Blanks(rd, i, N)
  BY <1>1, <1>2, <1>3 DEF Follows
<1>6. \A j : Follows(rd, i, j) => j \in i + 1..N
  BY DEF Follows, N
<1>7. \A j : Follows(r2, i, j) => j \in i + 1..N \/ j = N + 1
  BY <1>1, <1>2 DEF Follows
<1>8. CASE ~Blanks(rd, i, N)
  <2>1. \E j \in i + 1..N : Follows(rd, i, j)
    <3> DEFINE T == {j \in i + 1..N : rd[j].t # "blank"}
    <3>1. T \subseteq Nat /\ T # {}
      BY <1>1, <1>2, <1>8 DEF Blanks
    <3>2. PICK j \in T : \A n \in T : j <= n
      <4> HIDE DEF T
      <4> QED
        BY <3>1, LeastNumber
    <3>3. j \in i + 1..N /\ rd[j].t # "blank"
      OBVIOUS
    <3>4. ASSUME NEW k \in i + 1..j - 1 PROVE rd[k].t = "blank"
      <4>1. k \in i + 1..N /\ k < j
        BY <1>1, <1>2, <3>3
      <4>2. k \notin T
        <5> HIDE DEF T
        <5> QED
          BY <1>1, <1>2, <3>2, <3>3, <4>1
      <4> QED
        BY <4>1, <4>2
    <3> HIDE DEF T
    <3> QED
      BY <3>3, <3>4 DEF Follows, Blanks, N
  <2>2. ~Follows(r2, i, N + 1)
    BY <1>5, <1>8
  <2>3. \A j : Follows(r2, i, j) <=> Follows(rd, i, j)
    BY <1>4, <1>6, <1>7, <2>2
  <2>4. \A j : Follows(rd, i, j) => r2[j] = rd[j]
    BY <1>4, <1>6
  <2>5. OfMutex(r2, i, m) <=> OfMutex(rd, i, m)
    BY <2>3, <2>4 DEF OfMutex
  <2> QED
    BY <1>8, <2>5 DEF N, r2
<1>9. CASE Blanks(rd, i, N)
  <2>1. \A j : ~Follows(rd, i, j)
    BY <1>6, <1>9 DEF Blanks, Follows
  <2>2. OfMutex(rd, i, m) <=> m = ""
    BY <2>1 DEF OfMutex
  <2>3. \A j : Follows(r2, i, j) <=> j = N + 1 /\ l.t # "blank"
    BY <1>4, <1>5, <1>7, <1>9, <2>1
  <2>4. OfMutex(r2, i, m) <=> m = IF l.t = "mutex" THEN l.name ELSE ""
    <3>1. CASE l.t = "mutex"
      BY <1>1, <2>3, <3>1 DEF OfMutex
    <3>2. CASE l.t # "mutex"
      BY <1>1, <2>3, <3>2 DEF OfMutex
    <3> QED
      BY <3>1, <3>2
  <2> QED
    BY <1>9, <2>2, <2>4 DEF N, r2
<1> QED
  BY <1>8, <1>9 DEF N

\* A pair is made of its two parts.
LEMMA PairIs ==
  ASSUME NEW S, NEW T, NEW k \in S \X T
  PROVE  k = <<k[1], k[2]>>
OBVIOUS

\* Pairs are equal part by part.
LEMMA PairEqual ==
  ASSUME NEW k, k = <<k[1], k[2]>>, NEW a, NEW b
  PROVE  k = <<a, b>> <=> a = k[1] /\ k[2] = b
OBVIOUS

\* A wait whose mutex may still come.
Awaits(rd, i) == i \in WaitsIn(rd) /\ Blanks(rd, i, Len(rd))

\* The mutex that a wait is given by line l.
GivenMutex(rd, l, i, m) ==
  IF Blanks(rd, i, Len(rd)) /\ l.t = "mutex" THEN m = l.name ELSE OfMutex(rd, i, m)

\* Where a wait is counted first.
Unnamed(site) == <<site, "">>

\* What one more line makes of the waits.
LEMMA WaitsAppend ==
  ASSUME NEW rd \in Seq(InnodbLines), NEW l \in InnodbLines,
         NEW new, new = (l.t = "wait" /\ Within(Append(rd, l), Len(rd) + 1, "SEMAPHORES"))
  PROVE  /\ \A i : i \in WaitsIn(Append(rd, l)) <=> i \in WaitsIn(rd) \/ (i = Len(rd) + 1 /\ new)
         /\ \A k \in Keys : \A i : i \in WaitsOf(Append(rd, l), k) <=>
              \/ /\ i \in WaitsIn(rd) /\ rd[i].site = k[1]
                 /\ GivenMutex(rd, l, i, k[2])
              \/ i = Len(rd) + 1 /\ new /\ k = Unnamed(l.site)
         /\ \A i : Awaits(Append(rd, l), i) <=> (i = Len(rd) + 1 /\ new) \/ (l.t = "blank" /\ Awaits(rd, i))
<1> DEFINE r2 == Append(rd, l)
           N == Len(rd)
<1>1. /\ N \in Nat /\ Len(r2) = N + 1 /\ r2[N + 1] = l /\ \A i \in 1..N : r2[i] = rd[i]
      /\ N + 1 \notin 1..N /\ \A i : i \in 1..N + 1 <=> i \in 1..N \/ i = N + 1
  BY OneMore
<1>2. \A i \in 1..N : Within(r2, i, "SEMAPHORES") <=> Within(rd, i, "SEMAPHORES")
  BY WithinAppend
<1> HIDE DEF r2, N
<1>3. \A i : i \in WaitsIn(rd) => i \in 1..N
  BY DEF WaitsIn, N
<1>4. \A i : i \in WaitsIn(r2) <=> i \in WaitsIn(rd) \/ (i = N + 1 /\ new)
  BY <1>1, <1>2 DEF WaitsIn, N, r2
<1>5. \A i \in 1..N : \A m : OfMutex(r2, i, m) <=> GivenMutex(rd, l, i, m)
  <2> SUFFICES ASSUME NEW i \in 1..N, NEW m PROVE OfMutex(r2, i, m) <=> GivenMutex(rd, l, i, m)
    OBVIOUS
  <2>1. /\ ~Blanks(rd, i, N) => (OfMutex(r2, i, m) <=> OfMutex(rd, i, m))
        /\ Blanks(rd, i, N) =>
             /\ OfMutex(rd, i, m) <=> m = ""
             /\ OfMutex(r2, i, m) <=> m = IF l.t = "mutex" THEN l.name ELSE ""
    BY MutexAppend DEF r2, N
  <2> QED
    BY <2>1 DEF GivenMutex, N
<1>6. \A m : OfMutex(r2, N + 1, m) <=> m = ""
  <2>1. \A j : ~Follows(r2, N + 1, j)
    BY <1>1 DEF Follows
  <2> QED
    BY <2>1 DEF OfMutex
<1>7. ASSUME NEW k \in Keys, NEW i
      PROVE  i \in WaitsOf(r2, k) <=>
               \/ /\ i \in WaitsIn(rd) /\ rd[i].site = k[1]
                  /\ GivenMutex(rd, l, i, k[2])
               \/ i = N + 1 /\ new /\ k = Unnamed(l.site)
  <2>1. i \in WaitsOf(r2, k) <=> i \in WaitsIn(r2) /\ r2[i].site = k[1] /\ OfMutex(r2, i, k[2])
    BY DEF WaitsOf
  <2>2. CASE i \in WaitsIn(rd)
    BY <1>1, <1>3, <1>4, <1>5, <2>1, <2>2
  <2>3. CASE i = N + 1
    <3>1. k = Unnamed(l.site) <=> l.site = k[1] /\ k[2] = ""
      <4> DEFINE c == l.site
      <4>1. k = <<k[1], k[2]>>
        BY PairIs DEF Keys
      <4> HIDE DEF c
      <4>2. k = <<c, "">> <=> c = k[1] /\ k[2] = ""
        BY <4>1, PairEqual
      <4> QED
        BY <4>2 DEF c, Unnamed
    <3>2. i \notin WaitsIn(rd)
      BY <1>1, <1>3, <2>3
    <3> QED
      BY <1>1, <1>4, <1>6, <2>1, <2>3, <3>1, <3>2
  <2> QED
    BY <1>4, <2>1, <2>2, <2>3
<1>8. ASSUME NEW i PROVE Awaits(r2, i) <=> (i = N + 1 /\ new) \/ (l.t = "blank" /\ Awaits(rd, i))
  <2>1. CASE i \in WaitsIn(rd)
    BY <1>1, <1>3, <1>4, <2>1 DEF Blanks, Awaits, N
  <2>2. CASE i = N + 1
    BY <1>1, <1>3, <1>4, <2>2 DEF Blanks, Awaits
  <2> QED
    BY <1>4, <2>1, <2>2 DEF Awaits
<1> QED
  BY <1>4, <1>7, <1>8 DEF r2, N

\* The counts of the parser, and the wait that may still get a mutex.
CountsAre(rd, sites, waits, pending) ==
  /\ Counts(Keys, sites)
  /\ \A k \in Keys : WaitsAt(sites, k) = Cardinality(WaitsOf(rd, k))
  /\ waits = Cardinality(WaitsIn(rd)) /\ Total(sites) = waits
  /\ \/ pending = <<>> /\ \A i : ~Awaits(rd, i)
     \/ \E i : Awaits(rd, i) /\ pending = <<rd[i].site>>

\* The waits are finitely many, and one at most can still get a mutex.
LEMMA WaitsFinite ==
  ASSUME NEW rd \in Seq(InnodbLines)
  PROVE  /\ IsFiniteSet(WaitsIn(rd)) /\ Cardinality(WaitsIn(rd)) \in Nat
         /\ \A k : IsFiniteSet(WaitsOf(rd, k)) /\ Cardinality(WaitsOf(rd, k)) \in Nat
         /\ \A i \in WaitsIn(rd) : i \in 1..Len(rd) /\ rd[i] \in InnodbLines /\ rd[i].t = "wait"
         /\ \A i, j : Awaits(rd, i) /\ Awaits(rd, j) => i = j
<1>1. Len(rd) \in Nat
  OBVIOUS
<1>2. IsFiniteSet(1..Len(rd))
  BY <1>1, FS_Interval
<1>3. WaitsIn(rd) \subseteq 1..Len(rd)
  BY DEF WaitsIn
<1>4. IsFiniteSet(WaitsIn(rd))
  BY <1>2, <1>3, FS_Subset
<1>5. ASSUME NEW k PROVE IsFiniteSet(WaitsOf(rd, k)) /\ Cardinality(WaitsOf(rd, k)) \in Nat
  BY <1>4, FS_Subset, FS_CardinalityType DEF WaitsOf
<1>6. \A i \in WaitsIn(rd) : i \in 1..Len(rd) /\ rd[i] \in InnodbLines /\ rd[i].t = "wait"
  BY DEF WaitsIn
<1>7. ASSUME NEW i, NEW j, Awaits(rd, i), Awaits(rd, j) PROVE i = j
  <2>1. i \in 1..Len(rd) /\ j \in 1..Len(rd) /\ rd[i].t = "wait" /\ rd[j].t = "wait"
    BY <1>6, <1>7 DEF Awaits
  <2>2. ~ i < j
    BY <1>1, <1>7, <2>1 DEF Awaits, Blanks
  <2>3. ~ j < i
    BY <1>1, <1>7, <2>1 DEF Awaits, Blanks
  <2> QED
    BY <1>1, <2>1, <2>2, <2>3
<1>8. Cardinality(WaitsIn(rd)) \in Nat
  BY <1>4, FS_CardinalityType
<1> QED
  BY <1>4, <1>5, <1>6, <1>7, <1>8

\* A sequence of one element is not empty.
LEMMA OneIsSome ==
  ASSUME NEW x
  PROVE  <<x>> # <<>>
OBVIOUS

\* A line that neither waits nor names the mutex of a wait leaves the counts.
LEMMA SitesStay ==
  ASSUME NEW rd \in Seq(InnodbLines), NEW l \in InnodbLines, NEW sites, NEW waits, NEW pending, NEW left,
         CountsAre(rd, sites, waits, pending),
         ~(l.t = "wait" /\ Within(Append(rd, l), Len(rd) + 1, "SEMAPHORES")),
         l.t = "mutex" => pending = <<>>,
         left = IF l.t = "blank" THEN pending ELSE <<>>
  PROVE  CountsAre(Append(rd, l), sites, waits, left)
<1> DEFINE r2 == Append(rd, l)
<1>1. /\ \A i : i \in WaitsIn(r2) <=> i \in WaitsIn(rd)
      /\ \A k \in Keys : \A i : i \in WaitsOf(r2, k) <=>
           i \in WaitsIn(rd) /\ rd[i].site = k[1] /\ GivenMutex(rd, l, i, k[2])
      /\ \A i : Awaits(r2, i) <=> l.t = "blank" /\ Awaits(rd, i)
  BY WaitsAppend
<1>2. \A i : Awaits(rd, i) => l.t # "mutex"
  <2> SUFFICES ASSUME NEW i, Awaits(rd, i) PROVE pending # <<>>
    OBVIOUS
  <2>1. PICK j : pending = <<rd[j].site>>
    BY DEF CountsAre
  <2> QED
    BY <2>1, OneIsSome
<1>3. \A k \in Keys : WaitsOf(r2, k) = WaitsOf(rd, k)
  <2> SUFFICES ASSUME NEW k \in Keys PROVE WaitsOf(r2, k) = WaitsOf(rd, k)
    OBVIOUS
  <2>1. ASSUME NEW i \in WaitsIn(rd) PROVE GivenMutex(rd, l, i, k[2]) <=> OfMutex(rd, i, k[2])
    BY <1>2, <2>1 DEF Awaits, GivenMutex
  <2>2. \A i : i \in WaitsOf(rd, k) <=> i \in WaitsIn(rd) /\ rd[i].site = k[1] /\ OfMutex(rd, i, k[2])
    BY DEF WaitsOf
  <2>3. \A i : i \in WaitsOf(r2, k) <=> i \in WaitsOf(rd, k)
    BY <1>1, <2>1, <2>2
  <2> QED
    BY <2>3
<1>4. WaitsIn(r2) = WaitsIn(rd)
  BY <1>1
<1>5. \/ left = <<>> /\ \A i : ~Awaits(r2, i)
      \/ \E i : Awaits(r2, i) /\ left = <<r2[i].site>>
  <2>1. CASE l.t = "blank"
    BY <1>1, <2>1, OneMore, WaitsFinite DEF Awaits, CountsAre
  <2>2. CASE l.t # "blank"
    BY <1>1, <2>2
  <2> QED
    BY <2>1, <2>2
<1> HIDE DEF r2
<1>6. CountsAre(r2, sites, waits, left)
  BY <1>3, <1>4, <1>5 DEF CountsAre
<1> QED
  BY <1>6 DEF r2

\* A line that waits is counted without a mutex.
LEMMA SitesWait ==
  ASSUME NEW rd \in Seq(InnodbLines), NEW l \in InnodbLines, NEW sites, NEW waits, NEW pending,
         CountsAre(rd, sites, waits, pending),
         l.t = "wait" /\ Within(Append(rd, l), Len(rd) + 1, "SEMAPHORES"),
         NEW k \in Keys, k = Unnamed(l.site)
  PROVE  CountsAre(Append(rd, l), Recount(sites, k, WaitsAt(sites, k) + 1), waits + 1, <<l.site>>)
<1> DEFINE r2 == Append(rd, l)
           N == Len(rd)
           new == Recount(sites, k, WaitsAt(sites, k) + 1)
<1>1. /\ \A i : i \in WaitsIn(r2) <=> i \in WaitsIn(rd) \/ i = N + 1
      /\ \A j \in Keys : \A i : i \in WaitsOf(r2, j) <=>
           \/ i \in WaitsIn(rd) /\ rd[i].site = j[1] /\ GivenMutex(rd, l, i, j[2])
           \/ i = N + 1 /\ j = k
      /\ Awaits(r2, N + 1)
  BY WaitsAppend
<1>2. N \in Nat /\ r2[N + 1] = l
  BY OneMore
<1>3. /\ IsFiniteSet(WaitsIn(rd)) /\ Cardinality(WaitsIn(rd)) \in Nat
      /\ \A j : IsFiniteSet(WaitsOf(rd, j)) /\ Cardinality(WaitsOf(rd, j)) \in Nat
      /\ \A i \in WaitsIn(rd) : i \in 1..N
  BY WaitsFinite
<1> HIDE DEF r2, N
<1>5. \A j \in Keys : WaitsOf(r2, j) = WaitsOf(rd, j) \cup {i \in {N + 1} : j = k}
  <2> SUFFICES ASSUME NEW j \in Keys PROVE WaitsOf(r2, j) = WaitsOf(rd, j) \cup {i \in {N + 1} : j = k}
    OBVIOUS
  <2>1. \A i : GivenMutex(rd, l, i, j[2]) <=> OfMutex(rd, i, j[2])
    BY DEF GivenMutex
  <2>2. \A i : i \in WaitsOf(rd, j) <=> i \in WaitsIn(rd) /\ rd[i].site = j[1] /\ OfMutex(rd, i, j[2])
    BY DEF WaitsOf
  <2>3. \A i : i \in WaitsOf(r2, j) <=> i \in WaitsOf(rd, j) \/ (i = N + 1 /\ j = k)
    BY <1>1, <2>1, <2>2
  <2> QED
    BY <2>3
<1>6. N + 1 \notin WaitsIn(rd) /\ \A j : N + 1 \notin WaitsOf(rd, j)
  BY <1>2, <1>3 DEF WaitsOf
<1>7. Cardinality(WaitsIn(r2)) = Cardinality(WaitsIn(rd)) + 1
  BY <1>1, <1>3, <1>6, FS_AddElement
<1>8. \A j \in Keys : Cardinality(WaitsOf(r2, j)) = IF j = k THEN Cardinality(WaitsOf(rd, k)) + 1
                                                    ELSE Cardinality(WaitsOf(rd, j))
  <2> SUFFICES ASSUME NEW j \in Keys
               PROVE  Cardinality(WaitsOf(r2, j)) = IF j = k THEN Cardinality(WaitsOf(rd, k)) + 1
                                                    ELSE Cardinality(WaitsOf(rd, j))
    OBVIOUS
  <2>1. CASE j = k
    BY <1>3, <1>5, <1>6, <2>1, FS_AddElement
  <2>2. CASE j # k
    BY <1>5, <2>2
  <2> QED
    BY <2>1, <2>2
<1>9. /\ Counts(Keys, sites)
      /\ \A j \in Keys : WaitsAt(sites, j) = Cardinality(WaitsOf(rd, j))
      /\ waits = Cardinality(WaitsIn(rd)) /\ Total(sites) = waits
  BY DEF CountsAre
<1>10. WaitsAt(sites, k) \in Nat /\ WaitsAt(sites, k) + 1 \in Nat
  BY <1>3, <1>9
<1>11. Counts(Keys, new) /\ CountsInstead(sites, k, WaitsAt(sites, k) + 1, new)
  BY <1>9, <1>10, RecountIs
<1> HIDE DEF new
<1>12. Total(new) = waits + 1
  BY <1>9, <1>10, <1>11 DEF CountsInstead
<1>13. \A j \in Keys : WaitsAt(new, j) = Cardinality(WaitsOf(r2, j))
  BY <1>8, <1>9, <1>11 DEF CountsInstead
<1>14. CountsAre(r2, new, waits + 1, <<l.site>>)
  BY <1>1, <1>2, <1>7, <1>9, <1>11, <1>12, <1>13 DEF CountsAre
<1> QED
  BY <1>14 DEF r2, new

\* Where the wait of a site is counted with its mutex.
NamedSite(site, name) == <<site, name>>

\* The keys and their parts.
LEMMA KeyParts ==
  ASSUME NEW site \in Sites, NEW name \in Mutexes
  PROVE  /\ Unnamed(site) \in Keys /\ NamedSite(site, name) \in Keys /\ Unnamed(site) # NamedSite(site, name)
         /\ \A k \in Keys : k = Unnamed(site) <=> site = k[1] /\ k[2] = ""
         /\ \A k \in Keys : k = NamedSite(site, name) <=> site = k[1] /\ k[2] = name
         /\ name # ""
<1>1. name # ""
  BY InnodbAssumption
<1>2. Unnamed(site) \in Keys /\ NamedSite(site, name) \in Keys
  BY DEF Unnamed, NamedSite, Keys
<1>3. \A k \in Keys : k = <<k[1], k[2]>>
  BY PairIs DEF Keys
<1>4. \A k \in Keys : k = Unnamed(site) <=> site = k[1] /\ k[2] = ""
  BY <1>3, PairEqual DEF Unnamed
<1>5. \A k \in Keys : k = NamedSite(site, name) <=> site = k[1] /\ k[2] = name
  BY <1>3, PairEqual DEF NamedSite
<1>6. Unnamed(site) # NamedSite(site, name)
  <2>1. Unnamed(site)[2] = ""
    BY <1>2, <1>4
  <2>2. NamedSite(site, name)[2] = name
    BY <1>2, <1>5
  <2> QED
    BY <1>1, <2>1, <2>2
<1> QED
  BY <1>1, <1>2, <1>4, <1>5, <1>6

\* The line that names the mutex of a wait moves its count.
LEMMA SitesMutex ==
  ASSUME NEW rd \in Seq(InnodbLines), NEW l \in InnodbLines, NEW sites, NEW waits, NEW pending,
         CountsAre(rd, sites, waits, pending), l.t = "mutex", pending # <<>>,
         NEW o, o = Unnamed(pending[1]), NEW k, k = NamedSite(pending[1], l.name),
         NEW left, left = Recount(sites, o, WaitsAt(sites, o) - 1),
         NEW now, now = Recount(left, k, WaitsAt(left, k) + 1)
  PROVE  CountsAre(Append(rd, l), now, waits, <<>>)
<1> DEFINE r2 == Append(rd, l)
<1>1. PICK i : Awaits(rd, i) /\ pending = <<rd[i].site>>
  BY DEF CountsAre
<1>2. /\ IsFiniteSet(WaitsIn(rd)) /\ Cardinality(WaitsIn(rd)) \in Nat
      /\ \A x : IsFiniteSet(WaitsOf(rd, x)) /\ Cardinality(WaitsOf(rd, x)) \in Nat
      /\ \A j \in WaitsIn(rd) : j \in 1..Len(rd) /\ rd[j] \in InnodbLines /\ rd[j].t = "wait"
      /\ \A j : Awaits(rd, j) => i = j
  BY <1>1, WaitsFinite
<1>3. i \in WaitsIn(rd) /\ i \in 1..Len(rd) /\ Blanks(rd, i, Len(rd))
  BY <1>1, <1>2 DEF Awaits
<1>4. rd[i].site \in Sites /\ pending[1] = rd[i].site
  <2>1. rd[i].site \in Sites
    BY <1>2, <1>3 DEF InnodbLines, Of
  <2> QED
    BY <1>1, <2>1
<1>5. l.name \in Mutexes
  BY DEF InnodbLines, Of
<1>6. /\ o \in Keys /\ k \in Keys /\ o # k /\ l.name # ""
      /\ \A x \in Keys : (x = o <=> rd[i].site = x[1] /\ x[2] = "")
      /\ \A x \in Keys : (x = k <=> rd[i].site = x[1] /\ x[2] = l.name)
  <2> PICK site, name : site = rd[i].site /\ name = l.name
    OBVIOUS
  <2>1. site \in Sites /\ name \in Mutexes /\ o = Unnamed(site) /\ k = NamedSite(site, name)
    BY <1>4, <1>5
  <2>2. /\ Unnamed(site) \in Keys /\ NamedSite(site, name) \in Keys /\ Unnamed(site) # NamedSite(site, name)
        /\ name # ""
    BY <2>1, KeyParts
  <2>6. \A x \in Keys : x = Unnamed(site) <=> site = x[1] /\ x[2] = ""
    BY Zenon, <2>1, KeyParts
  <2>7. \A x \in Keys : x = NamedSite(site, name) <=> site = x[1] /\ x[2] = name
    <3>1. \A a \in Sites, b \in Mutexes, x \in Keys : x = NamedSite(a, b) <=> a = x[1] /\ x[2] = b
      BY KeyParts
    <3> QED
      BY <2>1, <3>1
  <2>3. o \in Keys /\ k \in Keys /\ o # k /\ l.name # ""
    BY <2>1, <2>2
  <2>4. \A x \in Keys : x = o <=> rd[i].site = x[1] /\ x[2] = ""
    BY <2>1, <2>6
  <2>5. \A x \in Keys : x = k <=> rd[i].site = x[1] /\ x[2] = l.name
    BY <2>1, <2>7
  <2> QED
    BY <2>3, <2>4, <2>5
<1>7. \A m : (OfMutex(rd, i, m) <=> m = "") /\ (GivenMutex(rd, l, i, m) <=> m = l.name)
  BY <1>3, MutexAppend DEF GivenMutex
<1>8. \A j \in WaitsIn(rd) : \A m : j # i => (GivenMutex(rd, l, j, m) <=> OfMutex(rd, j, m))
  BY <1>2 DEF GivenMutex, Awaits
<1>9. /\ \A j : j \in WaitsIn(r2) <=> j \in WaitsIn(rd)
      /\ \A x \in Keys : \A j : j \in WaitsOf(r2, x) <=>
           j \in WaitsIn(rd) /\ rd[j].site = x[1] /\ GivenMutex(rd, l, j, x[2])
      /\ \A j : ~Awaits(r2, j)
  BY WaitsAppend
<1> HIDE DEF r2
<1>10. ASSUME NEW x \in Keys
       PROVE  /\ \A j : j # i => (j \in WaitsOf(r2, x) <=> j \in WaitsOf(rd, x))
              /\ (i \in WaitsOf(r2, x) <=> x = k) /\ (i \in WaitsOf(rd, x) <=> x = o)
  BY <1>3, <1>6, <1>7, <1>8, <1>9 DEF WaitsOf
<1>11. Cardinality(WaitsOf(r2, o)) = Cardinality(WaitsOf(rd, o)) - 1 /\ Cardinality(WaitsOf(rd, o)) - 1 \in Nat
  <2>1. WaitsOf(r2, o) = WaitsOf(rd, o) \ {i} /\ i \in WaitsOf(rd, o)
    BY <1>6, <1>10
  <2>2. Cardinality(WaitsOf(rd, o)) # 0
    BY <1>2, <2>1, FS_EmptySet
  <2> PICK S : S = WaitsOf(rd, o)
    OBVIOUS
  <2>3. Cardinality(WaitsOf(r2, o)) = Cardinality(WaitsOf(rd, o)) - 1
    <3>1. IsFiniteSet(S) /\ i \in S
      BY <1>2, <2>1
    <3>2. Cardinality(S \ {i}) = Cardinality(S) - 1
      BY <3>1, FS_RemoveElement
    <3> QED
      BY <2>1, <3>2
  <2>4. Cardinality(WaitsOf(rd, o)) \in Nat
    BY <1>2
  <2> QED
    BY <2>2, <2>3, <2>4
<1>12. Cardinality(WaitsOf(r2, k)) = Cardinality(WaitsOf(rd, k)) + 1
  <2>1. WaitsOf(r2, k) = WaitsOf(rd, k) \cup {i} /\ i \notin WaitsOf(rd, k)
    BY <1>6, <1>10
  <2> PICK S : S = WaitsOf(rd, k)
    OBVIOUS
  <2>2. IsFiniteSet(S) /\ i \notin S
    BY <1>2, <2>1
  <2>3. Cardinality(S \cup {i}) = Cardinality(S) + 1
    BY <2>2, FS_AddElement
  <2> QED
    BY <2>1, <2>3
<1>13. \A x \in Keys : x # o /\ x # k => WaitsOf(r2, x) = WaitsOf(rd, x)
  <2> SUFFICES ASSUME NEW x \in Keys, x # o, x # k PROVE WaitsOf(r2, x) = WaitsOf(rd, x)
    OBVIOUS
  <2>1. \A j : j \in WaitsOf(r2, x) <=> j \in WaitsOf(rd, x)
    BY <1>10
  <2> QED
    BY <2>1
<1>14. WaitsIn(r2) = WaitsIn(rd)
  BY <1>9
<1>15. /\ Counts(Keys, sites)
       /\ \A x \in Keys : WaitsAt(sites, x) = Cardinality(WaitsOf(rd, x))
       /\ waits = Cardinality(WaitsIn(rd)) /\ Total(sites) = waits
  BY DEF CountsAre
<1>16. WaitsAt(sites, o) \in Nat /\ WaitsAt(sites, o) - 1 \in Nat /\ WaitsAt(sites, k) \in Nat
  BY <1>2, <1>6, <1>11, <1>15
<1>17. Counts(Keys, left) /\ CountsInstead(sites, o, WaitsAt(sites, o) - 1, left)
  BY <1>6, <1>15, <1>16, RecountIs
<1>18. WaitsAt(left, k) = WaitsAt(sites, k) /\ Total(left) + WaitsAt(sites, o) = Total(sites) + (WaitsAt(sites, o) - 1)
       /\ Total(left) \in Nat /\ Total(sites) \in Nat
  BY <1>6, <1>17 DEF CountsInstead
<1>19. Counts(Keys, now) /\ CountsInstead(left, k, WaitsAt(left, k) + 1, now)
  <2>1. WaitsAt(left, k) + 1 \in Nat
    BY <1>16, <1>18
  <2> QED
    BY <1>6, <1>17, <2>1, RecountIs
<1>20. Total(now) + WaitsAt(left, k) = Total(left) + (WaitsAt(left, k) + 1) /\ Total(now) \in Nat
  BY <1>19 DEF CountsInstead
<1>21. Total(now) = waits
  BY <1>15, <1>16, <1>18, <1>20
<1>22. \A x \in Keys : WaitsAt(now, x) = Cardinality(WaitsOf(r2, x))
  <2> SUFFICES ASSUME NEW x \in Keys PROVE WaitsAt(now, x) = Cardinality(WaitsOf(r2, x))
    OBVIOUS
  <2>1. WaitsAt(now, x) = IF x = k THEN WaitsAt(left, k) + 1 ELSE WaitsAt(left, x)
    BY <1>19 DEF CountsInstead
  <2>2. WaitsAt(left, x) = IF x = o THEN WaitsAt(sites, o) - 1 ELSE WaitsAt(sites, x)
    BY <1>17 DEF CountsInstead
  <2> QED
    BY <1>6, <1>11, <1>12, <1>13, <1>15, <1>18, <2>1, <2>2
<1>23. CountsAre(r2, now, waits, <<>>)
  BY <1>9, <1>14, <1>15, <1>19, <1>21, <1>22 DEF CountsAre
<1> QED
  BY <1>23 DEF r2

\* The scalars: those of the buffer pools, and the last history list length.
PoolValues(rd) == [i \in ScalarsIn(rd, "pool", "BUFFER POOL AND MEMORY") |-> rd[i].v]

HistoryIs(rd, v) ==
  LET S == ScalarsIn(rd, "history", "TRANSACTIONS") IN
  (S = {} /\ v = 0) \/ \E i \in S : v = rd[i].v /\ \A j \in S : j <= i

\* The section of the line that is read.
SectionIs(rd, s) == \E h : IsLast(rd, "section", Len(rd), h) /\ s = IF h = 0 THEN "" ELSE rd[h].name

\* A line is of the section that the parser is in.
LEMMA SectionNow ==
  ASSUME NEW rd \in Seq(InnodbLines), NEW l \in InnodbLines, NEW s, SectionIs(rd, s)
  PROVE  /\ \A n \in InnodbSections : Within(Append(rd, l), Len(rd) + 1, n) <=> s = n
         /\ SectionIs(Append(rd, l), IF l.t = "section" THEN l.name ELSE s)
<1> DEFINE r2 == Append(rd, l)
           N == Len(rd)
<1>1. PICK h : IsLast(rd, "section", N, h) /\ s = IF h = 0 THEN "" ELSE rd[h].name
  BY DEF SectionIs
<1>2. /\ N \in Nat /\ Len(r2) = N + 1 /\ r2[N + 1] = l /\ \A i \in 1..N : r2[i] = rd[i]
  BY OneMore
<1>3. \A g : IsLast(r2, "section", N + 1, g) <=>
               IF l.t = "section" THEN g = N + 1 ELSE IsLast(rd, "section", N, g)
  BY LastAppend
<1>4. \A n : Within(r2, N + 1, n) <=> h > 0 /\ rd[h].name = n
  BY <1>1, WithinAppend
<1> HIDE DEF r2, N
<1>5. h \in 0..N
  BY <1>1 DEF IsLast
<1>6. ASSUME NEW n \in InnodbSections PROVE Within(r2, N + 1, n) <=> s = n
  <2>1. n # ""
    BY DEF InnodbSections
  <2>2. CASE h = 0
    <3>1. s = ""
      BY <1>1, <2>2
    <3>2. ~(h > 0)
      BY <2>2
    <3> QED
      BY <1>4, <2>1, <3>1, <3>2
  <2>3. CASE h # 0
    <3>1. h > 0
      BY <1>2, <1>5, <2>3
    <3> QED
      BY <1>1, <1>4, <2>3, <3>1
  <2> QED
    BY <2>2, <2>3
<1>7. SectionIs(r2, IF l.t = "section" THEN l.name ELSE s)
  <2>1. CASE l.t = "section"
    <3>1. IsLast(r2, "section", Len(r2), N + 1) /\ N + 1 # 0
      BY <1>2, <1>3, <2>1
    <3> QED
      BY <1>2, <2>1, <3>1 DEF SectionIs
  <2>2. CASE l.t # "section"
    <3>1. IsLast(r2, "section", Len(r2), h)
      BY <1>1, <1>2, <1>3, <2>2
    <3>2. s = IF h = 0 THEN "" ELSE r2[h].name
      <4>1. h # 0 => r2[h] = rd[h]
        BY <1>2, <1>5
      <4> QED
        BY <1>1, <4>1
    <3>3. SectionIs(r2, s)
      BY <3>1, <3>2 DEF SectionIs
    <3> QED
      BY <2>2, <3>3
  <2> QED
    BY <2>1, <2>2
<1> QED
  BY <1>6, <1>7 DEF r2, N

\* A wait that may still get its mutex is in the section that is read.
LEMMA PendingInSection ==
  ASSUME NEW rd \in Seq(InnodbLines), NEW s, SectionIs(rd, s),
         NEW sites, NEW waits, NEW pending, CountsAre(rd, sites, waits, pending), pending # <<>>
  PROVE  s = "SEMAPHORES"
<1>1. PICK i : Awaits(rd, i)
  BY DEF CountsAre
<1>2. i \in 1..Len(rd) /\ rd[i].t = "wait" /\ Within(rd, i, "SEMAPHORES") /\ Blanks(rd, i, Len(rd))
  BY <1>1 DEF Awaits, WaitsIn
<1>3. PICK h : IsLast(rd, "section", i - 1, h) /\ h > 0 /\ rd[h].name = "SEMAPHORES"
  BY <1>2 DEF Within
<1>4. Len(rd) \in Nat
  OBVIOUS
<1>5. h \in 1..i - 1 /\ rd[h].t = "section" /\ \A k \in h + 1..i - 1 : rd[k].t # "section"
  BY <1>2, <1>3, <1>4 DEF IsLast
<1>6. \A k \in h + 1..Len(rd) : k \in h + 1..i - 1 \/ k = i \/ k \in i + 1..Len(rd)
  BY <1>2, <1>4, <1>5
<1>7. \A k \in h + 1..Len(rd) : rd[k].t # "section"
  BY <1>2, <1>5, <1>6 DEF Blanks
<1>8. IsLast(rd, "section", Len(rd), h)
  BY <1>2, <1>4, <1>5, <1>7 DEF IsLast
<1>9. PICK g : IsLast(rd, "section", Len(rd), g) /\ s = IF g = 0 THEN "" ELSE rd[g].name
  BY DEF SectionIs
<1>10. g = h
  BY <1>4, <1>8, <1>9, LastOne
<1>11. h # 0
  BY <1>2, <1>4, <1>5
<1> QED
  BY <1>3, <1>9, <1>10, <1>11

\* What one more line makes of the scalars.
LEMMA ScalarsAppend ==
  ASSUME NEW rd \in Seq(InnodbLines), NEW l \in InnodbLines, NEW s, SectionIs(rd, s),
         NEW name, NEW n \in InnodbSections
  PROVE  /\ \A i : i \in ScalarsIn(Append(rd, l), name, n) <=>
               i \in ScalarsIn(rd, name, n) \/ (i = Len(rd) + 1 /\ l.t = "scalar" /\ l.name = name /\ s = n)
         /\ \A i \in ScalarsIn(rd, name, n) : i \in 1..Len(rd) /\ Append(rd, l)[i] = rd[i] /\ rd[i].v \in Nat
         /\ IsFiniteSet(ScalarsIn(rd, name, n))
         /\ l.t = "scalar" => l.v \in Nat
<1> DEFINE r2 == Append(rd, l)
           N == Len(rd)
<1>1. /\ N \in Nat /\ Len(r2) = N + 1 /\ r2[N + 1] = l /\ \A i \in 1..N : r2[i] = rd[i]
      /\ N + 1 \notin 1..N /\ \A i : i \in 1..N + 1 <=> i \in 1..N \/ i = N + 1
  BY OneMore
<1>2. (\A i \in 1..N : Within(r2, i, n) <=> Within(rd, i, n)) /\ (Within(r2, N + 1, n) <=> s = n)
  BY WithinAppend, SectionNow
<1> HIDE DEF r2, N
<1>3. \A i : i \in ScalarsIn(rd, name, n) <=> i \in 1..N /\ rd[i].t = "scalar" /\ rd[i].name = name /\ Within(rd, i, n)
  BY DEF ScalarsIn, N
<1>4. \A i : i \in ScalarsIn(r2, name, n) <=>
        i \in 1..N + 1 /\ r2[i].t = "scalar" /\ r2[i].name = name /\ Within(r2, i, n)
  BY <1>1 DEF ScalarsIn
<1>5. \A i : i \in ScalarsIn(r2, name, n) <=>
        i \in ScalarsIn(rd, name, n) \/ (i = N + 1 /\ l.t = "scalar" /\ l.name = name /\ s = n)
  BY <1>1, <1>2, <1>3, <1>4
<1>6. \A x \in InnodbLines : x.t = "scalar" => x.v \in Nat
  <2> SUFFICES ASSUME NEW x \in InnodbLines, x.t = "scalar" PROVE x.v \in Nat
    OBVIOUS
  <2>1. x \in [t : {"scalar"}, name : {"pool", "history"}, v : Pages]
    BY DEF InnodbLines, Of
  <2> QED
    BY <2>1, InnodbAssumption
<1>7. \A i \in 1..N : rd[i] \in InnodbLines
  BY DEF N
<1>8. \A i \in ScalarsIn(rd, name, n) : i \in 1..N /\ r2[i] = rd[i] /\ rd[i].v \in Nat
  BY <1>1, <1>3, <1>6, <1>7
<1>9. IsFiniteSet(ScalarsIn(rd, name, n))
  BY <1>1, <1>3, FS_Interval, FS_Subset
<1> QED
  BY <1>5, <1>6, <1>8, <1>9 DEF r2, N

\* The sum of the buffer pools is a number.
LEMMA PoolIsNat ==
  ASSUME NEW rd \in Seq(InnodbLines), NEW s, SectionIs(rd, s)
  PROVE  Total(PoolValues(rd)) \in Nat
<1>1. "BUFFER POOL AND MEMORY" \in InnodbSections /\ Of("blank") \in InnodbLines
  BY DEF InnodbSections, InnodbLines, Of
<1>2. /\ IsFiniteSet(ScalarsIn(rd, "pool", "BUFFER POOL AND MEMORY"))
      /\ \A i \in ScalarsIn(rd, "pool", "BUFFER POOL AND MEMORY") : rd[i].v \in Nat
  BY <1>1, ScalarsAppend
<1> DEFINE f == PoolValues(rd)
<1>3. IsFiniteSet(DOMAIN f) /\ \A i \in DOMAIN f : f[i] \in Nat
  BY <1>2 DEF PoolValues
<1> HIDE DEF f
<1>4. Total(f) \in Nat
  BY <1>3, UnitsFinite
<1> QED
  BY <1>4 DEF f

\* The buffer pools add up.
LEMMA PoolAppend ==
  ASSUME NEW rd \in Seq(InnodbLines), NEW l \in InnodbLines, NEW s, SectionIs(rd, s)
  PROVE  Total(PoolValues(Append(rd, l))) =
           Total(PoolValues(rd)) +
             (IF l.t = "scalar" /\ l.name = "pool" /\ s = "BUFFER POOL AND MEMORY" THEN l.v ELSE 0)
<1> DEFINE r2 == Append(rd, l)
           f == PoolValues(rd)
           g == PoolValues(r2)
           N == Len(rd)
           n == "BUFFER POOL AND MEMORY"
<1>0. n \in InnodbSections
  BY DEF InnodbSections
<1>1. /\ \A i : i \in ScalarsIn(r2, "pool", n) <=>
           i \in ScalarsIn(rd, "pool", n) \/ (i = N + 1 /\ l.t = "scalar" /\ l.name = "pool" /\ s = n)
      /\ \A i \in ScalarsIn(rd, "pool", n) : i \in 1..N /\ r2[i] = rd[i] /\ rd[i].v \in Nat
      /\ IsFiniteSet(ScalarsIn(rd, "pool", n))
      /\ l.t = "scalar" => l.v \in Nat
  BY <1>0, ScalarsAppend
<1>2. N \in Nat /\ r2[N + 1] = l /\ N + 1 \notin 1..N
  BY OneMore
<1>3. DOMAIN f = ScalarsIn(rd, "pool", n) /\ \A i \in DOMAIN f : f[i] = rd[i].v
  BY DEF PoolValues
<1>4. DOMAIN g = ScalarsIn(r2, "pool", n) /\ \A i \in DOMAIN g : g[i] = r2[i].v
  BY DEF PoolValues
<1>5. IsFiniteSet(DOMAIN f) /\ \A i \in DOMAIN f : f[i] \in Nat
  BY <1>1, <1>3
<1>6. Total(f) \in Nat
  BY <1>5, UnitsFinite
<1>7. CASE l.t = "scalar" /\ l.name = "pool" /\ s = n
  <2>1. DOMAIN g = DOMAIN f \cup {N + 1} /\ N + 1 \notin DOMAIN f
    BY <1>1, <1>2, <1>3, <1>4, <1>7
  <2>2. IsFiniteSet(DOMAIN g)
    BY <1>5, <2>1, FS_AddElement
  <2>3. N + 1 \in DOMAIN g /\ DOMAIN f = DOMAIN g \ {N + 1} /\ \A i \in DOMAIN f : f[i] = g[i]
    BY <1>1, <1>3, <1>4, <2>1
  <2>4. g[N + 1] = l.v /\ l.v \in Nat
    BY <1>1, <1>2, <1>4, <1>7, <2>3
  <2>5. \A i \in DOMAIN g : g[i] \in Nat
    BY <1>5, <2>1, <2>3, <2>4
  <2> HIDE DEF f, g, N, n, r2
  <2>6. Total(g) = Total(f) + g[N + 1]
    BY <2>2, <2>3, <2>5, TotalWithout
  <2> QED
    BY <1>7, <2>4, <2>6 DEF f, g, n, r2
<1>8. CASE ~(l.t = "scalar" /\ l.name = "pool" /\ s = n)
  <2>1. DOMAIN g = DOMAIN f /\ \A i \in DOMAIN f : f[i] = g[i]
    BY <1>1, <1>3, <1>4, <1>8
  <2>2. AllUnits(f) = AllUnits(g)
    <3> HIDE DEF f, g
    <3>1. \A i \in DOMAIN f : Units(f, i) = Units(g, i)
      BY <2>1 DEF Units
    <3> QED
      BY <2>1, <3>1 DEF AllUnits
  <2>3. IsFiniteSet(DOMAIN g) /\ \A i \in DOMAIN g : g[i] \in Nat
    BY <1>5, <2>1
  <2> HIDE DEF f, g, n, r2
  <2>4. Total(g) = Total(f)
    BY <1>5, <2>2, <2>3, UnitsFinite
  <2>5. Total(g) = Total(f) + 0
    BY <1>6, <2>4
  <2> QED
    BY <1>8, <2>5 DEF f, g, n, r2
<1> QED
  BY <1>7, <1>8

\* The last history list length counts.
LEMMA HistoryAppend ==
  ASSUME NEW rd \in Seq(InnodbLines), NEW l \in InnodbLines, NEW s, SectionIs(rd, s), NEW v, HistoryIs(rd, v)
  PROVE  HistoryIs(Append(rd, l), IF l.t = "scalar" /\ l.name = "history" /\ s = "TRANSACTIONS" THEN l.v ELSE v)
<1> DEFINE r2 == Append(rd, l)
           N == Len(rd)
           n == "TRANSACTIONS"
           S == ScalarsIn(rd, "history", n)
           T == ScalarsIn(r2, "history", n)
<1>0. n \in InnodbSections
  BY DEF InnodbSections
<1>1. /\ \A i : i \in T <=> i \in S \/ (i = N + 1 /\ l.t = "scalar" /\ l.name = "history" /\ s = n)
      /\ \A i \in S : i \in 1..N /\ r2[i] = rd[i]
  BY <1>0, ScalarsAppend
<1>2. N \in Nat /\ r2[N + 1] = l /\ \A i \in 1..N : i <= N + 1
  BY OneMore
<1>3. (S = {} /\ v = 0) \/ \E i \in S : v = rd[i].v /\ \A j \in S : j <= i
  BY DEF HistoryIs
<1>4. \A w : HistoryIs(r2, w) <=> (T = {} /\ w = 0) \/ \E i \in T : w = r2[i].v /\ \A j \in T : j <= i
  BY DEF HistoryIs
<1> HIDE DEF r2, N, S, T
<1>5. CASE l.t = "scalar" /\ l.name = "history" /\ s = n
  <2>1. N + 1 \in T /\ \A j \in T : j <= N + 1
    BY <1>1, <1>2, <1>5
  <2>2. HistoryIs(r2, l.v)
    BY <1>2, <1>4, <2>1
  <2> QED
    BY <1>5, <2>2 DEF r2
<1>6. CASE ~(l.t = "scalar" /\ l.name = "history" /\ s = n)
  BY <1>1, <1>3, <1>4, <1>6 DEF r2
<1> QED
  BY <1>5, <1>6

\* What the parser's locals are, whatever it has read.
InnodbLocals == {"section", "waits", "sites", "pending", "pool", "history"}
IsInnodb(lo) == lo = [f \in InnodbLocals |-> lo[f]]
InnodbIs(rd, lo) ==
  /\ IsInnodb(lo)
  /\ SectionIs(rd, lo.section)
  /\ CountsAre(rd, lo.sites, lo.waits, lo.pending)
  /\ lo.pool = Total(PoolValues(rd))
  /\ HistoryIs(rd, lo.history)

InnodbInv == kind = "innodbstatus1" => read \in Seq(InnodbLines) /\ InnodbIs(read, loc)

\* The section and the scalars after a line.
SectionAfter(l, s) == IF l.t = "section" THEN l.name ELSE s
PoolGain(l, s) == IF l.t = "scalar" /\ l.name = "pool" /\ s = "BUFFER POOL AND MEMORY" THEN l.v ELSE 0
HistoryAfter(l, s, v) == IF l.t = "scalar" /\ l.name = "history" /\ s = "TRANSACTIONS" THEN l.v ELSE v
Scalars(l, lo, s) ==
  /\ IsInnodb(s)
  /\ s.section = SectionAfter(l, lo.section)
  /\ s.pool = lo.pool + PoolGain(l, lo.section)
  /\ s.history = HistoryAfter(l, lo.section, lo.history)

\* A step that reads a line sets them so, and the counts.
LEMMA InnodbReads ==
  ASSUME read \in Seq(InnodbLines), InnodbIs(read, loc),
         NEW l \in InnodbLines, NEW s, Line("innodbstatus1", l, s, None), Scalars(l, loc, s),
         CountsAre(Append(read, l), s.sites, s.waits, s.pending)
  PROVE  InnodbInv'
<1>1. read' = Append(read, l) /\ loc' = s
  BY LineFacts
<1>2. Append(read, l) \in Seq(InnodbLines)
  BY OneMore
<1>3. SectionIs(read, loc.section) /\ loc.pool = Total(PoolValues(read)) /\ HistoryIs(read, loc.history)
  BY DEF InnodbIs
<1>4. SectionIs(Append(read, l), s.section)
  BY <1>3, SectionNow DEF Scalars, SectionAfter
<1>5. s.pool = Total(PoolValues(Append(read, l)))
  BY <1>3, PoolAppend DEF PoolGain, Scalars
<1>6. HistoryIs(Append(read, l), s.history)
  BY <1>3, HistoryAppend DEF HistoryAfter, Scalars
<1>7. InnodbIs(Append(read, l), s)
  BY <1>4, <1>5, <1>6 DEF InnodbIs, Scalars
<1>8. InnodbIs(read', loc') /\ read' \in Seq(InnodbLines)
  BY <1>1, <1>2, <1>7
<1> QED
  BY <1>8 DEF InnodbInv, InnodbIs, SectionIs, CountsAre, HistoryIs, PoolValues

\* A line that is neither a section nor a scalar changes none of them.
LEMMA NoScalars ==
  ASSUME NEW l, l.t # "section", l.t # "scalar", NEW lo, lo.pool \in Nat, NEW s, IsInnodb(s),
         s.section = lo.section, s.pool = lo.pool, s.history = lo.history
  PROVE  Scalars(l, lo, s)
BY DEF Scalars, SectionAfter, PoolGain, HistoryAfter

\* A line that leaves the waits alone ends the wait for a mutex, unless it is blank.
LEMMA NoWait ==
  ASSUME NEW rd \in Seq(InnodbLines), NEW lo, InnodbIs(rd, lo), NEW l \in InnodbLines, NEW s,
         l.t = "wait" => lo.section # "SEMAPHORES", l.t = "mutex" => lo.pending = <<>>,
         s.sites = lo.sites, s.waits = lo.waits, s.pending = IF l.t = "blank" THEN lo.pending ELSE <<>>
  PROVE  CountsAre(Append(rd, l), s.sites, s.waits, s.pending)
BY SectionNow, SitesStay DEF InnodbIs, InnodbSections

\* Outside SEMAPHORES no mutex is awaited.
LEMMA NothingAwaited ==
  ASSUME NEW rd \in Seq(InnodbLines), NEW lo, InnodbIs(rd, lo), lo.section # "SEMAPHORES"
  PROVE  lo.pending = <<>>
BY PendingInSection DEF InnodbIs

\* Each line keeps it ...
LEMMA InnodbStep == InnodbInv /\ [Next]_parserVars => InnodbInv'
<1> SUFFICES ASSUME InnodbInv, [Next]_parserVars, kind' = "innodbstatus1" PROVE InnodbInv'
  BY DEF InnodbInv
<1>1. kind = "innodbstatus1"
  BY KindStays
<1>2. read \in Seq(InnodbLines) /\ InnodbIs(read, loc)
  BY <1>1 DEF InnodbInv
<1>3. IsInnodb(loc) /\ loc.pool \in Nat
  BY <1>2, PoolIsNat DEF InnodbIs
<1>4. CASE read' = read /\ loc' = loc
  BY <1>2, <1>4 DEF InnodbInv, InnodbIs, SectionIs, CountsAre, HistoryIs, PoolValues
<1>5. loc.section # "SEMAPHORES" => loc.pending = <<>>
  BY <1>2, NothingAwaited
<1>5a. loc.pool = loc.pool + 0
  BY <1>3
<1>6. CASE InnodbSection
  <2> PICK n \in InnodbSections :
        Line("innodbstatus1", [t |-> "section", name |-> n], [loc EXCEPT !.section = n, !.pending = <<>>], None)
    BY <1>6 DEF InnodbSection
  <2> DEFINE l == [t |-> "section", name |-> n]
             s == [loc EXCEPT !.section = n, !.pending = <<>>]
  <2>1. l \in InnodbLines /\ l.t = "section" /\ l.name = n
    BY DEF InnodbLines
  <2>2. /\ s.section = n /\ s.pending = <<>> /\ s.sites = loc.sites /\ s.waits = loc.waits
        /\ s.pool = loc.pool /\ s.history = loc.history /\ IsInnodb(s)
    BY <1>3 DEF IsInnodb, InnodbLocals
  <2>3. Line("innodbstatus1", l, s, None)
    OBVIOUS
  <2> HIDE DEF l, s
  <2>4. CountsAre(Append(read, l), s.sites, s.waits, s.pending)
    BY <1>2, <2>1, <2>2, NoWait
  <2>5. Scalars(l, loc, s)
    BY <1>3, <2>1, <2>2 DEF Scalars, SectionAfter, PoolGain, HistoryAfter
  <2> QED
    BY <1>2, <2>1, <2>3, <2>4, <2>5, InnodbReads
<1>7. CASE InnodbWait
  <2> PICK site \in Sites :
        Line("innodbstatus1", [t |-> "wait", site |-> site],
             IF loc.section # "SEMAPHORES" THEN loc
             ELSE [loc EXCEPT !.waits = @ + 1, !.sites = Recount(@, <<site, "">>, WaitsAt(@, <<site, "">>) + 1),
                              !.pending = <<site>>], None)
    BY <1>7 DEF InnodbWait
  <2> DEFINE l == [t |-> "wait", site |-> site]
             k == Unnamed(site)
  <2>1. l \in InnodbLines /\ l.t = "wait" /\ l.site = site
    BY DEF InnodbLines
  <2>2. k \in Keys
    BY DEF Unnamed, Keys
  <2>3. CASE loc.section # "SEMAPHORES"
    <3>1. Line("innodbstatus1", l, loc, None)
      BY <2>3
    <3> HIDE DEF l
    <3>2. loc.pending = <<>>
      BY <1>5, <2>3
    <3>3. CountsAre(Append(read, l), loc.sites, loc.waits, loc.pending)
      BY <1>2, <2>1, <2>3, <3>2, NoWait
    <3>4. Scalars(l, loc, loc)
      BY <1>3, <2>1, NoScalars
    <3> QED
      BY <1>2, <2>1, <3>1, <3>3, <3>4, InnodbReads
  <2>4. CASE loc.section = "SEMAPHORES"
    <3> DEFINE now == Recount(loc.sites, k, WaitsAt(loc.sites, k) + 1)
               s == [loc EXCEPT !.waits = loc.waits + 1, !.sites = now, !.pending = <<site>>]
    <3>1. Line("innodbstatus1", l, s, None)
      <4>1. s = [loc EXCEPT !.waits = @ + 1, !.sites = Recount(@, <<site, "">>, WaitsAt(@, <<site, "">>) + 1),
                              !.pending = <<site>>]
        BY DEF Unnamed
      <4> HIDE DEF s, l
      <4> QED
        BY <2>4, <4>1 DEF l
    <3> HIDE DEF now
    <3>2. /\ s.section = loc.section /\ s.pending = <<site>> /\ s.sites = now /\ s.waits = loc.waits + 1
          /\ s.pool = loc.pool /\ s.history = loc.history /\ IsInnodb(s)
      BY <1>3 DEF IsInnodb, InnodbLocals
    <3> HIDE DEF l, s, k
    <3>3. Within(Append(read, l), Len(read) + 1, "SEMAPHORES") /\ CountsAre(read, loc.sites, loc.waits, loc.pending)
      BY <1>2, <2>1, <2>4, SectionNow DEF InnodbSections, InnodbIs
    <3>4. CountsAre(Append(read, l), now, loc.waits + 1, <<l.site>>)
      BY <1>2, <2>1, <2>2, <3>3, SitesWait DEF k, now
    <3>5. CountsAre(Append(read, l), s.sites, s.waits, s.pending)
      BY <2>1, <3>2, <3>4
    <3>6. Scalars(l, loc, s)
      BY <1>3, <2>1, <3>2, NoScalars
    <3> QED
      BY <1>2, <2>1, <3>1, <3>5, <3>6, InnodbReads
  <2> QED
    BY <2>3, <2>4
<1>8. CASE InnodbMutex
  <2> PICK m \in Mutexes :
        Line("innodbstatus1", [t |-> "mutex", name |-> m],
             IF loc.section = "SEMAPHORES" /\ loc.pending # <<>>
             THEN [loc EXCEPT !.sites = Upgrade(loc.pending[1], m), !.pending = <<>>] ELSE loc, None)
    BY <1>8 DEF InnodbMutex
  <2> DEFINE l == [t |-> "mutex", name |-> m]
  <2>1. l \in InnodbLines /\ l.t = "mutex" /\ l.name = m
    BY DEF InnodbLines
  <2>2. CASE loc.pending = <<>>
    <3>1. Line("innodbstatus1", l, loc, None)
      BY <2>2
    <3> HIDE DEF l
    <3>2. CountsAre(Append(read, l), loc.sites, loc.waits, loc.pending)
      BY <1>2, <2>1, <2>2, NoWait
    <3>3. Scalars(l, loc, loc)
      BY <1>3, <2>1, NoScalars
    <3> QED
      BY <1>2, <2>1, <3>1, <3>2, <3>3, InnodbReads
  <2>3. CASE loc.pending # <<>>
    <3> DEFINE o == Unnamed(loc.pending[1])
               k == NamedSite(loc.pending[1], m)
               left == Recount(loc.sites, o, WaitsAt(loc.sites, o) - 1)
               now == Recount(left, k, WaitsAt(left, k) + 1)
               s == [loc EXCEPT !.sites = now, !.pending = <<>>]
    <3>1. Line("innodbstatus1", l, s, None)
      <4>1. Upgrade(loc.pending[1], m) = now
        BY DEF Upgrade, Unnamed, NamedSite
      <4> HIDE DEF now
      <4> QED
        BY <1>5, <2>3, <4>1
    <3> HIDE DEF now
    <3>2. /\ s.section = loc.section /\ s.pending = <<>> /\ s.sites = now /\ s.waits = loc.waits
          /\ s.pool = loc.pool /\ s.history = loc.history /\ IsInnodb(s)
      BY <1>3 DEF IsInnodb, InnodbLocals
    <3> HIDE DEF l, s, k, o, left
    <3>3. CountsAre(read, loc.sites, loc.waits, loc.pending)
      BY <1>2 DEF InnodbIs
    <3>4. CountsAre(Append(read, l), now, loc.waits, <<>>)
      <4>1. o = Unnamed(loc.pending[1]) /\ k = NamedSite(loc.pending[1], l.name)
        BY <2>1 DEF o, k
      <4>2. left = Recount(loc.sites, o, WaitsAt(loc.sites, o) - 1) /\ now = Recount(left, k, WaitsAt(left, k) + 1)
        BY DEF left, now
      <4> QED
        BY <1>2, <2>1, <2>3, <3>3, <4>1, <4>2, SitesMutex
    <3>5. CountsAre(Append(read, l), s.sites, s.waits, s.pending)
      BY <3>2, <3>4
    <3>6. Scalars(l, loc, s)
      BY <1>3, <2>1, <3>2, NoScalars
    <3> QED
      BY <1>2, <2>1, <3>1, <3>5, <3>6, InnodbReads
  <2> QED
    BY <2>2, <2>3
<1>9. CASE InnodbBlank
  <2> DEFINE l == Of("blank")
  <2>1. l \in InnodbLines /\ l.t = "blank"
    BY DEF InnodbLines, Of
  <2>2. Line("innodbstatus1", l, loc, None)
    BY <1>9 DEF InnodbBlank
  <2> HIDE DEF l
  <2>3. CountsAre(Append(read, l), loc.sites, loc.waits, loc.pending)
    BY <1>2, <2>1, NoWait
  <2>4. Scalars(l, loc, loc)
    BY <1>3, <2>1, NoScalars
  <2> QED
    BY <1>2, <2>1, <2>2, <2>3, <2>4, InnodbReads
<1>10. CASE InnodbOther
  <2> DEFINE l == Of("other")
             s == IF loc.section = "SEMAPHORES" THEN [loc EXCEPT !.pending = <<>>] ELSE loc
  <2>1. l \in InnodbLines /\ l.t = "other"
    BY DEF InnodbLines, Of
  <2>2. /\ s.section = loc.section /\ s.pending = <<>> /\ s.sites = loc.sites /\ s.waits = loc.waits
        /\ s.pool = loc.pool /\ s.history = loc.history /\ IsInnodb(s)
    BY <1>3, <1>5 DEF IsInnodb, InnodbLocals
  <2>3. Line("innodbstatus1", l, s, None)
    BY <1>10 DEF InnodbOther
  <2> HIDE DEF l, s
  <2>4. CountsAre(Append(read, l), s.sites, s.waits, s.pending)
    BY <1>2, <2>1, <2>2, NoWait
  <2>5. Scalars(l, loc, s)
    BY <1>3, <2>1, <2>2, NoScalars
  <2> QED
    BY <1>2, <2>1, <2>3, <2>4, <2>5, InnodbReads
<1>11. CASE InnodbScalar
  <2> PICK name \in {"pool", "history"}, v \in Pages :
        Line("innodbstatus1", [t |-> "scalar", name |-> name, v |-> v],
             CASE name = "pool" /\ loc.section = "BUFFER POOL AND MEMORY" -> [loc EXCEPT !.pool = @ + v]
               [] name = "history" /\ loc.section = "TRANSACTIONS" -> [loc EXCEPT !.history = v]
               [] loc.section = "SEMAPHORES" -> [loc EXCEPT !.pending = <<>>]
               [] OTHER -> loc, None)
    BY <1>11 DEF InnodbScalar
  <2> DEFINE l == [t |-> "scalar", name |-> name, v |-> v]
  <2>1. l \in InnodbLines /\ l.t = "scalar" /\ l.name = name /\ l.v = v
    BY DEF InnodbLines
  <2>2. /\ SectionAfter(l, loc.section) = loc.section
        /\ PoolGain(l, loc.section) = IF name = "pool" /\ loc.section = "BUFFER POOL AND MEMORY" THEN v ELSE 0
        /\ HistoryAfter(l, loc.section, loc.history) =
             IF name = "history" /\ loc.section = "TRANSACTIONS" THEN v ELSE loc.history
    BY <2>1 DEF SectionAfter, PoolGain, HistoryAfter
  <2>3. ASSUME NEW s, Line("innodbstatus1", l, s, None), IsInnodb(s), s.section = loc.section,
               s.pending = <<>>, s.sites = loc.sites, s.waits = loc.waits,
               s.pool = loc.pool + PoolGain(l, loc.section),
               s.history = HistoryAfter(l, loc.section, loc.history)
        PROVE  InnodbInv'
    <3> HIDE DEF l
    <3>1. CountsAre(Append(read, l), s.sites, s.waits, s.pending)
      BY <1>2, <2>1, <2>3, NoWait
    <3>2. Scalars(l, loc, s)
      BY <2>2, <2>3 DEF Scalars
    <3> QED
      BY <1>2, <2>1, <2>3, <3>1, <3>2, InnodbReads
  <2>4. CASE name = "pool" /\ loc.section = "BUFFER POOL AND MEMORY"
    <3> DEFINE s == [loc EXCEPT !.pool = @ + v]
    <3>1. Line("innodbstatus1", l, s, None)
      BY <2>4
    <3>2. /\ s.section = loc.section /\ s.pending = loc.pending /\ s.sites = loc.sites /\ s.waits = loc.waits
          /\ s.pool = loc.pool + v /\ s.history = loc.history /\ IsInnodb(s)
      BY <1>3 DEF IsInnodb, InnodbLocals
    <3> HIDE DEF s, l
    <3> QED
      BY <1>5, <2>2, <2>3, <2>4, <3>1, <3>2
  <2>5. CASE name = "history" /\ loc.section = "TRANSACTIONS"
    <3> DEFINE s == [loc EXCEPT !.history = v]
    <3>1. Line("innodbstatus1", l, s, None)
      BY <2>5
    <3>2. /\ s.section = loc.section /\ s.pending = loc.pending /\ s.sites = loc.sites /\ s.waits = loc.waits
          /\ s.pool = loc.pool /\ s.history = v /\ IsInnodb(s)
      BY <1>3 DEF IsInnodb, InnodbLocals
    <3> HIDE DEF s, l
    <3> QED
      BY <1>3, <1>5, <2>2, <2>3, <2>5, <3>1, <3>2
  <2>6. CASE /\ ~(name = "pool" /\ loc.section = "BUFFER POOL AND MEMORY")
             /\ ~(name = "history" /\ loc.section = "TRANSACTIONS")
    <3> DEFINE s == IF loc.section = "SEMAPHORES" THEN [loc EXCEPT !.pending = <<>>] ELSE loc
    <3>1. Line("innodbstatus1", l, s, None)
      BY <2>6
    <3>2. /\ s.section = loc.section /\ s.pending = <<>> /\ s.sites = loc.sites /\ s.waits = loc.waits
          /\ s.pool = loc.pool /\ s.history = loc.history /\ IsInnodb(s)
      BY <1>3, <1>5 DEF IsInnodb, InnodbLocals
    <3> HIDE DEF s, l
    <3>3. PoolGain(l, loc.section) = 0 /\ HistoryAfter(l, loc.section, loc.history) = loc.history
      BY <2>2, <2>6
    <3>4. s.pool = loc.pool + PoolGain(l, loc.section)
      BY <1>5a, <3>2, <3>3
    <3> QED
      BY <2>3, <3>1, <3>2, <3>3, <3>4
  <2> QED
    BY <2>4, <2>5, <2>6
<1>12. CASE InnodbEnd
  <2>1. read' = read /\ loc' = loc
    BY <1>12, EndFacts DEF InnodbEnd
  <2> QED
    BY <1>4, <2>1
<1>13. CASE UNCHANGED parserVars
  BY <1>4, <1>13 DEF parserVars
<1>14. InnodbNext \/ UNCHANGED parserVars
  BY <1>1 DEF Next, HostKinds
<1> QED
  BY <1>6, <1>7, <1>8, <1>9, <1>10, <1>11, <1>12, <1>13, <1>14 DEF InnodbNext


\* ... and holds before the first.
LEMMA InnodbStarts == Init => InnodbInv
<1> SUFFICES ASSUME Init, kind = "innodbstatus1" PROVE InnodbInv
  BY DEF InnodbInv
<1>1. read = <<>> /\ loc = InnodbStart
  BY DEF StartOf, HostKinds, Init
<1>2. read \in Seq(InnodbLines) /\ Len(read) = 0
  BY <1>1
<1>3. /\ IsInnodb(loc) /\ loc.section = "" /\ loc.waits = 0 /\ loc.sites = <<>> /\ loc.pending = <<>>
      /\ loc.pool = 0 /\ loc.history = 0
  BY <1>1 DEF InnodbStart, IsInnodb, InnodbLocals
<1>4. SectionIs(read, "")
  <2>1. IsLast(read, "section", Len(read), 0)
    BY <1>2 DEF IsLast
  <2> QED
    BY <2>1 DEF SectionIs
<1>5. WaitsIn(read) = {} /\ (\A k : WaitsOf(read, k) = {}) /\ \A n, s : ScalarsIn(read, n, s) = {}
  BY <1>2 DEF WaitsIn, WaitsOf, ScalarsIn
<1>6. Cardinality({}) = 0 /\ IsFiniteSet({})
  BY FS_EmptySet
<1>7. \A f : DOMAIN f = {} => Total(f) = 0
  <2> SUFFICES ASSUME NEW f, DOMAIN f = {} PROVE Total(f) = 0
    OBVIOUS
  <2>1. AllUnits(f) = {}
    BY DEF AllUnits
  <2> QED
    BY <1>6, <2>1, UnitsFinite
<1>8. CountsAre(read, <<>>, 0, <<>>)
  BY <1>5, <1>6, <1>7 DEF WaitsAt, Awaits, Counts, CountsAre
<1>9. Total(PoolValues(read)) = 0
  BY <1>5, <1>7 DEF PoolValues
<1>10. HistoryIs(read, 0)
  BY <1>5 DEF HistoryIs
<1> QED
  BY <1>2, <1>3, <1>4, <1>8, <1>9, <1>10 DEF InnodbInv, InnodbIs

\* The mutex of a wait, by the next line that is not blank.
LEMMA MutexIs ==
  ASSUME read \in Seq(InnodbLines), NEW i \in 1..Len(read), NEW m
  PROVE  OfMutex(read, i, m) <=> MutexOf(i) = m
<1> DEFINE next == {j \in i + 1..Len(read) : read[j].t # "blank"}
<1>1. MutexOf(i) = IF next # {} /\ read[Min(next)].t = "mutex" THEN read[Min(next)].name ELSE ""
  BY DEF MutexOf
<1>2. next \subseteq Nat /\ Len(read) \in Nat
  OBVIOUS
<1>3. CASE next = {}
  BY <1>1, <1>3 DEF Follows, OfMutex
<1>4. CASE next # {}
  <2>1. PICK n : n = Min(next)
    OBVIOUS
  <2>2. n \in next /\ \A j \in next : n <= j
    <3> HIDE DEF next
    <3> QED
      BY <1>2, <1>4, <2>1, MinIs
  <2>3. n \in i + 1..Len(read) /\ read[n].t # "blank"
    BY <2>2
  <2>4. \A j \in i + 1..n - 1 : read[j].t = "blank"
    <3> SUFFICES ASSUME NEW j \in i + 1..n - 1, read[j].t # "blank" PROVE FALSE
      OBVIOUS
    <3>1. j \in i + 1..Len(read) /\ j < n
      BY <1>2, <2>3
    <3>2. j \in next
      BY <3>1
    <3> QED
      BY <2>2, <2>3, <3>1, <3>2
  <2>5. Follows(read, i, n)
    BY <2>3, <2>4 DEF Follows, Blanks
  <2>6. \A j : Follows(read, i, j) => j = n
    <3> SUFFICES ASSUME NEW j, Follows(read, i, j), j # n PROVE FALSE
      OBVIOUS
    <3>1. j \in next /\ \A k \in i + 1..j - 1 : read[k].t = "blank"
      BY DEF Follows, Blanks
    <3>2. n < j
      BY <2>2, <2>3, <3>1
    <3>3. n \in i + 1..j - 1
      BY <2>3, <3>1, <3>2
    <3> QED
      BY <2>3, <3>1, <3>3
  <2>7. MutexOf(i) = IF read[n].t = "mutex" THEN read[n].name ELSE ""
    BY <1>1, <1>4, <2>1
  <2> HIDE DEF next
  <2>8. CASE read[n].t = "mutex"
    BY <2>5, <2>6, <2>7, <2>8 DEF OfMutex
  <2>9. CASE read[n].t # "mutex"
    BY <2>6, <2>7, <2>9 DEF OfMutex
  <2> QED
    BY <2>8, <2>9
<1> QED
  BY <1>3, <1>4

\* parse/innodbstatus.go, for any sites, mutexes, values and file: each wait is counted
\* once, under its site and the mutex of the line after it, the breakdown adds up to the
\* waiting threads, and the pool and history lengths are those of the lines of their sections.
THEOREM WaitsAreCounted == Spec => []WaitsUnderTheirSite
<1>1. InnodbInv => WaitsUnderTheirSite
  <2> SUFFICES ASSUME InnodbInv, kind = "innodbstatus1" PROVE WaitsUnderTheirSite
    BY DEF WaitsUnderTheirSite
  <2>1. read \in Seq(InnodbLines) /\ Len(read) \in Nat /\ InnodbIs(read, loc)
    BY DEF InnodbInv
  <2>2. /\ CountsAre(read, loc.sites, loc.waits, loc.pending)
        /\ loc.pool = Total(PoolValues(read)) /\ HistoryIs(read, loc.history)
    BY <2>1 DEF InnodbIs
  <2>3. \A i \in 1..Len(read) : \A s : InSection(i, s) <=> Within(read, i, s)
    <3> SUFFICES ASSUME NEW i \in 1..Len(read), NEW s PROVE InSection(i, s) <=> Within(read, i, s)
      OBVIOUS
    <3>1. i - 1 \in Nat /\ i - 1 <= Len(read) /\ i - 1 + 1 = i
      BY <2>1
    <3>2. \A h : IsLast(read, "section", i - 1, h) <=> h = LastBefore("section", i)
      BY <2>1, <3>1, LastIs
    <3> QED
      BY <3>2 DEF InSection, Within
  <2>4. WaitLines = WaitsIn(read)
    BY <2>3 DEF WaitLines, WaitsIn, Positions
  <2>5. \A name, s : ScalarLines(name, s) = ScalarsIn(read, name, s)
    BY <2>3 DEF ScalarLines, ScalarsIn, Positions
  <2>6. SiteSum = loc.waits /\ loc.waits = Cardinality(WaitLines)
    BY <2>2, <2>4 DEF CountsAre, SiteSum
  <2>7. ASSUME NEW k \in Keys
        PROVE  WaitsAt(loc.sites, k) = Cardinality({i \in WaitLines : <<read[i].site, MutexOf(i)>> = k})
    <3>1. ASSUME NEW i \in WaitLines
          PROVE  <<read[i].site, MutexOf(i)>> = k <=> read[i].site = k[1] /\ OfMutex(read, i, k[2])
      <4>1. i \in 1..Len(read)
        BY <2>4 DEF WaitsIn
      <4>2. k = <<k[1], k[2]>>
        BY PairIs DEF Keys
      <4>3. OfMutex(read, i, k[2]) <=> MutexOf(i) = k[2]
        BY <2>1, <4>1, MutexIs
      <4>4. k = <<read[i].site, MutexOf(i)>> <=> read[i].site = k[1] /\ k[2] = MutexOf(i)
        BY <4>2, PairEqual
      <4> QED
        BY <4>3, <4>4
    <3>2. {i \in WaitLines : <<read[i].site, MutexOf(i)>> = k} = WaitsOf(read, k)
      BY <2>4, <3>1 DEF WaitsOf
    <3> QED
      BY <2>2, <3>2 DEF CountsAre
  <2>8. loc.pool = Total([i \in ScalarLines("pool", "BUFFER POOL AND MEMORY") |-> read[i].v])
    BY <2>2, <2>5 DEF PoolValues
  <2>9. LET h == ScalarLines("history", "TRANSACTIONS") IN loc.history = IF h = {} THEN 0 ELSE read[Max(h)].v
    <3> DEFINE h == ScalarsIn(read, "history", "TRANSACTIONS")
    <3>1. h \subseteq Nat
      BY DEF ScalarsIn
    <3>2. (h = {} /\ loc.history = 0) \/ \E i \in h : loc.history = read[i].v /\ \A j \in h : j <= i
      BY <2>2 DEF HistoryIs
    <3> HIDE DEF h
    <3>3. loc.history = IF h = {} THEN 0 ELSE read[Max(h)].v
      <4>1. CASE h = {}
        BY <3>2, <4>1
      <4>2. CASE h # {}
        BY <3>1, <3>2, <4>2, MaxIs
      <4> QED
        BY <4>1, <4>2
    <3> QED
      BY <2>5, <3>3 DEF h
  <2> QED
    BY <2>6, <2>7, <2>8, <2>9 DEF WaitsUnderTheirSite, Keys
<1> QED
  BY <1>1, InnodbStarts, InnodbStep, PTL DEF Spec

-----------------------------------------------------------------------------
\* parseMysqladmin.  The column of a line is the number of headers up to it.

MysqladminLines == {Of("other"), Of("header")} \cup [t : {"row"}, name : StatusNames, v : Tally]

HeadersTo(rd, i) == {j \in 1..i : rd[j].t = "header"}
ColumnAt(rd, i) == Cardinality(HeadersTo(rd, i))
RowsAt(rd, n, c) == {i \in 1..Len(rd) : rd[i].t = "row" /\ rd[i].name = n /\ ColumnAt(rd, i) = c}
Reported(rd, n) == {i \in 1..Len(rd) : rd[i].t = "row" /\ rd[i].name = n /\ ColumnAt(rd, i) > 0}

\* Lines keep their columns, and a header starts one.
LEMMA ColumnAppend ==
  ASSUME NEW rd \in Seq(MysqladminLines), NEW l \in MysqladminLines
  PROVE  /\ ColumnAt(rd, Len(rd)) \in Nat
         /\ \A i \in 1..Len(rd) : /\ ColumnAt(Append(rd, l), i) = ColumnAt(rd, i)
                                  /\ ColumnAt(rd, i) \in 0..ColumnAt(rd, Len(rd))
         /\ ColumnAt(Append(rd, l), Len(rd) + 1) = ColumnAt(rd, Len(rd)) + (IF l.t = "header" THEN 1 ELSE 0)
<1> DEFINE r2 == Append(rd, l)
           N == Len(rd)
<1>1. /\ N \in Nat /\ r2[N + 1] = l /\ \A i \in 1..N : r2[i] = rd[i]
  BY OneMore
<1> HIDE DEF r2, N
<1>2. \A i \in 0..N : HeadersTo(r2, i) = HeadersTo(rd, i)
  <2> SUFFICES ASSUME NEW i \in 0..N PROVE HeadersTo(r2, i) = HeadersTo(rd, i)
    OBVIOUS
  <2>1. \A j \in 1..i : j \in 1..N
    BY <1>1
  <2> QED
    BY <1>1, <2>1 DEF HeadersTo
<1>3. \A i \in 0..N : HeadersTo(rd, i) \subseteq HeadersTo(rd, N)
  <2> SUFFICES ASSUME NEW i \in 0..N PROVE HeadersTo(rd, i) \subseteq HeadersTo(rd, N)
    OBVIOUS
  <2>1. \A j \in 1..i : j \in 1..N
    BY <1>1
  <2> QED
    BY <2>1 DEF HeadersTo
<1>4. IsFiniteSet(HeadersTo(rd, N))
  <2>1. IsFiniteSet(1..N)
    BY <1>1, FS_Interval
  <2> QED
    BY <2>1, FS_Subset DEF HeadersTo
<1>5. ColumnAt(rd, N) \in Nat
  BY <1>4, FS_CardinalityType DEF ColumnAt
<1>6. \A i \in 0..N : ColumnAt(rd, i) \in 0..ColumnAt(rd, N)
  <2> SUFFICES ASSUME NEW i \in 0..N PROVE ColumnAt(rd, i) \in 0..ColumnAt(rd, N)
    OBVIOUS
  <2>1. /\ IsFiniteSet(HeadersTo(rd, i))
        /\ Cardinality(HeadersTo(rd, i)) <= Cardinality(HeadersTo(rd, N))
    BY <1>3, <1>4, FS_Subset
  <2>2. Cardinality(HeadersTo(rd, i)) \in Nat
    BY <2>1, FS_CardinalityType
  <2> QED
    BY <1>5, <2>1, <2>2 DEF ColumnAt
<1>7. ColumnAt(r2, N + 1) = ColumnAt(rd, N) + (IF l.t = "header" THEN 1 ELSE 0)
  <2>1. \A j : j \in 1..N + 1 <=> j \in 1..N \/ j = N + 1
    BY <1>1
  <2>2. N + 1 \notin HeadersTo(rd, N)
    BY <1>1 DEF HeadersTo
  <2>3. CASE l.t = "header"
    <3>1. HeadersTo(r2, N + 1) = HeadersTo(rd, N) \cup {N + 1}
      BY <1>1, <2>1, <2>3 DEF HeadersTo
    <3>2. PICK S : S = HeadersTo(rd, N)
      OBVIOUS
    <3>3. Cardinality(S \cup {N + 1}) = Cardinality(S) + 1
      BY <1>4, <2>2, <3>2, FS_AddElement
    <3>4. ColumnAt(r2, N + 1) = ColumnAt(rd, N) + 1
      BY <3>1, <3>2, <3>3 DEF ColumnAt
    <3> QED
      BY <2>3, <3>4
  <2>4. CASE l.t # "header"
    <3>1. HeadersTo(r2, N + 1) = HeadersTo(rd, N)
      BY <1>1, <2>1, <2>4 DEF HeadersTo
    <3>2. ColumnAt(r2, N + 1) = ColumnAt(rd, N)
      BY <3>1 DEF ColumnAt
    <3> QED
      BY <1>5, <2>4, <3>2
  <2> QED
    BY <2>3, <2>4
<1>8. \A i \in 1..N : i \in 0..N
  BY <1>1
<1> QED
  BY <1>2, <1>5, <1>6, <1>7, <1>8 DEF ColumnAt, r2, N

\* A row is one more of its variable in the column.
LEMMA ReportAppend ==
  ASSUME NEW rd \in Seq(MysqladminLines), NEW l \in MysqladminLines, NEW n
  PROVE  /\ \A c, i : i \in RowsAt(Append(rd, l), n, c) <=>
              \/ i \in RowsAt(rd, n, c)
              \/ i = Len(rd) + 1 /\ l.t = "row" /\ l.name = n /\ c = ColumnAt(rd, Len(rd))
         /\ \A i : i \in Reported(Append(rd, l), n) <=>
              \/ i \in Reported(rd, n)
              \/ i = Len(rd) + 1 /\ l.t = "row" /\ l.name = n /\ ColumnAt(rd, Len(rd)) > 0
         /\ \A c : \A i \in RowsAt(rd, n, c) : i \in 1..Len(rd) /\ Append(rd, l)[i] = rd[i]
         /\ \A i \in Reported(rd, n) : i \in 1..Len(rd) /\ Append(rd, l)[i] = rd[i]
         /\ \A i \in Reported(rd, n) : \E c \in 1..ColumnAt(rd, Len(rd)) : i \in RowsAt(rd, n, c)
         /\ \A c : c > 0 => RowsAt(rd, n, c) \subseteq Reported(rd, n)
         /\ \A c \in Nat : c > ColumnAt(rd, Len(rd)) => RowsAt(rd, n, c) = {}
         /\ \A c : IsFiniteSet(RowsAt(rd, n, c))
<1> DEFINE r2 == Append(rd, l)
           N == Len(rd)
           col == ColumnAt(rd, N)
<1>1. /\ N \in Nat /\ Len(r2) = N + 1 /\ r2[N + 1] = l /\ \A i \in 1..N : r2[i] = rd[i]
  BY OneMore
<1>2. /\ col \in Nat /\ \A i \in 1..N : ColumnAt(r2, i) = ColumnAt(rd, i) /\ ColumnAt(rd, i) \in 0..col
      /\ l.t = "row" => ColumnAt(r2, N + 1) = col
  BY ColumnAppend
<1>3. /\ \A c, i : i \in RowsAt(rd, n, c) <=> i \in 1..N /\ rd[i].t = "row" /\ rd[i].name = n /\ ColumnAt(rd, i) = c
      /\ \A i : i \in Reported(rd, n) <=> i \in 1..N /\ rd[i].t = "row" /\ rd[i].name = n /\ ColumnAt(rd, i) > 0
  BY DEF RowsAt, Reported
<1>4. /\ \A c, i : i \in RowsAt(r2, n, c) <=>
            i \in 1..N + 1 /\ r2[i].t = "row" /\ r2[i].name = n /\ ColumnAt(r2, i) = c
      /\ \A i : i \in Reported(r2, n) <=>
            i \in 1..N + 1 /\ r2[i].t = "row" /\ r2[i].name = n /\ ColumnAt(r2, i) > 0
  BY <1>1 DEF RowsAt, Reported
<1>5. \A c : IsFiniteSet(RowsAt(rd, n, c))
  <2>1. IsFiniteSet(1..N)
    BY <1>1, FS_Interval
  <2>2. \A c : RowsAt(rd, n, c) \subseteq 1..N
    BY <1>3
  <2> QED
    BY <2>1, <2>2, FS_Subset
<1> HIDE DEF r2, N, col
<1>6. \A i : i \in 1..N + 1 <=> i \in 1..N \/ i = N + 1
  BY <1>1
<1>7. N + 1 \notin 1..N
  BY <1>1
<1>8. \A c, i : i \in RowsAt(r2, n, c) <=>
        i \in RowsAt(rd, n, c) \/ (i = N + 1 /\ l.t = "row" /\ l.name = n /\ c = col)
  BY <1>1, <1>2, <1>3, <1>4, <1>6, <1>7
<1>9. \A i : i \in Reported(r2, n) <=>
        i \in Reported(rd, n) \/ (i = N + 1 /\ l.t = "row" /\ l.name = n /\ col > 0)
  <2>1. ASSUME NEW i \in 1..N PROVE i \in Reported(r2, n) <=> i \in Reported(rd, n)
    BY <1>1, <1>2, <1>3, <1>4, <1>6
  <2>2. N + 1 \in Reported(r2, n) <=> l.t = "row" /\ l.name = n /\ col > 0
    BY <1>1, <1>2, <1>4, <1>6
  <2> QED
    BY <1>3, <1>4, <1>6, <1>7, <2>1, <2>2
<1>10. \A i \in Reported(rd, n) : \E c \in 1..col : i \in RowsAt(rd, n, c)
  <2> SUFFICES ASSUME NEW i \in Reported(rd, n) PROVE \E c \in 1..col : i \in RowsAt(rd, n, c)
    OBVIOUS
  <2>1. ColumnAt(rd, i) \in 1..col /\ i \in RowsAt(rd, n, ColumnAt(rd, i))
    BY <1>2, <1>3
  <2> QED
    BY <2>1
<1>11. \A c \in Nat : c > col => RowsAt(rd, n, c) = {}
  <2> SUFFICES ASSUME NEW c \in Nat, c > col, NEW i \in RowsAt(rd, n, c) PROVE FALSE
    OBVIOUS
  <2>1. ColumnAt(rd, i) = c /\ ColumnAt(rd, i) \in 0..col
    BY <1>2, <1>3
  <2> QED
    BY <1>2, <2>1
<1>12. \A c : c > 0 => RowsAt(rd, n, c) \subseteq Reported(rd, n)
  BY <1>3
<1>13. /\ \A c : \A i \in RowsAt(rd, n, c) : i \in 1..N /\ r2[i] = rd[i]
       /\ \A i \in Reported(rd, n) : i \in 1..N /\ r2[i] = rd[i]
  BY <1>1, <1>3
<1> QED
  BY <1>5, <1>8, <1>9, <1>10, <1>11, <1>12, <1>13 DEF r2, N, col

\* A slot is NaN or has a value; what it adds, with its sign, is its gain less its loss.
Slots == {NaN} \cup {<<v>> : v \in Int}
Empty(s) == s = NaN
Holding(v) == <<v>>
ValueOf(s) == s[1]

LEMMA SlotIs ==
  /\ \A v \in Int : /\ Holding(v) \in Slots /\ ~Empty(Holding(v)) /\ ValueOf(Holding(v)) = v
                    /\ Gain(Holding(v)) \in Nat /\ Loss(Holding(v)) \in Nat
                    /\ Gain(Holding(v)) - Loss(Holding(v)) = v
  /\ \A s \in Slots : Gain(s) \in Nat /\ Loss(s) \in Nat
  /\ NaN \in Slots /\ Empty(NaN) /\ Gain(NaN) = 0 /\ Loss(NaN) = 0
<1>1. ASSUME NEW v \in Int
      PROVE  /\ <<v>> # NaN /\ <<v>>[1] = v
             /\ Gain(<<v>>) \in Nat /\ Loss(<<v>>) \in Nat /\ Gain(<<v>>) - Loss(<<v>>) = v
  BY DEF NaN, Gain, Loss
<1>2. Gain(NaN) = 0 /\ Loss(NaN) = 0
  BY DEF Gain, Loss
<1> QED
  BY <1>1, <1>2 DEF Slots, Empty, Holding, ValueOf

\* Values of 0 do not count in a sum.
LEMMA TotalPlus ==
  ASSUME NEW f, IsFiniteSet(DOMAIN f), \A x \in DOMAIN f : f[x] \in Nat,
         NEW g, IsFiniteSet(DOMAIN g), \A x \in DOMAIN g : g[x] \in Nat,
         DOMAIN f \subseteq DOMAIN g, \A x \in DOMAIN f : g[x] = f[x],
         NEW k, k \in DOMAIN g => k \notin DOMAIN f,
         \A x \in DOMAIN g : x \in DOMAIN f \/ x = k \/ g[x] = 0
  PROVE  Total(g) = Total(f) + (IF k \in DOMAIN g THEN g[k] ELSE 0) /\ Total(f) \in Nat
<1>1. Total(f) = Cardinality(AllUnits(f)) /\ Total(g) = Cardinality(AllUnits(g)) /\ Total(f) \in Nat
  BY UnitsFinite
<1>2. ASSUME NEW h, DOMAIN h \subseteq DOMAIN g, DOMAIN f \subseteq DOMAIN h, \A x \in DOMAIN h : h[x] = g[x],
             \A x \in DOMAIN h : x \in DOMAIN f \/ h[x] = 0
      PROVE  AllUnits(h) = AllUnits(f)
  <2>1. \A x \in DOMAIN h : h[x] = 0 => Units(h, x) = {}
    BY DEF Units
  <2>2. \A x \in DOMAIN f : Units(h, x) = Units(f, x)
    BY <1>2 DEF Units
  <2>3. ASSUME NEW p PROVE p \in AllUnits(h) <=> p \in AllUnits(f)
    BY <1>2, <2>1, <2>2 DEF AllUnits
  <2> QED
    BY <2>3
<1>3. CASE k \in DOMAIN g
  <2> DEFINE h == [x \in DOMAIN g \ {k} |-> g[x]]
  <2>1. DOMAIN h = DOMAIN g \ {k} /\ \A x \in DOMAIN h : h[x] = g[x]
    OBVIOUS
  <2> HIDE DEF h
  <2>2. Total(g) = Total(h) + g[k]
    BY <1>3, <2>1, TotalWithout
  <2>3. AllUnits(h) = AllUnits(f)
    BY <1>2, <1>3, <2>1
  <2>4. Total(h) = Cardinality(AllUnits(h))
    BY <2>1, FS_RemoveElement, UnitsFinite
  <2> QED
    BY <1>1, <1>3, <2>2, <2>3, <2>4
<1>4. CASE k \notin DOMAIN g
  BY <1>1, <1>2, <1>4
<1> QED
  BY <1>3, <1>4

\* A sequence of slots.
AreSlots(s) == s \in Seq(Slots)

\* One slot more, after any number without a value, adds its value.
LEMMA SlotAdds ==
  ASSUME NEW s, AreSlots(s), NEW t, AreSlots(t), Len(s) <= Len(t),
         \A c \in 1..Len(s) : t[c] = s[c],
         NEW k \in Nat, k > Len(s), \A c \in 1..Len(t) : c <= Len(s) \/ c = k \/ t[c] = NaN
  PROVE  /\ k > Len(t) => SlotSum(t) = SlotSum(s)
         /\ \A v \in Int : k <= Len(t) /\ t[k] = Holding(v) => SlotSum(t) = SlotSum(s) + v
         /\ SlotSum(s) \in Int
<1> DEFINE gs == [c \in DOMAIN s |-> Gain(s[c])]
           gt == [c \in DOMAIN t |-> Gain(t[c])]
           ls == [c \in DOMAIN s |-> Loss(s[c])]
           lt == [c \in DOMAIN t |-> Loss(t[c])]
<1>1. SlotSum(s) = Total(gs) - Total(ls) /\ SlotSum(t) = Total(gt) - Total(lt)
  BY DEF SlotSum
<1>2. DOMAIN s = 1..Len(s) /\ DOMAIN t = 1..Len(t) /\ Len(s) \in Nat /\ Len(t) \in Nat
  BY DEF AreSlots
<1>3. IsFiniteSet(DOMAIN s) /\ IsFiniteSet(DOMAIN t)
  BY <1>2, FS_Interval
<1>4. /\ \A c \in DOMAIN s : Gain(s[c]) \in Nat /\ Loss(s[c]) \in Nat
      /\ \A c \in DOMAIN t : Gain(t[c]) \in Nat /\ Loss(t[c]) \in Nat
  <2>1. (\A c \in DOMAIN s : s[c] \in Slots) /\ \A c \in DOMAIN t : t[c] \in Slots
    BY DEF AreSlots
  <2> QED
    BY <2>1, SlotIs
<1>5. \A c \in DOMAIN t : c \in DOMAIN s \/ c = k \/ (Gain(t[c]) = 0 /\ Loss(t[c]) = 0)
  <2>1. \A c \in DOMAIN t : c \in DOMAIN s \/ c = k \/ t[c] = NaN
    BY <1>2
  <2> QED
    BY <2>1, SlotIs
<1>6. DOMAIN s \subseteq DOMAIN t /\ k \notin DOMAIN s /\ \A c \in DOMAIN s : t[c] = s[c]
  BY <1>2
<1>7. Total(gt) = Total(gs) + (IF k \in DOMAIN t THEN gt[k] ELSE 0) /\ Total(gs) \in Nat
  <2>1. DOMAIN gs = DOMAIN s /\ DOMAIN gt = DOMAIN t /\ (\A c \in DOMAIN s : gs[c] = Gain(s[c]))
        /\ \A c \in DOMAIN t : gt[c] = Gain(t[c])
    OBVIOUS
  <2> HIDE DEF gs, gt
  <2> QED
    BY <1>3, <1>4, <1>5, <1>6, <2>1, TotalPlus
<1>8. Total(lt) = Total(ls) + (IF k \in DOMAIN t THEN lt[k] ELSE 0) /\ Total(ls) \in Nat
  <2>1. DOMAIN ls = DOMAIN s /\ DOMAIN lt = DOMAIN t /\ (\A c \in DOMAIN s : ls[c] = Loss(s[c]))
        /\ \A c \in DOMAIN t : lt[c] = Loss(t[c])
    OBVIOUS
  <2> HIDE DEF ls, lt
  <2> QED
    BY <1>3, <1>4, <1>5, <1>6, <2>1, TotalPlus
<1>9. \A c \in DOMAIN t : gt[c] = Gain(t[c]) /\ lt[c] = Loss(t[c])
  OBVIOUS
<1> HIDE DEF gs, gt, ls, lt
<1>10. k > Len(t) => SlotSum(t) = SlotSum(s)
  BY <1>1, <1>2, <1>7, <1>8
<1>11. ASSUME NEW v \in Int, k <= Len(t), t[k] = Holding(v) PROVE SlotSum(t) = SlotSum(s) + v
  <2>1. k \in DOMAIN t
    BY <1>2, <1>11
  <2>2. gt[k] \in Nat /\ lt[k] \in Nat /\ gt[k] - lt[k] = v
    BY <1>9, <1>11, <2>1, SlotIs
  <2> QED
    BY <1>1, <1>7, <1>8, <2>1, <2>2
<1> QED
  BY <1>1, <1>7, <1>8, <1>10, <1>11

\* What Padded makes of the slots of earlier columns.
LEMMA PaddedIs ==
  ASSUME NEW s, AreSlots(s), NEW n \in Nat
  PROVE  /\ AreSlots(Padded(s, n)) /\ Len(Padded(s, n)) = (IF Len(s) <= n THEN n ELSE Len(s))
         /\ \A c \in 1..Len(Padded(s, n)) : Padded(s, n)[c] = IF c <= Len(s) THEN s[c] ELSE NaN
<1> DEFINE p == [i \in 1..n - Len(s) |-> NaN]
           m == IF Len(s) <= n THEN n - Len(s) ELSE 0
<1>1. s \in Seq(Slots) /\ Len(s) \in Nat /\ NaN \in Slots
  BY SlotIs DEF AreSlots
<1>2. m \in Nat /\ 1..n - Len(s) = 1..m
  BY <1>1
<1>3. p = [i \in 1..m |-> NaN]
  BY <1>2
<1> HIDE DEF m, p
<1>4. p \in Seq(Slots) /\ Len(p) = m /\ \A i \in 1..m : p[i] = NaN
  BY <1>1, <1>2, <1>3
<1>5. /\ s \o p \in Seq(Slots) /\ Len(s \o p) = Len(s) + m
      /\ \A c \in 1..Len(s) + m : (s \o p)[c] = IF c <= Len(s) THEN s[c] ELSE p[c - Len(s)]
  BY <1>1, <1>4, ConcatProperties
<1>6. Padded(s, n) = s \o p
  BY DEF Padded, p
<1>7. Len(s) + m = IF Len(s) <= n THEN n ELSE Len(s)
  BY <1>1 DEF m
<1>8. \A c \in 1..Len(s) + m : (s \o p)[c] = IF c <= Len(s) THEN s[c] ELSE NaN
  <2> SUFFICES ASSUME NEW c \in 1..Len(s) + m, ~ c <= Len(s) PROVE p[c - Len(s)] = NaN
    BY <1>5
  <2>1. c - Len(s) \in 1..m
    BY <1>1, <1>2
  <2> QED
    BY <1>4, <2>1
<1> QED
  BY <1>5, <1>6, <1>7, <1>8 DEF AreSlots

\* The slots t hold v in the column col, and what s has in those before.
FilledTo(s, t, col, v) ==
  /\ AreSlots(t) /\ Len(t) = col /\ t[col] = Holding(v)
  /\ \A c \in 1..col - 1 : t[c] = IF c <= Len(s) THEN s[c] ELSE NaN

\* The slots of the first n columns, and one of the next.
PutSlot(s, n, v) == Append(SubSeq(Padded(s, n), 1, n), Holding(v))

\* A row's slot comes after those of the earlier columns.
LEMMA SlotPut ==
  ASSUME NEW s, AreSlots(s), NEW n \in Nat, NEW v \in Int,
         NEW t, t = PutSlot(s, n, v)
  PROVE  \A col : col = n + 1 => FilledTo(s, t, col, v)
<1> DEFINE p == Padded(s, n)
           q == SubSeq(p, 1, n)
<1>1. /\ p \in Seq(Slots) /\ Len(p) \in Nat /\ n <= Len(p)
      /\ \A c \in 1..Len(p) : p[c] = IF c <= Len(s) THEN s[c] ELSE NaN
  BY PaddedIs DEF AreSlots
<1> HIDE DEF p
<1>2. q \in Seq(Slots) /\ Len(q) = n /\ \A c \in 1..n : q[c] = p[c]
  BY <1>1
<1> HIDE DEF q
<1>3. Holding(v) \in Slots
  BY SlotIs
<1> PICK w : w = Holding(v)
  OBVIOUS
<1>4. t = Append(q, w)
  BY DEF p, q, PutSlot
<1>5. t \in Seq(Slots) /\ Len(t) = n + 1 /\ t[n + 1] = w /\ \A c \in 1..n : t[c] = q[c]
  <2>1. w \in Slots
    BY <1>3
  <2> QED
    <3>1. q \in Seq(Slots) /\ Len(q) = n
      BY <1>2
    <3> HIDE DEF Slots
    <3>2. /\ Append(q, w) \in Seq(Slots) /\ Len(Append(q, w)) = Len(q) + 1
          /\ Append(q, w)[Len(q) + 1] = w /\ \A c \in 1..Len(q) : Append(q, w)[c] = q[c]
      BY <2>1, <3>1, AppendProperties
    <3> QED
      BY <1>4, <3>1, <3>2
<1>6. \A c \in 1..n : t[c] = IF c <= Len(s) THEN s[c] ELSE NaN
  BY <1>1, <1>2, <1>5
<1>7. n + 1 - 1 = n
  OBVIOUS
<1> QED
  BY <1>5, <1>6, <1>7 DEF AreSlots, FilledTo

\* The slots s of variable n and the value p to take differences to, in a file of which rd is
\* read: a slot has a value in the columns that report n; a counter's last value is p, and
\* the sum of its slots where no column reports it twice; a gauge's slot is the column's last.
Once(rd, n, col) == \A c \in 1..col : Cardinality(RowsAt(rd, n, c)) <= 1
LastValue(rd, n, p) ==
  \/ Reported(rd, n) = {} /\ p = 0
  \/ \E i \in Reported(rd, n) : p = rd[i].v /\ \A j \in Reported(rd, n) : j <= i
LastSlot(rd, n, c, x) == \E i \in RowsAt(rd, n, c) : x = rd[i].v /\ \A j \in RowsAt(rd, n, c) : j <= i

NameIs(rd, n, s, p, col) ==
  /\ AreSlots(s) /\ Len(s) <= col /\ (Len(s) > 0 => ~Empty(s[Len(s)]))
  /\ \A c \in 1..col : RowsAt(rd, n, c) # {} <=> c <= Len(s) /\ ~Empty(s[c])
  /\ classifyAsCounter(n) => p \in Int /\ LastValue(rd, n, p) /\ (Once(rd, n, col) => SlotSum(s) = p)
  /\ ~classifyAsCounter(n) => \A c \in 1..Len(s) : ~Empty(s[c]) => LastSlot(rd, n, c, ValueOf(s[c]))

\* Any line but a row of the variable changes nothing of it.
LEMMA NameStays ==
  ASSUME NEW rd \in Seq(MysqladminLines), NEW l \in MysqladminLines, NEW n, NEW s, NEW p,
         NEW col, col = ColumnAt(rd, Len(rd)), NameIs(rd, n, s, p, col),
         NEW col2, col2 = ColumnAt(Append(rd, l), Len(rd) + 1),
         ~(l.t = "row" /\ l.name = n /\ col > 0)
  PROVE  NameIs(Append(rd, l), n, s, p, col2)
<1> DEFINE r2 == Append(rd, l)
           N == Len(rd)
<1>1. col \in Nat /\ (col2 = col \/ col2 = col + 1)
  BY ColumnAppend
<1>2. /\ \A c, i : i \in RowsAt(r2, n, c) <=> i \in RowsAt(rd, n, c) \/ (i = N + 1 /\ l.t = "row" /\ l.name = n /\ c = col)
      /\ \A i : i \in Reported(r2, n) <=> i \in Reported(rd, n) \/ (i = N + 1 /\ l.t = "row" /\ l.name = n /\ col > 0)
      /\ \A c : \A i \in RowsAt(rd, n, c) : i \in 1..N /\ r2[i] = rd[i]
      /\ \A i \in Reported(rd, n) : i \in 1..N /\ r2[i] = rd[i]
      /\ \A c \in Nat : c > col => RowsAt(rd, n, c) = {}
  BY ReportAppend
<1> HIDE DEF r2, N
<1>3. \A c \in Nat : c > 0 => RowsAt(r2, n, c) = RowsAt(rd, n, c)
  BY <1>1, <1>2
<1>4. Reported(r2, n) = Reported(rd, n)
  BY <1>2
<1>5. /\ AreSlots(s) /\ Len(s) <= col /\ (Len(s) > 0 => ~Empty(s[Len(s)]))
      /\ \A c \in 1..col : RowsAt(rd, n, c) # {} <=> c <= Len(s) /\ ~Empty(s[c])
  BY DEF NameIs
<1>6. Len(s) \in Nat
  BY <1>5 DEF AreSlots
<1>7. \A c \in 1..col2 : RowsAt(r2, n, c) # {} <=> c <= Len(s) /\ ~Empty(s[c])
  <2> SUFFICES ASSUME NEW c \in 1..col2 PROVE RowsAt(r2, n, c) # {} <=> c <= Len(s) /\ ~Empty(s[c])
    OBVIOUS
  <2>1. c \in Nat /\ c > 0 /\ (c \in 1..col \/ c > col)
    BY <1>1
  <2>2. c > col => ~ c <= Len(s)
    BY <1>1, <1>5, <1>6, <2>1
  <2> QED
    BY <1>2, <1>3, <1>5, <2>1, <2>2
<1>8. LastValue(rd, n, p) => LastValue(r2, n, p)
  BY <1>2, <1>4 DEF LastValue
<1>9. Once(r2, n, col2) => Once(rd, n, col)
  <2> SUFFICES ASSUME Once(r2, n, col2), NEW c \in 1..col PROVE Cardinality(RowsAt(rd, n, c)) <= 1
    BY DEF Once
  <2>1. c \in 1..col2 /\ RowsAt(r2, n, c) = RowsAt(rd, n, c)
    BY <1>1, <1>3
  <2> QED
    BY <2>1 DEF Once
<1>10. \A c \in 1..Len(s) : \A x : LastSlot(rd, n, c, x) => LastSlot(r2, n, c, x)
  <2> SUFFICES ASSUME NEW c \in 1..Len(s), NEW x, LastSlot(rd, n, c, x) PROVE LastSlot(r2, n, c, x)
    OBVIOUS
  <2>1. RowsAt(r2, n, c) = RowsAt(rd, n, c)
    BY <1>3, <1>6
  <2> QED
    BY <1>2, <2>1 DEF LastSlot
<1>11. Len(s) <= col2
  BY <1>1, <1>5, <1>6
<1> QED
  BY <1>5, <1>7, <1>8, <1>9, <1>10, <1>11 DEF NameIs, r2

\* A row is of a variable and has a value.
LEMMA RowIs ==
  ASSUME NEW l \in MysqladminLines, l.t = "row"
  PROVE  l.name \in StatusNames /\ l.v \in Int
<1>1. l \in [t : {"row"}, name : StatusNames, v : Tally]
  BY DEF MysqladminLines, Of
<1> QED
  BY <1>1, MysqlAssumption

\* What a row puts into the slot.
Difference(n, col, p, v) == IF classifyAsCounter(n) /\ col > 1 THEN v - p ELSE v

\* A row of the variable fills the slot of its column.
LEMMA NameTakes ==
  ASSUME NEW rd \in Seq(MysqladminLines), NEW l \in MysqladminLines, NEW n, NEW s, NEW p,
         NEW col, col = ColumnAt(rd, Len(rd)), NameIs(rd, n, s, p, col),
         l.t = "row" /\ l.name = n /\ col > 0,
         NEW out, out = Difference(n, col, p, l.v),
         NEW t, FilledTo(s, t, col, out),
         NEW p2, classifyAsCounter(n) => p2 = l.v
  PROVE  NameIs(Append(rd, l), n, t, p2, col) /\ Reported(Append(rd, l), n) # {}
<1> DEFINE r2 == Append(rd, l)
           N == Len(rd)
<1>1. N \in Nat /\ r2[N + 1] = l
  BY OneMore
<1>2. /\ \A c, i : i \in RowsAt(r2, n, c) <=> i \in RowsAt(rd, n, c) \/ (i = N + 1 /\ c = col)
      /\ \A i : i \in Reported(r2, n) <=> i \in Reported(rd, n) \/ i = N + 1
      /\ \A c : \A i \in RowsAt(rd, n, c) : i \in 1..N /\ r2[i] = rd[i]
      /\ \A i \in Reported(rd, n) : i \in 1..N /\ r2[i] = rd[i]
      /\ \A i \in Reported(rd, n) : \E c \in 1..col : i \in RowsAt(rd, n, c)
      /\ \A c : IsFiniteSet(RowsAt(rd, n, c))
  BY ReportAppend
<1>2a. \A c : c # col => RowsAt(r2, n, c) = RowsAt(rd, n, c)
  <2> SUFFICES ASSUME NEW c, c # col PROVE RowsAt(r2, n, c) = RowsAt(rd, n, c)
    OBVIOUS
  <2>1. \A i : i \in RowsAt(r2, n, c) <=> i \in RowsAt(rd, n, c)
    BY <1>2
  <2>2. RowsAt(r2, n, c) \subseteq RowsAt(rd, n, c) /\ RowsAt(rd, n, c) \subseteq RowsAt(r2, n, c)
    BY <2>1
  <2> QED
    BY <2>2
<1>3. col \in Nat /\ col - 1 \in Nat
  <2>1. col \in Nat
    BY ColumnAppend
  <2> QED
    BY <2>1
<1> HIDE DEF r2, N
<1>4. /\ AreSlots(s) /\ Len(s) \in Nat /\ Len(s) <= col /\ (Len(s) > 0 => ~Empty(s[Len(s)]))
      /\ \A c \in 1..col : RowsAt(rd, n, c) # {} <=> c <= Len(s) /\ ~Empty(s[c])
  BY DEF NameIs, AreSlots
<1>5. classifyAsCounter(n) => p \in Int /\ LastValue(rd, n, p) /\ (Once(rd, n, col) => SlotSum(s) = p)
  BY DEF NameIs
<1>6. ~classifyAsCounter(n) => \A c \in 1..Len(s) : ~Empty(s[c]) => LastSlot(rd, n, c, ValueOf(s[c]))
  BY DEF NameIs
<1>7. l.v \in Int
  BY RowIs
<1>8. out \in Int
  BY <1>5, <1>7 DEF Difference
<1>9. /\ AreSlots(t) /\ Len(t) = col /\ t[col] = Holding(out)
      /\ \A c \in 1..col - 1 : t[c] = IF c <= Len(s) THEN s[c] ELSE NaN
  BY DEF FilledTo
<1>10. ~Empty(t[col]) /\ ValueOf(t[col]) = out /\ Empty(NaN)
  BY <1>8, <1>9, SlotIs
<1>11. \A c \in 1..col : c = col \/ c \in 1..col - 1
  BY <1>3
<1>12. \A c \in 1..col : RowsAt(r2, n, c) # {} <=> c <= Len(t) /\ ~Empty(t[c])
  <2> SUFFICES ASSUME NEW c \in 1..col PROVE RowsAt(r2, n, c) # {} <=> c <= Len(t) /\ ~Empty(t[c])
    OBVIOUS
  <2>1. CASE c = col
    BY <1>2, <1>3, <1>9, <1>10, <2>1
  <2>2. CASE c \in 1..col - 1
    <3>1. RowsAt(r2, n, c) = RowsAt(rd, n, c) /\ c <= Len(t)
      BY <1>2a, <1>3, <1>9, <2>2
    <3>2. ~Empty(t[c]) <=> c <= Len(s) /\ ~Empty(s[c])
      BY <1>9, <1>10, <2>2
    <3> QED
      BY <1>4, <3>1, <3>2
  <2> QED
    BY <1>11, <2>1, <2>2
<1>13. \A i \in Reported(rd, n) : i <= N + 1
  BY <1>1, <1>2
<1>14. N + 1 \in Reported(r2, n) /\ r2[N + 1].v = l.v /\ \A j \in Reported(r2, n) : j <= N + 1
  BY <1>1, <1>2, <1>13
<1>15. LastValue(r2, n, l.v)
  BY <1>14 DEF LastValue
<1>16. ASSUME classifyAsCounter(n), Once(r2, n, col) PROVE SlotSum(t) = l.v
  <2>1. RowsAt(rd, n, col) = {}
    <3> SUFFICES ASSUME NEW i \in RowsAt(rd, n, col) PROVE FALSE
      OBVIOUS
    <3> PICK S : S = RowsAt(rd, n, col)
      OBVIOUS
    <3>1. RowsAt(r2, n, col) = S \cup {N + 1} /\ N + 1 \notin S /\ IsFiniteSet(S) /\ i \in S
      BY <1>1, <1>2
    <3>2. Cardinality(S \cup {N + 1}) = Cardinality(S) + 1
      BY <3>1, FS_AddElement
    <3>3. Cardinality(S) \in Nat /\ Cardinality(S) # 0
      BY <3>1, FS_CardinalityType, FS_EmptySet
    <3>4. Cardinality(S \cup {N + 1}) <= 1
      <4>1. col \in 1..col
        BY <1>3
      <4> QED
        BY <1>16, <3>1, <4>1 DEF Once
    <3> QED
      BY <3>2, <3>3, <3>4
  <2>2. Len(s) <= col - 1
    BY <1>3, <1>4, <2>1
  <2>3. Once(rd, n, col)
    <3> SUFFICES ASSUME NEW c \in 1..col PROVE Cardinality(RowsAt(rd, n, c)) <= 1
      BY DEF Once
    <3>1. CASE c = col
      BY <2>1, <3>1, FS_EmptySet
    <3>2. CASE c # col
      BY <1>2a, <1>16, <3>2 DEF Once
    <3> QED
      BY <3>1, <3>2
  <2>4. SlotSum(s) = p /\ p \in Int
    BY <1>5, <1>16, <2>3
  <2>5. SlotSum(t) = SlotSum(s) + out
    <3>1. \A c \in 1..Len(s) : t[c] = s[c]
      BY <1>3, <1>4, <1>9, <2>2
    <3>2. \A c \in 1..Len(t) : c <= Len(s) \/ c = col \/ t[c] = NaN
      BY <1>9, <1>11
    <3>3. Len(s) <= Len(t) /\ col > Len(s) /\ col <= Len(t)
      BY <1>3, <1>4, <1>9, <2>2
    <3> QED
      BY <1>3, <1>4, <1>8, <1>9, <3>1, <3>2, <3>3, SlotAdds
  <2>6. CASE col > 1
    <3>1. out = l.v - p
      BY <1>16, <2>6 DEF Difference
    <3> QED
      BY <1>7, <2>4, <2>5, <3>1
  <2>7. CASE col = 1
    <3>1. out = l.v
      BY <2>7 DEF Difference
    <3>2. Reported(rd, n) = {}
      BY <1>2, <2>1, <2>7
    <3>3. p = 0
      BY <1>5, <1>16, <3>2 DEF LastValue
    <3> QED
      BY <1>7, <2>4, <2>5, <3>1, <3>3
  <2> QED
    BY <1>3, <2>6, <2>7
<1>17. ASSUME ~classifyAsCounter(n), NEW c \in 1..Len(t), ~Empty(t[c]) PROVE LastSlot(r2, n, c, ValueOf(t[c]))
  <2>1. CASE c = col
    BY <1>1, <1>2, <1>10, <1>17, <2>1 DEF Difference, LastSlot
  <2>2. CASE c \in 1..col - 1
    <3>1. c <= Len(s) /\ t[c] = s[c]
      BY <1>9, <1>10, <1>17, <2>2
    <3>2. c \in 1..Len(s)
      BY <1>3, <1>4, <2>2, <3>1
    <3>3. LastSlot(rd, n, c, ValueOf(t[c]))
      BY <1>6, <1>17, <3>1, <3>2
    <3>4. RowsAt(r2, n, c) = RowsAt(rd, n, c)
      <4>1. c # col
        BY <1>3, <2>2
      <4> QED
        BY <1>2a, <4>1
    <3> QED
      BY <1>2, <3>3, <3>4 DEF LastSlot
  <2> QED
    BY <1>9, <1>11, <2>1, <2>2
<1>18. NameIs(r2, n, t, p2, col)
  <2>1. classifyAsCounter(n) => p2 \in Int /\ LastValue(r2, n, p2) /\ (Once(r2, n, col) => SlotSum(t) = p2)
    BY <1>7, <1>15, <1>16
  <2>2. Len(t) <= col /\ ~Empty(t[Len(t)])
    BY <1>3, <1>9, <1>10
  <2> QED
    BY <1>9, <1>12, <1>17, <2>1, <2>2 DEF NameIs
<1> QED
  BY <1>14, <1>18 DEF r2

\* What the parser's locals are, whatever it has read.
MysqlLocals == {"col", "previous", "slots"}
IsMysql(lo) == lo = [f \in MysqlLocals |-> lo[f]]
SlotsIn(lo, n) == IF n \in DOMAIN lo.slots THEN lo.slots[n] ELSE <<>>
PreviousIn(lo, n) == IF n \in DOMAIN lo.previous THEN lo.previous[n] ELSE 0
MysqlIs(rd, lo) ==
  /\ IsMysql(lo) /\ lo.col = ColumnAt(rd, Len(rd))
  /\ \A n : NameIs(rd, n, SlotsIn(lo, n), PreviousIn(lo, n), lo.col)
  /\ \A n \in DOMAIN lo.slots : Reported(rd, n) # {}

\* The payload, when the parser has returned one.
Given(d, lo) ==
  /\ d.names = DOMAIN lo.slots /\ d.count = lo.col
  /\ \A n \in DOMAIN lo.slots : d.deltas[n] = Padded(lo.slots[n], lo.col)
  /\ d.counters = {n \in DOMAIN lo.slots : classifyAsCounter(n)}

MysqlInv ==
  kind = "mysqladmin" =>
    /\ read \in Seq(MysqladminLines) /\ MysqlIs(read, loc)
    /\ result.state = "data" => Given(result.data, loc)

\* The slots and the previous values after a row.
SlotOut(lo, n, v) == Difference(n, lo.col, PreviousIn(lo, n), v)
SlotsOut(lo, n, v) == PutSlot(SlotsIn(lo, n), lo.col - 1, SlotOut(lo, n, v))

LEMMA NewValueIs ==
  ASSUME IsMysql(loc), NEW n, NEW v, NEW s, s = NewValue(n, v)
  PROVE  /\ IsMysql(s) /\ s.col = loc.col /\ DOMAIN s.slots = DOMAIN loc.slots \cup {n}
         /\ \A m : m # n => SlotsIn(s, m) = SlotsIn(loc, m) /\ PreviousIn(s, m) = PreviousIn(loc, m)
         /\ SlotsIn(s, n) = SlotsOut(loc, n, v)
         /\ classifyAsCounter(n) => PreviousIn(s, n) = v
<1> DEFINE t == SlotsOut(loc, n, v)
           slots == With(loc.slots, n, t)
           previous == IF classifyAsCounter(n) THEN With(loc.previous, n, v) ELSE loc.previous
<1>1. s = [loc EXCEPT !.slots = slots, !.previous = previous]
  BY DEF NewValue, SlotsOut, SlotOut, PutSlot, Difference, Holding, SlotsIn, SlotsOf, PreviousIn, PreviousOf, NewPrevious
<1>2. /\ DOMAIN slots = DOMAIN loc.slots \cup {n}
      /\ \A m \in DOMAIN slots : slots[m] = IF m = n THEN t ELSE loc.slots[m]
  <2> HIDE DEF t
  <2> QED
    BY DEF With
<1>3. classifyAsCounter(n) =>
        /\ DOMAIN previous = DOMAIN loc.previous \cup {n}
        /\ \A m \in DOMAIN previous : previous[m] = IF m = n THEN v ELSE loc.previous[m]
  <2> SUFFICES ASSUME classifyAsCounter(n)
               PROVE  /\ DOMAIN previous = DOMAIN loc.previous \cup {n}
                      /\ \A m \in DOMAIN previous : previous[m] = IF m = n THEN v ELSE loc.previous[m]
    OBVIOUS
  <2>1. previous = With(loc.previous, n, v)
    OBVIOUS
  <2> HIDE DEF previous
  <2> QED
    BY <2>1 DEF With
<1>4. ~classifyAsCounter(n) => previous = loc.previous
  OBVIOUS
<1> HIDE DEF t, slots, previous
<1>5. IsMysql(s) /\ s.col = loc.col /\ s.slots = slots /\ s.previous = previous
  BY <1>1 DEF IsMysql, MysqlLocals
<1>6. \A m : m # n => SlotsIn(s, m) = SlotsIn(loc, m)
  BY <1>2, <1>5 DEF SlotsIn
<1>7. \A m : m # n => PreviousIn(s, m) = PreviousIn(loc, m)
  BY <1>3, <1>4, <1>5 DEF PreviousIn
<1>8. SlotsIn(s, n) = t
  BY <1>2, <1>5 DEF SlotsIn
<1>9. classifyAsCounter(n) => PreviousIn(s, n) = v
  BY <1>3, <1>5 DEF PreviousIn
<1> QED
  BY <1>2, <1>5, <1>6, <1>7, <1>8, <1>9 DEF t

\* A row of n gives n its slot and leaves the other variables alone.
LEMMA MysqlRow ==
  ASSUME read \in Seq(MysqladminLines), MysqlIs(read, loc), NEW l \in MysqladminLines, l.t = "row", loc.col # 0,
         NEW s, s = NewValue(l.name, l.v)
  PROVE  MysqlIs(Append(read, l), s)
<1> DEFINE n == l.name
           r2 == Append(read, l)
           t == SlotsIn(s, n)
           out == SlotOut(loc, n, l.v)
<1>1. /\ IsMysql(loc) /\ loc.col = ColumnAt(read, Len(read))
      /\ (\A m : NameIs(read, m, SlotsIn(loc, m), PreviousIn(loc, m), loc.col))
      /\ \A m \in DOMAIN loc.slots : Reported(read, m) # {}
  BY DEF MysqlIs
<1>2. /\ IsMysql(s) /\ s.col = loc.col /\ DOMAIN s.slots = DOMAIN loc.slots \cup {n}
      /\ \A m : m # n => SlotsIn(s, m) = SlotsIn(loc, m) /\ PreviousIn(s, m) = PreviousIn(loc, m)
      /\ t = SlotsOut(loc, n, l.v)
      /\ classifyAsCounter(n) => PreviousIn(s, n) = l.v
  BY <1>1, NewValueIs
<1>3. loc.col \in Nat /\ ColumnAt(r2, Len(read) + 1) = loc.col /\ Len(r2) = Len(read) + 1
  BY <1>1, ColumnAppend, OneMore
<1>4. l.v \in Int
  BY RowIs
<1>5. out = Difference(n, loc.col, PreviousIn(loc, n), l.v)
  BY DEF SlotOut
<1>6. AreSlots(SlotsIn(loc, n)) /\ out \in Int
  BY <1>1, <1>4, <1>5 DEF NameIs, Difference
<1>7. t = PutSlot(SlotsIn(loc, n), loc.col - 1, out)
  BY <1>2 DEF SlotsOut
<1> HIDE DEF n, r2, t, out
<1>8. FilledTo(SlotsIn(loc, n), t, loc.col, out)
  <2> PICK k \in Nat : k = loc.col - 1
    BY <1>3
  <2>1. t = PutSlot(SlotsIn(loc, n), k, out)
    BY <1>7
  <2>2. loc.col = k + 1
    BY <1>3
  <2> QED
    BY <1>6, <2>1, <2>2, SlotPut
<1>9. NameIs(r2, n, t, PreviousIn(s, n), loc.col) /\ Reported(r2, n) # {}
  <2>1. NameIs(read, n, SlotsIn(loc, n), PreviousIn(loc, n), loc.col) /\ loc.col = ColumnAt(read, Len(read))
    BY <1>1
  <2>2. l.t = "row" /\ l.name = n /\ loc.col > 0
    BY <1>3 DEF n
  <2>3. classifyAsCounter(n) => PreviousIn(s, n) = l.v
    BY <1>2
  <2> QED
    BY <1>5, <1>8, <2>1, <2>2, <2>3, NameTakes DEF r2
<1>10. ASSUME NEW m, m # n PROVE NameIs(r2, m, SlotsIn(s, m), PreviousIn(s, m), loc.col)
  BY <1>1, <1>2, <1>3, <1>10, NameStays DEF n, r2
<1>11. ASSUME NEW m \in DOMAIN loc.slots PROVE Reported(r2, m) # {}
  BY <1>1, ReportAppend DEF r2
<1>12. \A m : NameIs(r2, m, SlotsIn(s, m), PreviousIn(s, m), s.col)
  BY <1>2, <1>9, <1>10 DEF t
<1>13. \A m \in DOMAIN s.slots : Reported(r2, m) # {}
  BY <1>2, <1>9, <1>11
<1>14. s.col = ColumnAt(r2, Len(r2))
  BY <1>2, <1>3
<1> QED
  BY <1>2, <1>12, <1>13, <1>14 DEF MysqlIs, r2

\* The other lines, at most a column more.
LEMMA MysqlLine ==
  ASSUME read \in Seq(MysqladminLines), MysqlIs(read, loc), NEW l \in MysqladminLines,
         l.t = "row" => loc.col = 0,
         NEW s, s = IF l.t = "header" THEN [loc EXCEPT !.col = @ + 1] ELSE loc
  PROVE  MysqlIs(Append(read, l), s)
<1> DEFINE r2 == Append(read, l)
<1>1. /\ IsMysql(loc) /\ loc.col = ColumnAt(read, Len(read))
      /\ (\A m : NameIs(read, m, SlotsIn(loc, m), PreviousIn(loc, m), loc.col))
      /\ \A m \in DOMAIN loc.slots : Reported(read, m) # {}
  BY DEF MysqlIs
<1>2. loc.col \in Nat /\ ColumnAt(r2, Len(read) + 1) = loc.col + (IF l.t = "header" THEN 1 ELSE 0)
      /\ Len(r2) = Len(read) + 1
  BY <1>1, ColumnAppend, OneMore
<1>3. /\ IsMysql(s) /\ s.slots = loc.slots /\ s.previous = loc.previous
      /\ s.col = loc.col + (IF l.t = "header" THEN 1 ELSE 0)
  BY <1>1, <1>2 DEF IsMysql, MysqlLocals
<1> HIDE DEF r2
<1>4. \A m : SlotsIn(s, m) = SlotsIn(loc, m) /\ PreviousIn(s, m) = PreviousIn(loc, m)
  BY <1>3 DEF SlotsIn, PreviousIn
<1>5. ASSUME NEW m PROVE NameIs(r2, m, SlotsIn(s, m), PreviousIn(s, m), s.col)
  <2>1. NameIs(read, m, SlotsIn(loc, m), PreviousIn(loc, m), loc.col) /\ loc.col = ColumnAt(read, Len(read))
    BY <1>1
  <2>2. ~(l.t = "row" /\ l.name = m /\ loc.col > 0)
    BY <1>2
  <2>3. s.col = ColumnAt(r2, Len(read) + 1)
    BY <1>2, <1>3
  <2>4. NameIs(r2, m, SlotsIn(loc, m), PreviousIn(loc, m), s.col)
    BY <2>1, <2>2, <2>3, NameStays DEF r2
  <2> QED
    BY <1>4, <2>4
<1>6. ASSUME NEW m \in DOMAIN s.slots PROVE Reported(r2, m) # {}
  BY <1>1, <1>3, ReportAppend DEF r2
<1>7. s.col = ColumnAt(r2, Len(r2))
  BY <1>2, <1>3
<1> QED
  BY <1>3, <1>5, <1>6, <1>7 DEF MysqlIs, r2

\* Each line keeps it ...
LEMMA MysqlStep == MysqlInv /\ [Next]_parserVars => MysqlInv'
<1> SUFFICES ASSUME MysqlInv, [Next]_parserVars, kind' = "mysqladmin" PROVE MysqlInv'
  BY DEF MysqlInv
<1>1. kind = "mysqladmin"
  BY KindStays
<1>2. read \in Seq(MysqladminLines) /\ MysqlIs(read, loc)
  BY <1>1 DEF MysqlInv
<1>3. result.state = "data" => Given(result.data, loc)
  BY <1>1 DEF MysqlInv
<1>4. ASSUME NEW l \in MysqladminLines, NEW s, Line("mysqladmin", l, s, None), MysqlIs(Append(read, l), s)
      PROVE  MysqlInv'
  <2>1. read' = Append(read, l) /\ loc' = s /\ result' = result /\ result.state = "reading"
    BY <1>4, LineFacts
  <2>2. MysqlIs(read', loc') /\ read' \in Seq(MysqladminLines) /\ result'.state # "data"
    BY <1>2, <1>4, <2>1, OneMore
  <2> QED
    BY <2>2 DEF MysqlInv, MysqlIs
<1>5. CASE MysqladminOther
  <2> DEFINE l == Of("other")
  <2>1. l \in MysqladminLines /\ l.t = "other"
    BY DEF MysqladminLines, Of
  <2>2. Line("mysqladmin", l, loc, None)
    BY <1>5 DEF MysqladminOther
  <2> HIDE DEF l
  <2>3. MysqlIs(Append(read, l), loc)
    BY <1>2, <2>1, MysqlLine
  <2> QED
    BY <1>4, <2>1, <2>2, <2>3
<1>6. CASE MysqladminColumn
  <2> DEFINE l == Of("header")
             s == [loc EXCEPT !.col = @ + 1]
  <2>1. l \in MysqladminLines /\ l.t = "header"
    BY DEF MysqladminLines, Of
  <2>2. Line("mysqladmin", l, s, None)
    BY <1>6 DEF MysqladminColumn
  <2> HIDE DEF l
  <2>3. MysqlIs(Append(read, l), s)
    BY <1>2, <2>1, MysqlLine
  <2> QED
    BY <1>4, <2>1, <2>2, <2>3
<1>7. CASE MysqladminRow
  <2> PICK n \in StatusNames, v \in Tally :
        Line("mysqladmin", [t |-> "row", name |-> n, v |-> v], IF loc.col = 0 THEN loc ELSE NewValue(n, v), None)
    BY <1>7 DEF MysqladminRow
  <2> DEFINE l == [t |-> "row", name |-> n, v |-> v]
  <2>1. l \in MysqladminLines /\ l.t = "row" /\ l.name = n /\ l.v = v
    BY DEF MysqladminLines
  <2>2. CASE loc.col = 0
    <3>1. Line("mysqladmin", l, loc, None)
      BY <2>2
    <3> HIDE DEF l
    <3>2. MysqlIs(Append(read, l), loc)
      BY <1>2, <2>1, <2>2, MysqlLine
    <3> QED
      BY <1>4, <2>1, <3>1, <3>2
  <2>3. CASE loc.col # 0
    <3> DEFINE s == NewValue(n, v)
    <3>1. Line("mysqladmin", l, s, None)
      BY <2>3
    <3> HIDE DEF l, s
    <3>2. s = NewValue(l.name, l.v)
      BY <2>1 DEF s
    <3>3. MysqlIs(Append(read, l), s)
      BY <1>2, <2>1, <2>3, <3>2, MysqlRow
    <3> QED
      BY <1>4, <2>1, <3>1, <3>3
  <2> QED
    BY <2>2, <2>3
<1>8. CASE MysqladminEnd
  <2> DEFINE nil == loc.col = 0 \/ loc.slots = <<>>
             data == [names |-> DOMAIN loc.slots, count |-> loc.col, times |-> [i \in 1..loc.col |-> start + i - 1],
                      deltas |-> [n \in DOMAIN loc.slots |-> Padded(loc.slots[n], loc.col)],
                      counters |-> {n \in DOMAIN loc.slots : classifyAsCounter(n)}, boundaries |-> <<0>>]
  <2>1. PICK d : End("mysqladmin", nil, data, d)
    BY <1>8 DEF MysqladminEnd
  <2>2. Given(data, loc)
    BY DEF Given
  <2> HIDE DEF nil, data
  <2>3. /\ read' = read /\ loc' = loc /\ (result'.state = IF nil THEN "nil" ELSE "data")
        /\ ~nil => result'.data = data
    BY <2>1, EndFacts
  <2>4. result'.state = "data" => Given(result'.data, loc')
    <3> SUFFICES ASSUME result'.state = "data" PROVE Given(result'.data, loc')
      OBVIOUS
    <3>1. ~nil
      BY <2>3
    <3> QED
      BY <2>2, <2>3, <3>1
  <2>5. MysqlIs(read', loc') /\ read' \in Seq(MysqladminLines)
    BY <1>2, <2>3
  <2> QED
    BY <2>4, <2>5 DEF MysqlInv, MysqlIs, Given
<1>9. CASE UNCHANGED parserVars
  BY <1>2, <1>3, <1>9 DEF parserVars, MysqlInv, MysqlIs, Given
<1>10. MysqladminNext \/ UNCHANGED parserVars
  BY <1>1 DEF Next, HostKinds
<1> QED
  BY <1>5, <1>6, <1>7, <1>8, <1>9, <1>10 DEF MysqladminNext

\* ... and holds before the first.
LEMMA MysqlStarts == Init => MysqlInv
<1> SUFFICES ASSUME Init, kind = "mysqladmin" PROVE MysqlInv
  BY DEF MysqlInv
<1>1. read = <<>> /\ loc = MysqladminStart /\ result.state = "reading"
  BY DEF StartOf, HostKinds, Init
<1>2. read \in Seq(MysqladminLines) /\ Len(read) = 0
  BY <1>1
<1>3. IsMysql(loc) /\ loc.col = 0 /\ loc.previous = <<>> /\ loc.slots = <<>>
  BY <1>1 DEF MysqladminStart, IsMysql, MysqlLocals
<1>4. DOMAIN loc.slots = {} /\ DOMAIN loc.previous = {}
  BY <1>3
<1>5. ColumnAt(read, Len(read)) = 0
  BY <1>2, FS_EmptySet DEF HeadersTo, ColumnAt
<1>6. \A n : Reported(read, n) = {}
  BY <1>2 DEF Reported
<1>7. AreSlots(<<>>) /\ Len(<<>>) = 0
  BY DEF AreSlots
<1>8. SlotSum(<<>>) = 0
  <2>1. \A f : DOMAIN f = {} => Total(f) = 0
    <3> SUFFICES ASSUME NEW f, DOMAIN f = {} PROVE Total(f) = 0
      OBVIOUS
    <3>1. AllUnits(f) = {}
      BY DEF AllUnits
    <3>2. Cardinality({}) = 0 /\ IsFiniteSet({})
      BY FS_EmptySet
    <3> QED
      BY <3>1, <3>2, UnitsFinite
  <2> DEFINE g == [c \in DOMAIN <<>> |-> Gain(<<>>[c])]
             h == [c \in DOMAIN <<>> |-> Loss(<<>>[c])]
  <2>2. DOMAIN g = {} /\ DOMAIN h = {}
    OBVIOUS
  <2>3. SlotSum(<<>>) = Total(g) - Total(h)
    BY DEF SlotSum
  <2> HIDE DEF g, h
  <2> QED
    BY <2>1, <2>2, <2>3
<1>9. ASSUME NEW n PROVE NameIs(read, n, SlotsIn(loc, n), PreviousIn(loc, n), loc.col)
  <2>1. SlotsIn(loc, n) = <<>> /\ PreviousIn(loc, n) = 0
    BY <1>4 DEF SlotsIn, PreviousIn
  <2>2. LastValue(read, n, 0)
    BY <1>6 DEF LastValue
  <2>3. NameIs(read, n, <<>>, 0, 0)
    BY <1>7, <1>8, <2>2 DEF NameIs
  <2> QED
    BY <1>3, <2>1, <2>3
<1> QED
  BY <1>1, <1>2, <1>3, <1>4, <1>5, <1>9 DEF MysqlInv, MysqlIs

\* parse/mysqladmin.go, for any variables, values and file: a value stands in the column
\* that reports it and NaN in the others; a gauge shows what its column reports last, and
\* the increments of a counter that no column reports twice add up to its last value.
THEOREM IncrementsAddUp == Spec => []DeltasTelescope
<1>1. MysqlInv => DeltasTelescope
  <2> SUFFICES ASSUME MysqlInv, kind = "mysqladmin", result.state = "data", NEW n \in result.data.names
               PROVE  LET slots == result.data.deltas[n] IN
                      /\ Len(slots) = result.data.count
                      /\ \A c \in DOMAIN slots : (slots[c] = NaN) <=> (RowsIn(n, c) = {})
                      /\ IF n \in result.data.counters
                         THEN (\A c \in DOMAIN slots : Cardinality(RowsIn(n, c)) <= 1)
                                => SlotSum(slots) = read[Max(ValueRows(n))].v
                         ELSE \A c \in DOMAIN slots : slots[c] # NaN => slots[c][1] = read[Max(RowsIn(n, c))].v
    BY DEF DeltasTelescope
  <2> DEFINE slots == result.data.deltas[n]
             s == SlotsIn(loc, n)
             p == PreviousIn(loc, n)
             col == loc.col
  <2>1. read \in Seq(MysqladminLines) /\ MysqlIs(read, loc) /\ Given(result.data, loc)
    BY DEF MysqlInv
  <2>2. /\ col = ColumnAt(read, Len(read)) /\ NameIs(read, n, s, p, col)
        /\ \A m \in DOMAIN loc.slots : Reported(read, m) # {}
    BY <2>1 DEF MysqlIs
  <2>3. /\ n \in DOMAIN loc.slots /\ slots = Padded(s, col) /\ result.data.count = col
        /\ n \in result.data.counters <=> classifyAsCounter(n)
    BY <2>1 DEF Given, SlotsIn
  <2>4. col \in Nat /\ Len(read) \in Nat
    BY <2>1, <2>2, ColumnAppend DEF MysqladminLines
  <2>5. /\ AreSlots(s) /\ Len(s) \in Nat /\ Len(s) <= col
        /\ \A c \in 1..col : RowsAt(read, n, c) # {} <=> c <= Len(s) /\ ~Empty(s[c])
        /\ classifyAsCounter(n) => p \in Int /\ LastValue(read, n, p) /\ (Once(read, n, col) => SlotSum(s) = p)
        /\ ~classifyAsCounter(n) => \A c \in 1..Len(s) : ~Empty(s[c]) => LastSlot(read, n, c, ValueOf(s[c]))
    BY <2>2 DEF NameIs, AreSlots
  <2>6. \A c : RowsIn(n, c) = RowsAt(read, n, c)
    BY DEF RowsIn, RowsAt, Positions, ColumnAt, HeadersTo
  <2> HIDE DEF slots, s, p, col
  <2>7. /\ AreSlots(slots) /\ Len(slots) = col /\ DOMAIN slots = 1..col
        /\ \A c \in 1..col : slots[c] = IF c <= Len(s) THEN s[c] ELSE NaN
    BY <2>3, <2>4, <2>5, PaddedIs DEF AreSlots
  <2>8. \A c \in 1..col : Empty(slots[c]) <=> RowsAt(read, n, c) = {}
    <3> SUFFICES ASSUME NEW c \in 1..col PROVE Empty(slots[c]) <=> RowsAt(read, n, c) = {}
      OBVIOUS
    <3>1. Empty(slots[c]) <=> ~(c <= Len(s) /\ ~Empty(s[c]))
      BY <2>7, SlotIs
    <3> QED
      BY <2>5, <3>1
  <2>9. \A c \in 1..col : RowsAt(read, n, c) \subseteq Nat
    BY DEF RowsAt
  <2>10. ASSUME classifyAsCounter(n), Once(read, n, col) PROVE SlotSum(slots) = read[Max(ValueRows(n))].v
    <3>1. ValueRows(n) = Reported(read, n)
      BY <2>1, <2>2, <2>6, ReportAppend DEF ValueRows, col, MysqladminLines
    <3>2. PICK i \in Reported(read, n) : p = read[i].v /\ \A j \in Reported(read, n) : j <= i
      BY <2>2, <2>3, <2>5, <2>10 DEF LastValue
    <3>3. Max(ValueRows(n)) = i
      <4>1. Reported(read, n) \subseteq Nat
        BY DEF Reported
      <4> QED
        BY <3>1, <3>2, <4>1, MaxIs
    <3>4. SlotSum(slots) = SlotSum(s)
      <4>1. \A c \in 1..Len(s) : slots[c] = s[c]
        BY <2>4, <2>5, <2>7
      <4>2. \A c \in 1..Len(slots) : c <= Len(s) \/ c = col + 1 \/ slots[c] = NaN
        BY <2>7
      <4>3. col + 1 \in Nat /\ col + 1 > Len(s) /\ col + 1 > Len(slots) /\ Len(s) <= Len(slots)
        BY <2>4, <2>5, <2>7
      <4> QED
        BY <2>5, <2>7, <4>1, <4>2, <4>3, SlotAdds
    <3> QED
      BY <2>5, <2>10, <3>2, <3>3, <3>4
  <2>11. ASSUME ~classifyAsCounter(n), NEW c \in 1..col, ~Empty(slots[c])
         PROVE  ValueOf(slots[c]) = read[Max(RowsAt(read, n, c))].v
    <3>1. c \in 1..Len(s) /\ slots[c] = s[c]
      <4>1. Empty(NaN)
        BY SlotIs
      <4>2. slots[c] = IF c <= Len(s) THEN s[c] ELSE NaN
        BY <2>7
      <4>3. c <= Len(s) /\ slots[c] = s[c]
        BY <2>11, <4>1, <4>2
      <4> QED
        BY <2>4, <2>5, <4>3
    <3>2. PICK i \in RowsAt(read, n, c) : ValueOf(s[c]) = read[i].v /\ \A j \in RowsAt(read, n, c) : j <= i
      BY <2>5, <2>11, <3>1 DEF LastSlot
    <3>3. Max(RowsAt(read, n, c)) = i
      BY <2>9, <3>2, MaxIs
    <3> QED
      BY <3>1, <3>2, <3>3
  <2>12. \A c \in 1..col : (slots[c] = NaN) <=> (RowsIn(n, c) = {})
    BY <2>6, <2>8 DEF Empty
  <2>13. (\A c \in 1..col : Cardinality(RowsIn(n, c)) <= 1) => Once(read, n, col)
    BY <2>6 DEF Once
  <2>14. ~classifyAsCounter(n) => \A c \in 1..col : slots[c] # NaN => slots[c][1] = read[Max(RowsIn(n, c))].v
    BY <2>6, <2>11 DEF Empty, ValueOf
  <2> QED
    BY <2>3, <2>7, <2>10, <2>12, <2>13, <2>14 DEF slots
<1> QED
  BY <1>1, MysqlStarts, MysqlStep, PTL DEF Spec

-----------------------------------------------------------------------------
\* Sets of numbers in their order.  Every number has its rank, and Sorted finds each.
LEMMA RankIs ==
  ASSUME NEW S \in SUBSET Nat, IsFiniteSet(S)
  PROVE  /\ Cardinality(S) \in Nat
         /\ \A i \in S : Rank(S, i) \in 1..Cardinality(S)
         /\ \A i, j \in S : (i < j <=> Rank(S, i) < Rank(S, j)) /\ (Rank(S, i) = Rank(S, j) => i = j)
         /\ DOMAIN Sorted(S) = 1..Cardinality(S)
         /\ \A n \in 1..Cardinality(S) : Sorted(S)[n] \in S /\ Rank(S, Sorted(S)[n]) = n
         /\ \A i \in S : Sorted(S)[Rank(S, i)] = i
<1> DEFINE C == Cardinality(S)
           UpTo(i) == {j \in S : j <= i}
<1>1. C \in Nat
  BY FS_CardinalityType
<1>2. \A i : IsFiniteSet(UpTo(i)) /\ Rank(S, i) \in Nat /\ Rank(S, i) <= C /\ Rank(S, i) = Cardinality(UpTo(i))
  <2> SUFFICES ASSUME NEW i
               PROVE IsFiniteSet(UpTo(i)) /\ Rank(S, i) \in Nat /\ Rank(S, i) <= C /\ Rank(S, i) = Cardinality(UpTo(i))
    OBVIOUS
  <2>1. UpTo(i) \in SUBSET S
    OBVIOUS
  <2> HIDE DEF UpTo
  <2>2. IsFiniteSet(UpTo(i)) /\ Cardinality(UpTo(i)) <= C
    BY <2>1, FS_Subset
  <2> QED
    BY <2>2, FS_CardinalityType DEF Rank, UpTo
<1>3. \A i \in S : Rank(S, i) \in 1..C
  <2> SUFFICES ASSUME NEW i \in S PROVE Rank(S, i) \in 1..C
    OBVIOUS
  <2>1. i \in UpTo(i)
    OBVIOUS
  <2>2. Rank(S, i) # 0
    <3> HIDE DEF UpTo
    <3> QED
      BY <1>2, <2>1, FS_EmptySet
  <2>3. Rank(S, i) \in Nat /\ Rank(S, i) <= C
    BY <1>2
  <2> QED
    BY <1>1, <2>2, <2>3
<1>4. ASSUME NEW i \in S, NEW j \in S, i < j PROVE Rank(S, i) < Rank(S, j)
  <2>0. i \in Nat /\ j \in Nat /\ \A x \in S : x \in Nat
    OBVIOUS
  <2>1. /\ UpTo(i) \cup {j} \in SUBSET UpTo(j) /\ j \notin UpTo(i)
    <3>1. \A x \in UpTo(i) : x \in UpTo(j)
      BY <1>4, <2>0
    <3>2. j \in UpTo(j) /\ j \notin UpTo(i)
      BY <1>4, <2>0
    <3> HIDE DEF UpTo
    <3> QED
      BY <3>1, <3>2
  <2> HIDE DEF UpTo
  <2>2. IsFiniteSet(UpTo(i)) /\ IsFiniteSet(UpTo(j))
    BY <1>2
  <2>3. Cardinality(UpTo(i) \cup {j}) = Cardinality(UpTo(i)) + 1
    BY <2>1, <2>2, FS_AddElement
  <2>4. Cardinality(UpTo(i) \cup {j}) <= Cardinality(UpTo(j))
    BY <2>1, <2>2, FS_Subset
  <2> QED
    BY <1>2, <2>3, <2>4
<1>5. \A i, j \in S : (i < j <=> Rank(S, i) < Rank(S, j)) /\ (Rank(S, i) = Rank(S, j) => i = j)
  <2> SUFFICES ASSUME NEW i \in S, NEW j \in S
               PROVE  (i < j <=> Rank(S, i) < Rank(S, j)) /\ (Rank(S, i) = Rank(S, j) => i = j)
    OBVIOUS
  <2>1. i < j \/ i = j \/ j < i
    OBVIOUS
  <2>2. Rank(S, i) \in Nat /\ Rank(S, j) \in Nat
    BY <1>2
  <2> QED
    BY <1>4, <2>1, <2>2
<1>6. \A n \in 1..C : \E i \in S : Rank(S, i) = n
  <2> DEFINE f == [i \in S |-> Rank(S, i)]
             T == 1..C
  <2>1. f \in [S -> T]
    BY <1>3
  <2>2. f \in Injection(S, T)
    <3>1. \A i, j \in S : f[i] = f[j] => i = j
      BY <1>5
    <3> HIDE DEF f, T
    <3> QED
      BY <2>1, <3>1 DEF Injection, IsInjective
  <2>3. IsFiniteSet(T) /\ Cardinality(T) = C
    BY <1>1, FS_Interval
  <2>4. f \in Surjection(S, T)
    <3> HIDE DEF f, T
    <3> QED
      BY <2>2, <2>3, FS_Injection
  <2>5. \A n \in T : \E i \in S : f[i] = n
    <3> HIDE DEF f, T
    <3> QED
      BY <2>4 DEF Surjection
  <2> QED
    BY <2>5
<1>7. \A n \in 1..C : Sorted(S)[n] \in S /\ Rank(S, Sorted(S)[n]) = n
  <2> SUFFICES ASSUME NEW n \in 1..C PROVE Sorted(S)[n] \in S /\ Rank(S, Sorted(S)[n]) = n
    OBVIOUS
  <2>1. Sorted(S)[n] = CHOOSE i \in S : Rank(S, i) = n
    BY DEF Sorted
  <2> QED
    BY <1>6, <2>1
<1>8. \A i \in S : Sorted(S)[Rank(S, i)] = i
  BY <1>3, <1>5, <1>7
<1>9. DOMAIN Sorted(S) = 1..C
  BY DEF Sorted
<1> QED
  BY <1>1, <1>3, <1>5, <1>7, <1>8, <1>9

\* A map that keeps the order keeps the ranks.
LEMMA RankMaps ==
  ASSUME NEW S \in SUBSET Nat, IsFiniteSet(S), NEW T \in SUBSET Nat, NEW f \in [S -> T],
         \A i, j \in S : i < j => f[i] < f[j], \A t \in T : \E i \in S : f[i] = t
  PROVE  /\ IsFiniteSet(T) /\ Cardinality(T) = Cardinality(S)
         /\ \A n \in 1..Cardinality(S) : Sorted(T)[n] = f[Sorted(S)[n]]
<1>1. \A i, j \in S : (f[i] = f[j] => i = j) /\ (i <= j <=> f[i] <= f[j])
  <2> SUFFICES ASSUME NEW i \in S, NEW j \in S PROVE (f[i] = f[j] => i = j) /\ (i <= j <=> f[i] <= f[j])
    OBVIOUS
  <2>1. /\ i \in Nat /\ j \in Nat /\ f[i] \in Nat /\ f[j] \in Nat
        /\ (i < j => f[i] < f[j]) /\ (j < i => f[j] < f[i])
    OBVIOUS
  <2> QED
    BY <2>1
<1>2. f \in Surjection(S, T)
  BY DEF Surjection
<1>3. IsFiniteSet(T)
  BY <1>2, FS_Surjection
<1>4. Cardinality(T) = Cardinality(S)
  <2>1. \A x, y \in S : f[x] = f[y] => x = y
    BY <1>1
  <2> QED
    BY <2>1, SameSize
<1>5. ASSUME NEW i \in S PROVE Rank(T, f[i]) = Rank(S, i)
  <2> DEFINE A == {j \in S : j <= i}
             B == {t \in T : t <= f[i]}
             g == [j \in A |-> f[j]]
  <2>1. g \in [A -> B] /\ (\A x, y \in A : g[x] = g[y] => x = y)
    BY <1>1
  <2>2. \A t \in B : \E x \in A : g[x] = t
    BY <1>1
  <2>3. IsFiniteSet(A)
    <3>1. A \in SUBSET S
      OBVIOUS
    <3> QED
      BY <3>1, FS_Subset
  <2> HIDE DEF A, B, g
  <2>4. Cardinality(B) = Cardinality(A)
    BY <2>1, <2>2, <2>3, SameSize
  <2> QED
    BY <2>4 DEF Rank, A, B
<1>6. ASSUME NEW n \in 1..Cardinality(S) PROVE Sorted(T)[n] = f[Sorted(S)[n]]
  <2>1. Sorted(S)[n] \in S /\ Rank(S, Sorted(S)[n]) = n
    BY RankIs
  <2>2. f[Sorted(S)[n]] \in T /\ Rank(T, f[Sorted(S)[n]]) = n
    BY <1>5, <2>1
  <2> QED
    <3> PICK t \in T : t = f[Sorted(S)[n]]
      BY <2>2
    <3>1. Sorted(T)[Rank(T, t)] = t
      BY <1>3, RankIs
    <3> QED
      BY <2>2, <3>1
<1> QED
  BY <1>3, <1>4, <1>6

\* A sequence lists a function over a set of numbers in their order.
Lists(s, S, f) ==
  /\ S \subseteq Nat /\ IsFiniteSet(S) /\ Len(s) = Cardinality(S)
  /\ \A q \in S : s[Rank(S, q)] = f[q]

\* One more number, greater than all, is one more element.
LEMMA ListsMore ==
  ASSUME NEW X, NEW s \in Seq(X), NEW S, NEW f, Lists(s, S, f), NEW q \in Nat, \A i \in S : i < q, NEW x \in X,
         NEW g, g[q] = x, \A i \in S : g[i] = f[i]
  PROVE  Lists(Append(s, x), S \cup {q}, g)
<1> DEFINE T == S \cup {q}
           C == Cardinality(S)
<1>1. S \in SUBSET Nat /\ IsFiniteSet(S) /\ Len(s) = C /\ \A i \in S : s[Rank(S, i)] = f[i]
  BY DEF Lists
<1>2. q \notin S /\ T \subseteq Nat
  <2>1. \A i \in S : i \in Nat /\ i < q
    BY <1>1
  <2>2. ~(q < q)
    OBVIOUS
  <2> QED
    BY <2>1, <2>2
<1>3. IsFiniteSet(T) /\ Cardinality(T) = C + 1
  BY <1>1, <1>2, FS_AddElement
<1>4. \A i \in S : Rank(T, i) = Rank(S, i)
  <2> SUFFICES ASSUME NEW i \in S PROVE Rank(T, i) = Rank(S, i)
    OBVIOUS
  <2>1. {j \in T : j <= i} = {j \in S : j <= i}
    BY <1>1
  <2> QED
    BY <2>1 DEF Rank
<1>5. Rank(T, q) = C + 1
  <2>1. \A j \in T : j <= q
    BY <1>1
  <2>2. {j \in T : j <= q} = T
    <3> HIDE DEF T
    <3> QED
      BY <2>1
  <2> QED
    BY <1>3, <2>2 DEF Rank
<1>6. /\ Len(Append(s, x)) = C + 1 /\ Append(s, x)[C + 1] = x
      /\ \A n \in 1..C : Append(s, x)[n] = s[n]
  BY <1>1, OneMore
<1>7. ASSUME NEW i \in S PROVE Append(s, x)[Rank(T, i)] = g[i]
  <2>1. Rank(S, i) \in 1..C
    BY <1>1, RankIs
  <2> HIDE DEF T, C
  <2> QED
    BY <1>1, <1>4, <1>6, <2>1
<1>8. Append(s, x)[Rank(T, q)] = g[q]
  BY <1>5, <1>6
<1> QED
  BY <1>2, <1>3, <1>6, <1>7, <1>8 DEF Lists

\* What is listed, place by place.
LEMMA ListsIs ==
  ASSUME NEW s, NEW S, NEW f, Lists(s, S, f)
  PROVE  /\ Len(s) \in Nat /\ Len(s) = Cardinality(S)
         /\ \A n \in 1..Len(s) : s[n] = f[Sorted(S)[n]]
BY RankIs DEF Lists

-----------------------------------------------------------------------------
\* parseNetstat and parseNetstatS.  A poll is known by the TS line that starts it, or by
\* 0 when the file starts with it; its lines of a class are those before the next TS line.
Starters(rd) == {0} \cup {i \in 1..Len(rd) : rd[i].t = "ts"}
Those(rd, q, C) == {i \in q + 1..Len(rd) : rd[i] \in C /\ \A k \in q + 1..i : rd[k].t # "ts"}
TimeOf(rd, q, first) == IF q = 0 THEN first ELSE rd[q].at

LEMMA ThoseFinite ==
  ASSUME NEW L, NEW rd \in Seq(L), NEW q \in Nat, NEW C
  PROVE  /\ Those(rd, q, C) \in SUBSET (1..Len(rd)) /\ IsFiniteSet(Those(rd, q, C))
         /\ Cardinality(Those(rd, q, C)) \in Nat
         /\ Cardinality(Those(rd, q, C)) = 0 <=> Those(rd, q, C) = {}
         /\ Cardinality(Those(rd, q, C) \cup {Len(rd) + 1}) = Cardinality(Those(rd, q, C)) + 1
<1> DEFINE S == Those(rd, q, C)
           N == Len(rd)
<1>1. N \in Nat /\ IsFiniteSet(1..N)
  BY FS_Interval
<1>2. S \in SUBSET (1..N)
  BY <1>1 DEF Those
<1>3. N + 1 \notin 1..N
  BY <1>1
<1> HIDE DEF S, N
<1>4. IsFiniteSet(S)
  BY <1>1, <1>2, FS_Subset
<1>5. Cardinality(S \cup {N + 1}) = Cardinality(S) + 1
  BY <1>2, <1>3, <1>4, FS_AddElement
<1>6. Cardinality(S) \in Nat /\ (Cardinality(S) = 0 <=> S = {})
  BY <1>4, FS_CardinalityType, FS_EmptySet
<1> QED
  BY <1>2, <1>4, <1>5, <1>6 DEF S, N

\* One more line is one more of the poll that it stands in.
LEMMA ThoseAppend ==
  ASSUME NEW L, NEW rd \in Seq(L), NEW l \in L, NEW p, IsLast(rd, "ts", Len(rd), p), NEW C
  PROVE  /\ p \in 0..Len(rd)
         /\ l.t # "ts" /\ l \in C => Those(Append(rd, l), p, C) = Those(rd, p, C) \cup {Len(rd) + 1}
         /\ \A q \in 0..p : l.t = "ts" \/ q # p \/ l \notin C => Those(Append(rd, l), q, C) = Those(rd, q, C)
         /\ Those(Append(rd, l), Len(rd) + 1, C) = {}
<1> DEFINE r2 == Append(rd, l)
           N == Len(rd)
<1>1. /\ N \in Nat /\ Len(r2) = N + 1 /\ r2[N + 1] = l /\ \A i \in 1..N : r2[i] = rd[i]
  BY OneMore
<1>2. p \in 0..N /\ (p > 0 => rd[p].t = "ts") /\ \A k \in p + 1..N : rd[k].t # "ts"
  BY DEF IsLast
<1>3. /\ \A q : Those(rd, q, C) = {i \in q + 1..N : rd[i] \in C /\ \A k \in q + 1..i : rd[k].t # "ts"}
      /\ \A q : Those(r2, q, C) = {i \in q + 1..N + 1 : r2[i] \in C /\ \A k \in q + 1..i : r2[k].t # "ts"}
  BY <1>1 DEF Those
<1> HIDE DEF r2, N
<1>4. ASSUME NEW q \in 0..p
      PROVE  Those(r2, q, C) = Those(rd, q, C) \cup (IF l.t # "ts" /\ q = p /\ l \in C THEN {N + 1} ELSE {})
  <2>0. q \in 0..N /\ \A i \in q + 1..N + 1 : i \in q + 1..N \/ i = N + 1
    BY <1>1, <1>2
  <2>1. \A i \in q + 1..N : i \in 1..N /\ i \in q + 1..N + 1 /\ i # N + 1 /\ \A k \in q + 1..i : k \in 1..N
    BY <1>1, <2>0
  <2>2. ASSUME NEW i \in q + 1..N PROVE i \in Those(r2, q, C) <=> i \in Those(rd, q, C)
    BY <1>1, <1>3, <2>1
  <2>3. N + 1 \in Those(r2, q, C) <=> l.t # "ts" /\ q = p /\ l \in C
    <3>1. N + 1 \in q + 1..N + 1 /\ N + 1 \in q + 1..N + 1
      BY <1>1, <2>0
    <3>2. CASE q = p
      BY <1>1, <1>2, <1>3, <2>0, <2>1, <3>1, <3>2
    <3>3. CASE q # p
      BY <1>1, <1>2, <1>3, <3>3
    <3> QED
      BY <3>2, <3>3
  <2>4. \A i \in Those(r2, q, C) : i \in q + 1..N \/ i = N + 1
    BY <1>3, <2>0
  <2>5. \A i \in Those(rd, q, C) : i \in q + 1..N
    BY <1>3
  <2> QED
    BY <2>2, <2>3, <2>4, <2>5
<1>5. p \in 0..p
  BY <1>1, <1>2
<1>6. Those(r2, N + 1, C) = {}
  BY <1>1, <1>3
<1> QED
  BY <1>2, <1>4, <1>5, <1>6 DEF r2, N

\* A TS line starts a poll, and no poll starts after the last.
LEMMA StartersAppend ==
  ASSUME NEW L, NEW rd \in Seq(L), NEW l \in L, NEW p, IsLast(rd, "ts", Len(rd), p)
  PROVE  /\ Starters(rd) \subseteq 0..p /\ p \in Starters(rd) /\ Len(rd) + 1 > p
         /\ l.t = "ts" => Starters(Append(rd, l)) = Starters(rd) \cup {Len(rd) + 1}
         /\ l.t # "ts" => Starters(Append(rd, l)) = Starters(rd)
         /\ \A q \in Starters(rd) : \A first : TimeOf(Append(rd, l), q, first) = TimeOf(rd, q, first)
         /\ \A first : TimeOf(Append(rd, l), Len(rd) + 1, first) = l.at
         /\ l.t = "ts" => IsLast(Append(rd, l), "ts", Len(rd) + 1, Len(rd) + 1)
         /\ l.t # "ts" => IsLast(Append(rd, l), "ts", Len(rd) + 1, p)
<1> DEFINE r2 == Append(rd, l)
           N == Len(rd)
<1>1. /\ N \in Nat /\ Len(r2) = N + 1 /\ r2[N + 1] = l /\ \A i \in 1..N : r2[i] = rd[i]
  BY OneMore
<1>2. p \in 0..N /\ (p > 0 => rd[p].t = "ts") /\ \A k \in p + 1..N : rd[k].t # "ts"
  BY DEF IsLast
<1>3. (l.t = "ts" => IsLast(r2, "ts", N + 1, N + 1)) /\ (l.t # "ts" => IsLast(r2, "ts", N + 1, p))
  BY LastAppend
<1>4. \A q : /\ q \in Starters(rd) <=> q = 0 \/ (q \in 1..N /\ rd[q].t = "ts")
             /\ q \in Starters(r2) <=> q = 0 \/ (q \in 1..N + 1 /\ r2[q].t = "ts")
  BY <1>1 DEF Starters
<1> HIDE DEF r2, N
<1>5. \A q \in Starters(rd) : q \in 0..p
  <2> SUFFICES ASSUME NEW q \in Starters(rd), q # 0 PROVE q \in 0..p
    BY <1>2, <1>4
  <2>1. q \in 1..N /\ ~(q \in p + 1..N)
    BY <1>2, <1>4
  <2> QED
    BY <1>1, <1>2, <2>1
<1>6. p \in Starters(rd)
  BY <1>1, <1>2, <1>4
<1>7. \A q : q \in 1..N + 1 <=> q \in 1..N \/ q = N + 1
  BY <1>1
<1>8. Starters(r2) = Starters(rd) \cup (IF l.t = "ts" THEN {N + 1} ELSE {})
  BY <1>1, <1>4, <1>7
<1>9. \A q \in Starters(rd) : \A first : TimeOf(r2, q, first) = TimeOf(rd, q, first)
  BY <1>1, <1>4 DEF TimeOf
<1>10. N + 1 # 0 /\ N + 1 > p
  BY <1>1, <1>2
<1>11. \A first : TimeOf(r2, N + 1, first) = l.at
  BY <1>1, <1>10 DEF TimeOf
<1> QED
  BY <1>3, <1>5, <1>6, <1>8, <1>9, <1>10, <1>11 DEF r2, N

-----------------------------------------------------------------------------
\* parseNetstat: what a poll is, of the lines that have been read.
NetstatLines == {Of("other"), Of("cut")} \cup [t : {"ts"}, at : Nat] \cup Sockets

OfBucket(b) == {row \in Sockets : ~StateFirst(row, "ESTABLISHED") /\ row.bucket = b}
Estabs == {row \in Sockets : StateFirst(row, "ESTABLISHED")}
Openers == {Of("cut")} \cup Sockets
Queues == {Of("cut")} \cup {row \in Sockets : row.queued}
OfState(b) == {row \in Sockets : StateFirst(row, b)}
Somewhere(rd, C) == \E i \in 1..Len(rd) : rd[i] \in C

CountsOf(rd, q) == [b \in Buckets |-> Cardinality(Those(rd, q, OfBucket(b)))]
PollOf(rd, q, first) ==
  [at |-> TimeOf(rd, q, first), counts |-> CountsOf(rd, q),
   estab |-> Cardinality(Those(rd, q, Estabs)), queued |-> Those(rd, q, Queues) # {}]
AllPolls(rd, first) == [q \in Nat |-> PollOf(rd, q, first)]

\* Every TS line opens a poll; without one, so does a row.
PollsOpened(rd) == {q \in Starters(rd) : q = 0 => Those(rd, 0, Openers) # {}}
Closed(rd, p) == {q \in PollsOpened(rd) : q < p}

Polls == [at : Nat, counts : [Buckets -> Nat], estab : Nat, queued : BOOLEAN]

NetstatLocals ==
  {"pending", "open", "at", "counts", "estab", "queued", "unconn", "tcpOnly", "sawTS", "implicit"}
HasLocals(lo) == lo = [f \in NetstatLocals |-> lo[f]]
IsNetstat(lo) ==
  /\ HasLocals(lo)
  /\ lo.pending \in Seq(Polls) /\ lo.open \in BOOLEAN /\ lo.at \in Nat
  /\ lo.counts \in [Buckets -> Nat] /\ lo.estab \in Nat /\ lo.queued \in BOOLEAN
  /\ lo.unconn \in BOOLEAN /\ lo.tcpOnly \in BOOLEAN

\* The poll in progress started at line p.
NetstatIs(rd, lo, p, first) ==
  /\ IsLast(rd, "ts", Len(rd), p)
  /\ Lists(lo.pending, Closed(rd, p), AllPolls(rd, first))
  /\ lo.open <=> p \in PollsOpened(rd)
  /\ lo.open => lo.at = TimeOf(rd, p, first)
  /\ lo.counts = CountsOf(rd, p)
  /\ lo.estab = Cardinality(Those(rd, p, Estabs))
  /\ lo.queued <=> Those(rd, p, Queues) # {}
  /\ lo.unconn <=> Somewhere(rd, OfState("UDP"))
  /\ lo.tcpOnly <=> Somewhere(rd, OfState("LISTEN"))

\* The samples of a file: of its polls with a row, in their order.
Rowed(rd) == {q \in PollsOpened(rd) : Those(rd, q, Sockets) # {}}
EstabOf(rd) == IF Somewhere(rd, OfState("UDP")) /\ ~Somewhere(rd, OfState("LISTEN")) THEN "UDP" ELSE "ESTABLISHED"
SocketSample(rd, q, first) ==
  [at |-> TimeOf(rd, q, first), queued |-> Those(rd, q, Queues) # {},
   counts |-> [CountsOf(rd, q) EXCEPT ![EstabOf(rd)] = @ + Cardinality(Those(rd, q, Estabs))]]

NetstatInv ==
  kind = "netstat" =>
    /\ start \in Nat /\ read \in Seq(NetstatLines) /\ IsNetstat(loc)
    /\ \E p : NetstatIs(read, loc, p, start)
    /\ result.state = "data" =>
         result.data = [n \in 1..Cardinality(Rowed(read)) |-> SocketSample(read, Sorted(Rowed(read))[n], start)]

\* The lines of netstat, class by class.
LEMMA NetstatClasses ==
  /\ Of("other") \in NetstatLines /\ Of("cut") \in NetstatLines /\ Sockets \subseteq NetstatLines
  /\ Of("other").t = "other" /\ Of("cut").t = "cut"
  /\ \A at \in Nat : [t |-> "ts", at |-> at] \in NetstatLines
  /\ \A l \in NetstatLines : l.t = "socket" <=> l \in Sockets
  /\ \A l \in NetstatLines : l.t = "cut" <=> l = Of("cut")
  /\ \A row \in Sockets : /\ row.t = "socket" /\ row.first \in {"proto", "state"} /\ row.bucket \in Buckets
                          /\ row.queued \in BOOLEAN
BY DEF Sockets, Of, NetstatLines

\* A poll that no line belongs to has nothing.
LEMMA PollBare ==
  ASSUME NEW rd, NEW q, \A C : Those(rd, q, C) = {}
  PROVE  CountsOf(rd, q) = NoCounts /\ Cardinality(Those(rd, q, Estabs)) = 0 /\ Those(rd, q, Queues) = {}
BY FS_EmptySet DEF CountsOf, NoCounts

\* A class within another.
LEMMA ThoseWithin ==
  ASSUME NEW rd, NEW q, NEW C, NEW D, C \subseteq D, Those(rd, q, D) = {}
  PROVE  Those(rd, q, C) = {}
BY DEF Those

\* What a poll was stays as it was when it is over.
LEMMA PollStays ==
  ASSUME NEW rd \in Seq(NetstatLines), NEW l \in NetstatLines, NEW p, IsLast(rd, "ts", Len(rd), p),
         NEW q \in Starters(rd), q # p \/ l.t \notin {"cut", "socket"}
  PROVE  /\ CountsOf(Append(rd, l), q) = CountsOf(rd, q)
         /\ \A C : C \subseteq Openers => Those(Append(rd, l), q, C) = Those(rd, q, C)
         /\ \A first : PollOf(Append(rd, l), q, first) = PollOf(rd, q, first)
<1> DEFINE r2 == Append(rd, l)
<1>1. q \in 0..p /\ \A first : TimeOf(r2, q, first) = TimeOf(rd, q, first)
  BY StartersAppend
<1>2. \A C : C \subseteq Openers => (q # p \/ l \notin C)
  BY NetstatClasses DEF Openers
<1>3. \A C : C \subseteq Openers => Those(r2, q, C) = Those(rd, q, C)
  <2> SUFFICES ASSUME NEW C, C \subseteq Openers PROVE Those(r2, q, C) = Those(rd, q, C)
    OBVIOUS
  <2>2. ~(l.t # "ts" /\ q = p /\ l \in C)
    BY <1>2
  <2> QED
    BY <1>1, <2>2, ThoseAppend
<1> HIDE DEF r2
<1>4. /\ \A b : OfBucket(b) \subseteq Openers
      /\ Estabs \subseteq Openers /\ Queues \subseteq Openers
  BY DEF OfBucket, Estabs, Queues, Openers
<1>5. CountsOf(r2, q) = CountsOf(rd, q)
  BY <1>3, <1>4 DEF CountsOf
<1>6. \A first : PollOf(r2, q, first) = PollOf(rd, q, first)
  BY <1>1, <1>3, <1>4, <1>5 DEF PollOf
<1> QED
  BY <1>3, <1>5, <1>6 DEF r2

\* Rows of the first and the second kind of state, once seen, are seen.
LEMMA SomewhereAppend ==
  ASSUME NEW L, NEW rd \in Seq(L), NEW l \in L, NEW C
  PROVE  Somewhere(Append(rd, l), C) <=> Somewhere(rd, C) \/ l \in C
<1> DEFINE r2 == Append(rd, l)
           N == Len(rd)
<1>1. /\ N \in Nat /\ Len(r2) = N + 1 /\ r2[N + 1] = l /\ \A i \in 1..N : r2[i] = rd[i]
  BY OneMore
<1>2. \A i : i \in 1..N + 1 <=> i \in 1..N \/ i = N + 1
  BY <1>1
<1> HIDE DEF r2, N
<1>3. Somewhere(r2, C) <=> \E i \in 1..N + 1 : r2[i] \in C
  BY <1>1 DEF Somewhere
<1>4. Somewhere(rd, C) <=> \E i \in 1..N : rd[i] \in C
  BY DEF Somewhere, N
<1> QED
  BY <1>1, <1>2, <1>3, <1>4 DEF r2

\* A row, or a row cut off, is of the poll in progress, and opens it.
LEMMA PollGrows ==
  ASSUME NEW rd \in Seq(NetstatLines), NEW l \in Openers, NEW p, IsLast(rd, "ts", Len(rd), p)
  PROVE  /\ \A b \in Buckets : CountsOf(Append(rd, l), p)[b] =
                                 IF l \in OfBucket(b) THEN CountsOf(rd, p)[b] + 1 ELSE CountsOf(rd, p)[b]
         /\ Cardinality(Those(Append(rd, l), p, Estabs)) =
              IF l \in Estabs THEN Cardinality(Those(rd, p, Estabs)) + 1 ELSE Cardinality(Those(rd, p, Estabs))
         /\ Those(Append(rd, l), p, Queues) # {} <=> Those(rd, p, Queues) # {} \/ l \in Queues
         /\ p \in PollsOpened(Append(rd, l)) /\ Closed(Append(rd, l), p) = Closed(rd, p)
         /\ IsLast(Append(rd, l), "ts", Len(rd) + 1, p)
<1> DEFINE r2 == Append(rd, l)
           N == Len(rd)
<1>1. l \in NetstatLines /\ l.t # "ts" /\ N \in Nat
  BY NetstatClasses DEF Openers
<1>2. /\ p \in 0..N /\ Starters(rd) \subseteq 0..p /\ p \in Starters(rd) /\ Starters(r2) = Starters(rd)
      /\ IsLast(r2, "ts", N + 1, p)
  <2>1. p \in 0..N
    BY DEF IsLast
  <2> QED
    BY <1>1, <2>1, StartersAppend
<1>3. \A C : Those(r2, p, C) = Those(rd, p, C) \cup (IF l \in C THEN {N + 1} ELSE {})
  <2> SUFFICES ASSUME NEW C PROVE Those(r2, p, C) = Those(rd, p, C) \cup (IF l \in C THEN {N + 1} ELSE {})
    OBVIOUS
  <2>1. l \in C => Those(r2, p, C) = Those(rd, p, C) \cup {N + 1}
    BY <1>1, ThoseAppend
  <2>2. l \notin C => Those(r2, p, C) = Those(rd, p, C)
    <3>1. p \in 0..p
      BY <1>2
    <3> QED
      BY <1>1, <3>1, ThoseAppend
  <2> HIDE DEF r2, N
  <2> QED
    BY <2>1, <2>2
<1>4. \A C : /\ Cardinality(Those(rd, p, C)) \in Nat
             /\ Cardinality(Those(rd, p, C) \cup {N + 1}) = Cardinality(Those(rd, p, C)) + 1
  BY <1>2, ThoseFinite
<1>5. \A q \in Starters(rd) : q # p => Those(r2, q, Openers) = Those(rd, q, Openers)
  BY <1>1, PollStays
<1> HIDE DEF r2, N
<1>6. \A C : Cardinality(Those(r2, p, C)) =
               IF l \in C THEN Cardinality(Those(rd, p, C)) + 1 ELSE Cardinality(Those(rd, p, C))
  BY <1>3, <1>4
<1>7. \A b \in Buckets : CountsOf(r2, p)[b] = IF l \in OfBucket(b) THEN CountsOf(rd, p)[b] + 1 ELSE CountsOf(rd, p)[b]
  BY <1>6 DEF CountsOf
<1>8. Those(r2, p, Queues) # {} <=> Those(rd, p, Queues) # {} \/ l \in Queues
  BY <1>3
<1>9. p \in PollsOpened(r2)
  <2>1. Those(r2, p, Openers) # {}
    BY <1>3
  <2> QED
    BY <1>2, <2>1 DEF PollsOpened
<1>10. Closed(r2, p) = Closed(rd, p)
  <2>1. 0 < p => Those(r2, 0, Openers) = Those(rd, 0, Openers)
    <3>1. 0 \in Starters(rd)
      BY DEF Starters
    <3> QED
      BY <1>5, <3>1
  <2>2. \A q \in Starters(rd) : q < p => 0 < p
    BY <1>2
  <2> QED
    BY <1>2, <2>1, <2>2 DEF Closed, PollsOpened
<1> QED
  BY <1>2, <1>6, <1>7, <1>8, <1>9, <1>10 DEF r2, N

\* What the parser has closed when it flushes: every poll that was opened.
LEMMA FlushIs ==
  ASSUME start \in Nat, IsNetstat(loc), NEW rd \in Seq(NetstatLines), NEW p, NetstatIs(rd, loc, p, start),
         NEW s, s = FlushPoll
  PROVE  /\ IsNetstat(s) /\ Lists(s.pending, PollsOpened(rd), AllPolls(rd, start))
         /\ s.counts = NoCounts /\ s.estab = 0 /\ s.queued = FALSE
         /\ s.unconn = loc.unconn /\ s.tcpOnly = loc.tcpOnly
<1>1. /\ IsLast(rd, "ts", Len(rd), p) /\ Lists(loc.pending, Closed(rd, p), AllPolls(rd, start))
      /\ loc.open <=> p \in PollsOpened(rd)
      /\ loc.open => loc.at = TimeOf(rd, p, start)
      /\ loc.counts = CountsOf(rd, p) /\ loc.estab = Cardinality(Those(rd, p, Estabs))
      /\ loc.queued <=> Those(rd, p, Queues) # {}
  BY DEF NetstatIs
<1>2. p \in Nat /\ Starters(rd) \subseteq 0..p /\ p \in Starters(rd)
  BY <1>1, NetstatClasses, StartersAppend DEF IsLast
<1>3. NoCounts \in [Buckets -> Nat]
  BY DEF NoCounts
<1>4. /\ loc.pending \in Seq(Polls) /\ loc.at \in Nat /\ loc.counts \in [Buckets -> Nat] /\ loc.estab \in Nat
      /\ loc.queued \in BOOLEAN /\ loc.open \in BOOLEAN /\ loc.unconn \in BOOLEAN /\ loc.tcpOnly \in BOOLEAN
  BY DEF IsNetstat
<1>5. CASE ~loc.open
  <2>1. s = loc
    BY <1>5 DEF FlushPoll
  <2>2. p = 0 /\ Those(rd, p, Openers) = {}
    BY <1>1, <1>2, <1>5 DEF PollsOpened
  <2>3. /\ \A b : OfBucket(b) \subseteq Openers
        /\ Estabs \subseteq Openers /\ Queues \subseteq Openers
    BY DEF OfBucket, Estabs, Queues, Openers
  <2>4. (\A b : Those(rd, p, OfBucket(b)) = {}) /\ Those(rd, p, Estabs) = {} /\ Those(rd, p, Queues) = {}
    BY <2>2, <2>3, ThoseWithin
  <2>5. Cardinality({}) = 0
    BY FS_EmptySet
  <2>6. CountsOf(rd, p) = NoCounts /\ Cardinality(Those(rd, p, Estabs)) = 0
    BY <2>4, <2>5 DEF CountsOf, NoCounts
  <2>7. Closed(rd, p) = PollsOpened(rd)
    BY <1>2, <2>2 DEF PollsOpened, Closed
  <2> QED
    BY <1>1, <1>4, <2>1, <2>4, <2>6, <2>7
<1>6. CASE loc.open
  <2> DEFINE x == [at |-> loc.at, counts |-> loc.counts, estab |-> loc.estab, queued |-> loc.queued]
             f == AllPolls(rd, start)
  <2>1. s = [loc EXCEPT !.pending = Append(loc.pending, x), !.open = FALSE, !.counts = NoCounts,
                        !.estab = 0, !.queued = FALSE]
    BY <1>6 DEF FlushPoll
  <2>2. x \in Polls
    BY <1>4 DEF Polls
  <2>3. x = PollOf(rd, p, start)
    BY <1>1, <1>4, <1>6 DEF PollOf
  <2>4. f[p] = x
    BY <1>2, <2>3 DEF AllPolls
  <2>5. PollsOpened(rd) = Closed(rd, p) \cup {p}
    BY <1>1, <1>2, <1>6 DEF PollsOpened, Closed
  <2>6. \A q \in Closed(rd, p) : q < p
    BY DEF Closed
  <2> HIDE DEF x, f
  <2>7. Lists(Append(loc.pending, x), Closed(rd, p) \cup {p}, f)
    BY <1>1, <1>2, <1>4, <2>2, <2>4, <2>6, ListsMore DEF f
  <2>8. Append(loc.pending, x) \in Seq(Polls)
    BY <1>4, <2>2, OneMore
  <2>9. s.pending = Append(loc.pending, x) /\ s.counts = NoCounts /\ s.estab = 0 /\ s.queued = FALSE
        /\ s.unconn = loc.unconn /\ s.tcpOnly = loc.tcpOnly /\ IsNetstat(s)
    <3> PICK more : more = Append(loc.pending, x)
      OBVIOUS
    <3>1. s = [loc EXCEPT !.pending = more, !.open = FALSE, !.counts = NoCounts, !.estab = 0, !.queued = FALSE]
      BY <2>1
    <3>2. more \in Seq(Polls)
      BY <2>8
    <3>3. HasLocals(loc)
      BY DEF IsNetstat
    <3>4. /\ s.pending = more /\ s.counts = NoCounts /\ s.estab = 0 /\ s.queued = FALSE /\ s.open = FALSE
          /\ s.unconn = loc.unconn /\ s.tcpOnly = loc.tcpOnly /\ s.at = loc.at /\ HasLocals(s)
      BY <3>1, <3>3 DEF HasLocals, NetstatLocals
    <3>5. IsNetstat(s)
      <4> DEFINE W == Seq(Polls)
      <4>1. /\ s.pending \in W /\ s.open \in BOOLEAN /\ s.at \in Nat
            /\ s.counts \in [Buckets -> Nat] /\ s.estab \in Nat /\ s.queued \in BOOLEAN
            /\ s.unconn \in BOOLEAN /\ s.tcpOnly \in BOOLEAN
        <5>1. /\ s.open \in BOOLEAN /\ s.queued \in BOOLEAN
              /\ s.unconn \in BOOLEAN /\ s.tcpOnly \in BOOLEAN
          BY <1>4, <3>4, Zenon
        <5>2. s.estab \in Nat /\ s.at \in Nat
          BY <1>4, <3>4
        <5>3. s.pending \in W /\ s.counts \in [Buckets -> Nat]
          BY <1>3, <3>2, <3>4, Zenon
        <5> QED
          BY <5>1, <5>2, <5>3
      <4> HIDE DEF W
      <4> QED
        BY <3>4, <4>1 DEF IsNetstat, W
    <3> QED
      BY <3>4, <3>5
  <2> QED
    BY <2>5, <2>7, <2>9 DEF f
<1> QED
  BY <1>4, <1>5, <1>6

\* A TS line closes the poll in progress, and the next one is bare.
LEMMA PollBegins ==
  ASSUME start \in Nat, IsNetstat(loc), NEW rd \in Seq(NetstatLines), NEW p, NetstatIs(rd, loc, p, start),
         NEW l \in NetstatLines, l.t = "ts", l.at \in Nat,
         NEW s, s = [FlushPoll EXCEPT !.sawTS = TRUE, !.open = TRUE, !.at = l.at]
  PROVE  IsNetstat(s) /\ NetstatIs(Append(rd, l), s, Len(rd) + 1, start)
<1> DEFINE r2 == Append(rd, l)
           N == Len(rd)
<1> PICK o : o = FlushPoll
  OBVIOUS
<1>1. /\ IsNetstat(o) /\ Lists(o.pending, PollsOpened(rd), AllPolls(rd, start))
      /\ o.counts = NoCounts /\ o.estab = 0 /\ o.queued = FALSE
      /\ o.unconn = loc.unconn /\ o.tcpOnly = loc.tcpOnly
  BY FlushIs
<1>2. /\ HasLocals(s) /\ s.pending = o.pending /\ s.open = TRUE /\ s.at = l.at
      /\ s.counts = NoCounts /\ s.estab = 0 /\ s.queued = FALSE
      /\ s.unconn = loc.unconn /\ s.tcpOnly = loc.tcpOnly
  BY <1>1 DEF IsNetstat, HasLocals, NetstatLocals
<1>3. IsNetstat(s)
  BY <1>1, <1>2 DEF IsNetstat
<1>4. /\ IsLast(rd, "ts", N, p) /\ N \in Nat
      /\ loc.unconn <=> Somewhere(rd, OfState("UDP"))
      /\ loc.tcpOnly <=> Somewhere(rd, OfState("LISTEN"))
  BY DEF NetstatIs
<1>5. /\ Starters(rd) \subseteq 0..p /\ N + 1 > p /\ Starters(r2) = Starters(rd) \cup {N + 1}
      /\ TimeOf(r2, N + 1, start) = l.at /\ IsLast(r2, "ts", N + 1, N + 1) /\ p \in 0..N
  <2>1. p \in 0..N
    BY <1>4 DEF IsLast
  <2> QED
    BY <1>4, <2>1, StartersAppend
<1>6. \A C : Those(r2, N + 1, C) = {}
  BY <1>4, ThoseAppend
<1>7. \A q \in Starters(rd) : /\ PollOf(r2, q, start) = PollOf(rd, q, start)
                              /\ Those(r2, q, Openers) = Those(rd, q, Openers)
  BY <1>4, PollStays
<1>8. Len(r2) = N + 1 /\ Somewhere(r2, OfState("UDP")) = Somewhere(rd, OfState("UDP"))
      /\ Somewhere(r2, OfState("LISTEN")) = Somewhere(rd, OfState("LISTEN"))
  <2>1. \A b : l \notin OfState(b)
    BY NetstatClasses DEF OfState
  <2>2. Len(r2) = N + 1
    BY OneMore
  <2>3. \A C : Somewhere(r2, C) <=> Somewhere(rd, C) \/ l \in C
    BY SomewhereAppend
  <2> HIDE DEF r2, N
  <2> QED
    BY <2>1, <2>2, <2>3 DEF Somewhere
<1> HIDE DEF r2, N
<1>9. /\ PollsOpened(r2) = PollsOpened(rd) \cup {N + 1} /\ PollsOpened(rd) \subseteq 0..p
  BY <1>5, <1>7 DEF Starters, PollsOpened
<1>10. Closed(r2, N + 1) = PollsOpened(rd)
  BY <1>4, <1>5, <1>9 DEF Closed
<1>11. Lists(s.pending, Closed(r2, N + 1), AllPolls(r2, start))
  <2>1. \A q \in PollsOpened(rd) : AllPolls(r2, start)[q] = AllPolls(rd, start)[q]
    <3> SUFFICES ASSUME NEW q \in PollsOpened(rd) PROVE AllPolls(r2, start)[q] = AllPolls(rd, start)[q]
      OBVIOUS
    <3>1. q \in Nat /\ q \in Starters(rd)
      BY <1>5, <1>9 DEF PollsOpened
    <3> QED
      BY <1>7, <3>1 DEF AllPolls
  <2> QED
    BY <1>1, <1>2, <1>10, <2>1 DEF Lists
<1>12. /\ CountsOf(r2, N + 1) = NoCounts /\ Cardinality(Those(r2, N + 1, Estabs)) = 0 /\ Those(r2, N + 1, Queues) = {}
  BY <1>6, PollBare
<1>13. NetstatIs(r2, s, N + 1, start)
  <2>1. N + 1 \in PollsOpened(r2)
    BY <1>9
  <2> QED
    BY <1>2, <1>4, <1>5, <1>8, <1>11, <1>12, <2>1 DEF NetstatIs
<1> QED
  BY <1>3, <1>13, Zenon DEF r2, N

\* A row, or one that is cut off, counts in the poll in progress.
Takes(l, s) ==
  /\ HasLocals(s) /\ s.pending = loc.pending /\ s.open = TRUE /\ s.at = IF loc.open THEN loc.at ELSE start
  /\ s.counts \in [Buckets -> Nat]
  /\ \A b \in Buckets : s.counts[b] = IF l \in OfBucket(b) THEN loc.counts[b] + 1 ELSE loc.counts[b]
  /\ s.estab = IF l \in Estabs THEN loc.estab + 1 ELSE loc.estab
  /\ s.queued \in BOOLEAN /\ (s.queued <=> loc.queued \/ l \in Queues)
  /\ s.unconn \in BOOLEAN /\ (s.unconn <=> loc.unconn \/ l \in OfState("UDP"))
  /\ s.tcpOnly \in BOOLEAN /\ (s.tcpOnly <=> loc.tcpOnly \/ l \in OfState("LISTEN"))

LEMMA PollTakes ==
  ASSUME start \in Nat, IsNetstat(loc), NEW rd \in Seq(NetstatLines), NEW p, NetstatIs(rd, loc, p, start),
         NEW l \in Openers, NEW s, Takes(l, s)
  PROVE  IsNetstat(s) /\ NetstatIs(Append(rd, l), s, p, start)
<1> DEFINE r2 == Append(rd, l)
           N == Len(rd)
<1>0. /\ HasLocals(s) /\ s.pending = loc.pending /\ s.open = TRUE /\ s.at = IF loc.open THEN loc.at ELSE start
      /\ s.counts \in [Buckets -> Nat]
      /\ \A b \in Buckets : s.counts[b] = IF l \in OfBucket(b) THEN loc.counts[b] + 1 ELSE loc.counts[b]
      /\ s.estab = IF l \in Estabs THEN loc.estab + 1 ELSE loc.estab
      /\ s.queued \in BOOLEAN /\ (s.queued <=> loc.queued \/ l \in Queues)
      /\ s.unconn \in BOOLEAN /\ (s.unconn <=> loc.unconn \/ l \in OfState("UDP"))
      /\ s.tcpOnly \in BOOLEAN /\ (s.tcpOnly <=> loc.tcpOnly \/ l \in OfState("LISTEN"))
  BY DEF Takes
<1>1. /\ IsLast(rd, "ts", N, p) /\ Lists(loc.pending, Closed(rd, p), AllPolls(rd, start))
      /\ loc.open <=> p \in PollsOpened(rd)
      /\ loc.open => loc.at = TimeOf(rd, p, start)
      /\ loc.counts = CountsOf(rd, p) /\ loc.estab = Cardinality(Those(rd, p, Estabs))
      /\ loc.queued <=> Those(rd, p, Queues) # {}
      /\ loc.unconn <=> Somewhere(rd, OfState("UDP"))
      /\ loc.tcpOnly <=> Somewhere(rd, OfState("LISTEN"))
  BY DEF NetstatIs
<1>2. /\ l \in NetstatLines /\ l.t # "ts"
  BY NetstatClasses DEF Openers
<1>3. /\ \A b \in Buckets : CountsOf(r2, p)[b] = IF l \in OfBucket(b) THEN CountsOf(rd, p)[b] + 1 ELSE CountsOf(rd, p)[b]
      /\ Cardinality(Those(r2, p, Estabs)) =
           IF l \in Estabs THEN Cardinality(Those(rd, p, Estabs)) + 1 ELSE Cardinality(Those(rd, p, Estabs))
      /\ Those(r2, p, Queues) # {} <=> Those(rd, p, Queues) # {} \/ l \in Queues
      /\ p \in PollsOpened(r2) /\ Closed(r2, p) = Closed(rd, p) /\ IsLast(r2, "ts", N + 1, p)
  BY <1>1, PollGrows
<1>4. /\ Starters(rd) \subseteq 0..p /\ p \in Starters(rd) /\ TimeOf(r2, p, start) = TimeOf(rd, p, start)
  BY <1>1, <1>2, StartersAppend
<1>5. \A q \in Starters(rd) : q # p => PollOf(r2, q, start) = PollOf(rd, q, start)
  BY <1>1, <1>2, PollStays
<1>6. \A C : Somewhere(r2, C) <=> Somewhere(rd, C) \/ l \in C
  BY <1>2, SomewhereAppend
<1>7. Len(r2) = N + 1 /\ p \in 0..N /\ N \in Nat
  BY <1>1, <1>2, OneMore DEF IsLast
<1>8. loc.at \in Nat /\ loc.pending \in Seq(Polls) /\ loc.estab \in Nat
  BY DEF IsNetstat
<1> HIDE DEF r2, N
<1>9. IsNetstat(s)
  <2>1. s.at \in Nat /\ s.estab \in Nat
    BY <1>0, <1>8
  <2>2. s.pending \in Seq(Polls) /\ s.open \in BOOLEAN
    BY <1>0, <1>8, Zenon
  <2> QED
    BY <1>0, <2>1, <2>2, Zenon DEF IsNetstat
<1>10. s.at = TimeOf(r2, p, start)
  <2>1. CASE loc.open
    BY <1>0, <1>1, <1>4, <2>1
  <2>2. CASE ~loc.open
    <3>1. p = 0
      BY <1>1, <1>4, <2>2 DEF PollsOpened
    <3> QED
      BY <1>0, <2>2, <3>1 DEF TimeOf
  <2> QED
    BY <2>1, <2>2
<1>11. s.counts = CountsOf(r2, p)
  BY <1>0, <1>1, <1>3 DEF CountsOf
<1>12. Lists(s.pending, Closed(r2, p), AllPolls(r2, start))
  <2>1. \A q \in Closed(rd, p) : AllPolls(r2, start)[q] = AllPolls(rd, start)[q]
    <3> SUFFICES ASSUME NEW q \in Closed(rd, p) PROVE AllPolls(r2, start)[q] = AllPolls(rd, start)[q]
      OBVIOUS
    <3>1. q \in Starters(rd) /\ q < p
      BY DEF Closed, PollsOpened
    <3>2. q \in Nat /\ q # p
      BY <1>4, <1>7, <3>1
    <3> QED
      BY <1>5, <3>1, <3>2 DEF AllPolls
  <2> QED
    BY <1>0, <1>1, <1>3, <2>1 DEF Lists
<1>13. s.estab = Cardinality(Those(r2, p, Estabs))
  BY <1>0, <1>1, <1>3
<1>14. NetstatIs(r2, s, p, start)
  BY <1>0, <1>1, <1>3, <1>6, <1>7, <1>10, <1>11, <1>12, <1>13 DEF NetstatIs
<1> QED
  BY <1>9, <1>14 DEF r2

\* Any other line changes nothing.
LEMMA PollWaits ==
  ASSUME NEW rd \in Seq(NetstatLines), NEW lo, NEW p, NEW first, NetstatIs(rd, lo, p, first)
  PROVE  NetstatIs(Append(rd, Of("other")), lo, p, first)
<1> DEFINE l == Of("other")
           r2 == Append(rd, l)
           N == Len(rd)
<1>1. l \in NetstatLines /\ l.t = "other"
  BY NetstatClasses
<1>2. l \notin Openers
  BY <1>1, NetstatClasses DEF Openers
<1> HIDE DEF l
<1>3. IsLast(rd, "ts", N, p)
  BY DEF NetstatIs
<1>4. /\ Starters(r2) = Starters(rd) /\ IsLast(r2, "ts", N + 1, p) /\ p \in Starters(rd)
      /\ Starters(rd) \subseteq 0..p /\ p \in 0..N /\ N \in Nat
      /\ \A q \in Starters(rd) : TimeOf(r2, q, first) = TimeOf(rd, q, first)
  BY <1>1, <1>3, StartersAppend DEF IsLast
<1>5. \A q \in Starters(rd) : /\ PollOf(r2, q, first) = PollOf(rd, q, first) /\ CountsOf(r2, q) = CountsOf(rd, q)
                              /\ \A C : C \subseteq Openers => Those(r2, q, C) = Those(rd, q, C)
  BY <1>1, <1>3, PollStays
<1>6. \A C : Somewhere(r2, C) <=> Somewhere(rd, C) \/ l \in C
  BY <1>1, SomewhereAppend
<1>7. Len(r2) = N + 1
  BY <1>1, OneMore
<1> HIDE DEF r2, N
<1>8. PollsOpened(r2) = PollsOpened(rd) /\ Closed(r2, p) = Closed(rd, p)
  BY <1>4, <1>5 DEF Starters, PollsOpened, Closed
<1>9. Lists(lo.pending, Closed(r2, p), AllPolls(r2, first))
  <2>1. \A q \in Closed(rd, p) : AllPolls(r2, first)[q] = AllPolls(rd, first)[q]
    <3> SUFFICES ASSUME NEW q \in Closed(rd, p) PROVE AllPolls(r2, first)[q] = AllPolls(rd, first)[q]
      OBVIOUS
    <3>1. q \in Starters(rd) /\ q \in Nat
      BY <1>4 DEF Closed, PollsOpened
    <3> QED
      BY <1>5, <3>1 DEF AllPolls
  <2>2. Lists(lo.pending, Closed(rd, p), AllPolls(rd, first))
    BY DEF NetstatIs
  <2> QED
    BY <1>8, <2>1, <2>2 DEF Lists
<1>10. Estabs \subseteq Openers /\ Queues \subseteq Openers /\ \A b : OfState(b) \subseteq Openers
  BY DEF Estabs, Queues, OfState, Openers
<1>11. Those(r2, p, Estabs) = Those(rd, p, Estabs) /\ Those(r2, p, Queues) = Those(rd, p, Queues)
  BY <1>4, <1>5, <1>10
<1>12. \A b : Somewhere(r2, OfState(b)) <=> Somewhere(rd, OfState(b))
  BY <1>2, <1>6, <1>10
<1>13. NetstatIs(r2, lo, p, first)
  BY <1>4, <1>5, <1>7, <1>8, <1>9, <1>11, <1>12 DEF NetstatIs
<1> QED
  BY <1>13 DEF r2, l

\* A poll is shown if one of its rows was counted or awaits its bucket.
LEMMA PopularIs ==
  ASSUME NEW rd \in Seq(NetstatLines), NEW q \in Nat, NEW first
  PROVE  Popular(PollOf(rd, q, first)) <=> Those(rd, q, Sockets) # {}
<1> DEFINE counts == CountsOf(rd, q)
           estab == Cardinality(Those(rd, q, Estabs))
<1>1. \A C : /\ Cardinality(Those(rd, q, C)) \in Nat
             /\ Cardinality(Those(rd, q, C)) = 0 <=> Those(rd, q, C) = {}
  BY ThoseFinite
<1>2. Popular(PollOf(rd, q, first)) <=> estab > 0 \/ counts # NoCounts
  BY DEF Popular, PollOf
<1>3. counts = NoCounts <=> \A b \in Buckets : Those(rd, q, OfBucket(b)) = {}
  <2>1. \A b \in Buckets : counts[b] = 0 <=> Those(rd, q, OfBucket(b)) = {}
    BY <1>1 DEF CountsOf
  <2>2. counts = [b \in Buckets |-> counts[b]]
    BY DEF CountsOf
  <2> HIDE DEF counts
  <2>3. counts = NoCounts <=> \A b \in Buckets : counts[b] = 0
    BY <2>2 DEF NoCounts
  <2> QED
    BY <2>1, <2>3
<1>4. estab > 0 <=> Those(rd, q, Estabs) # {}
  BY <1>1
<1>5. \A row : row \in Sockets <=> row \in Estabs \/ \E b \in Buckets : row \in OfBucket(b)
  BY NetstatClasses DEF Estabs, OfBucket
<1>6. Those(rd, q, Sockets) = {} <=> Those(rd, q, Estabs) = {} /\ \A b \in Buckets : Those(rd, q, OfBucket(b)) = {}
  BY <1>5 DEF Those
<1> QED
  BY <1>2, <1>3, <1>4, <1>6

\* The polls that are shown, in their order.
LEMMA PopularPolls ==
  ASSUME NEW rd \in Seq(NetstatLines), NEW first, NEW o \in Seq(Polls), PollsOpened(rd) \subseteq Nat,
         Lists(o, PollsOpened(rd), AllPolls(rd, first)), NEW polls, polls = PopularOf(o)
  PROVE  /\ DOMAIN polls = 1..Cardinality(Rowed(rd)) /\ Cardinality(Rowed(rd)) \in Nat
         /\ \A n \in 1..Cardinality(Rowed(rd)) : /\ polls[n] = PollOf(rd, Sorted(Rowed(rd))[n], first)
                                                 /\ Sorted(Rowed(rd))[n] \in Rowed(rd)
<1> DEFINE D == PollsOpened(rd)
           R == Rowed(rd)
           K == {i \in DOMAIN o : Popular(o[i])}
           f == [q \in R |-> Rank(D, q)]
<1>1. D \in SUBSET Nat /\ IsFiniteSet(D) /\ DOMAIN o = 1..Cardinality(D)
      /\ \A q \in D : o[Rank(D, q)] = PollOf(rd, q, first)
  <2>1. IsFiniteSet(D) /\ Len(o) = Cardinality(D) /\ \A q \in D : o[Rank(D, q)] = AllPolls(rd, first)[q]
    BY DEF Lists
  <2>2. DOMAIN o = 1..Len(o)
    OBVIOUS
  <2>3. \A q \in Nat : AllPolls(rd, first)[q] = PollOf(rd, q, first)
    BY DEF AllPolls
  <2> HIDE DEF D
  <2>4. D \subseteq Nat
    BY DEF D
  <2> QED
    BY <2>1, <2>2, <2>3, <2>4
<1>2. R \in SUBSET D /\ \A q \in D : q \in R <=> Popular(PollOf(rd, q, first))
  BY PopularIs DEF Rowed
<1>3. PopularOf(o) = [n \in DOMAIN Sorted(K) |-> o[Sorted(K)[n]]]
  BY DEF PopularOf
<1> HIDE DEF D, R
<1>4. K \in SUBSET Nat
  BY <1>1
<1>5. IsFiniteSet(R) /\ R \in SUBSET Nat
  BY <1>1, <1>2, FS_Subset
<1>6. f \in [R -> K]
  <2>1. \A q \in R : Rank(D, q) \in K
    BY <1>1, <1>2, RankIs
  <2> HIDE DEF K
  <2> QED
    BY <2>1
<1>7. \A i, j \in R : i < j => f[i] < f[j]
  BY <1>1, <1>2, RankIs
<1>8. \A t \in K : \E i \in R : f[i] = t
  <2> SUFFICES ASSUME NEW t \in K PROVE \E i \in R : f[i] = t
    OBVIOUS
  <2>1. Sorted(D)[t] \in D /\ Rank(D, Sorted(D)[t]) = t
    BY <1>1, RankIs
  <2>2. Sorted(D)[t] \in R
    BY <1>1, <1>2, <2>1
  <2> QED
    BY <2>1, <2>2
<1>9. /\ Cardinality(R) \in Nat /\ DOMAIN Sorted(K) = 1..Cardinality(R)
      /\ \A n \in 1..Cardinality(R) : Sorted(R)[n] \in R /\ Sorted(K)[n] = f[Sorted(R)[n]]
  <2> HIDE DEF f, K
  <2>1. /\ IsFiniteSet(K) /\ Cardinality(K) = Cardinality(R)
        /\ \A n \in 1..Cardinality(R) : Sorted(K)[n] = f[Sorted(R)[n]]
    BY <1>4, <1>5, <1>6, <1>7, <1>8, RankMaps
  <2> QED
    BY <1>4, <1>5, <2>1, RankIs
<1> HIDE DEF K
<1>10. \A n \in 1..Cardinality(R) : polls[n] = PollOf(rd, Sorted(R)[n], first)
  <2> SUFFICES ASSUME NEW n \in 1..Cardinality(R) PROVE polls[n] = PollOf(rd, Sorted(R)[n], first)
    OBVIOUS
  <2>1. polls[n] = o[Rank(D, Sorted(R)[n])]
    BY <1>3, <1>9
  <2> QED
    BY <1>1, <1>2, <1>9, <2>1
<1>11. DOMAIN polls = 1..Cardinality(R)
  BY <1>3, <1>9
<1> QED
  BY <1>9, <1>10, <1>11 DEF R

\* The payload of the sockets.
LEMMA SocketsReturned ==
  ASSUME NetstatInv, kind = "netstat", NetstatEnd
  PROVE  NetstatInv'
<1> PICK p : NetstatIs(read, loc, p, start)
  BY DEF NetstatInv
<1> DEFINE polls == PopularOf(FlushPoll.pending)
           unclear == \E i \in DOMAIN polls : polls[i].estab > 0
           data == [i \in DOMAIN polls |->
                      [at |-> polls[i].at, queued |-> polls[i].queued,
                       counts |-> [polls[i].counts EXCEPT ![EstabBucket] = @ + polls[i].estab]]]
           R == Rowed(read)
<1>1. start \in Nat /\ read \in Seq(NetstatLines) /\ IsNetstat(loc)
  BY DEF NetstatInv
<1>2. End("netstat", polls = <<>>, data, IF unclear /\ ~loc.unconn /\ ~loc.tcpOnly THEN Warning ELSE None)
  BY DEF NetstatEnd
<1>3. /\ IsLast(read, "ts", Len(read), p)
      /\ loc.unconn <=> Somewhere(read, OfState("UDP"))
      /\ loc.tcpOnly <=> Somewhere(read, OfState("LISTEN"))
  BY DEF NetstatIs
<1>4. EstabBucket = EstabOf(read)
  BY <1>3 DEF EstabBucket, EstabOf
<1>5. PollsOpened(read) \subseteq Nat
  BY <1>1, <1>3, NetstatClasses, StartersAppend DEF IsLast, PollsOpened
<1>6. /\ DOMAIN polls = 1..Cardinality(R)
      /\ \A n \in 1..Cardinality(R) : polls[n] = PollOf(read, Sorted(R)[n], start)
  <2> PICK o : o = FlushPoll
    OBVIOUS
  <2>1. IsNetstat(o) /\ Lists(o.pending, PollsOpened(read), AllPolls(read, start))
    BY <1>1, FlushIs
  <2>2. o.pending \in Seq(Polls)
    BY <2>1 DEF IsNetstat
  <2>3. polls = PopularOf(o.pending)
    OBVIOUS
  <2> HIDE DEF polls
  <2> QED
    BY <1>1, <1>5, <2>1, <2>2, <2>3, PopularPolls
<1>7. data = [n \in 1..Cardinality(R) |-> SocketSample(read, Sorted(R)[n], start)]
  <2>1. \A n \in 1..Cardinality(R) :
          [at |-> polls[n].at, queued |-> polls[n].queued,
           counts |-> [polls[n].counts EXCEPT ![EstabBucket] = @ + polls[n].estab]] =
            SocketSample(read, Sorted(R)[n], start)
    <3> HIDE DEF polls, R
    <3> QED
      BY <1>4, <1>6 DEF PollOf, SocketSample
  <2> HIDE DEF R
  <2> QED
    BY <1>6, <2>1
<1> HIDE DEF polls, unclear, data, R
<1>8. start' = start /\ read' = read /\ loc' = loc /\ (result'.state = "data" => result'.data = data)
  BY <1>2, EndFacts
<1> QED
  BY <1>1, <1>7, <1>8 DEF NetstatInv, R

\* What a row does to the locals.
Ensured(more) == [EnsurePoll EXCEPT !.queued = more]

IsEnsured(e, more) ==
  /\ HasLocals(e) /\ e.pending = loc.pending /\ e.open = TRUE /\ e.at = IF loc.open THEN loc.at ELSE start
  /\ e.counts = loc.counts /\ e.estab = loc.estab /\ e.queued = more
  /\ e.unconn = loc.unconn /\ e.tcpOnly = loc.tcpOnly

LEMMA EnsureIs ==
  ASSUME IsNetstat(loc), NEW more, NEW e, e = Ensured(more)
  PROVE  IsEnsured(e, more)
BY DEF EnsurePoll, Ensured, IsNetstat, HasLocals, NetstatLocals, IsEnsured

LEMMA CutTakes ==
  ASSUME start \in Nat, IsNetstat(loc), NEW rd \in Seq(NetstatLines), NEW p, NetstatIs(rd, loc, p, start),
         NEW s, s = [EnsurePoll EXCEPT !.queued = TRUE]
  PROVE  IsNetstat(s) /\ NetstatIs(Append(rd, Of("cut")), s, p, start)
<1> DEFINE l == Of("cut")
<1> PICK more : more = TRUE
  OBVIOUS
<1>0. s = Ensured(more)
  BY DEF Ensured
<1>1. /\ HasLocals(s) /\ s.pending = loc.pending /\ s.open = TRUE /\ s.at = IF loc.open THEN loc.at ELSE start
      /\ s.counts = loc.counts /\ s.estab = loc.estab /\ s.queued = more
      /\ s.unconn = loc.unconn /\ s.tcpOnly = loc.tcpOnly
  <2>1. IsEnsured(s, more)
    BY <1>0, EnsureIs
  <2> QED
    BY <2>1, Zenon DEF IsEnsured
<1>2. l \in Openers /\ l \in Queues /\ l \notin Estabs /\ \A b : l \notin OfBucket(b) /\ l \notin OfState(b)
  BY NetstatClasses DEF Openers, Queues, Estabs, OfBucket, OfState
<1>3. loc.counts \in [Buckets -> Nat] /\ loc.unconn \in BOOLEAN /\ loc.tcpOnly \in BOOLEAN
  BY DEF IsNetstat
<1> HIDE DEF l
<1>4. s.queued \in BOOLEAN /\ s.unconn \in BOOLEAN /\ s.tcpOnly \in BOOLEAN
  BY <1>1, <1>3, Zenon
<1>5. Takes(l, s)
  BY <1>1, <1>2, <1>3, <1>4 DEF Takes
<1>6. IsNetstat(s) /\ NetstatIs(Append(rd, l), s, p, start)
  BY <1>2, <1>5, PollTakes
<1> QED
  BY <1>6 DEF l

LEMMA SocketTakes ==
  ASSUME start \in Nat, IsNetstat(loc), NEW rd \in Seq(NetstatLines), NEW p, NetstatIs(rd, loc, p, start),
         NEW row \in Sockets, NEW s, s = CountSocket([EnsurePoll EXCEPT !.queued = @ \/ row.queued], row)
  PROVE  IsNetstat(s) /\ NetstatIs(Append(rd, row), s, p, start)
<1> PICK more : more = (EnsurePoll.queued \/ row.queued)
  OBVIOUS
<1> PICK e : e = Ensured(more)
  OBVIOUS
<1>1. s = CountSocket(e, row)
  BY DEF Ensured
<1>2. /\ HasLocals(e) /\ e.pending = loc.pending /\ e.open = TRUE /\ e.at = IF loc.open THEN loc.at ELSE start
      /\ e.counts = loc.counts /\ e.estab = loc.estab /\ e.queued = more
      /\ e.unconn = loc.unconn /\ e.tcpOnly = loc.tcpOnly
  <2>1. IsEnsured(e, more)
    BY EnsureIs
  <2> QED
    BY <2>1, Zenon DEF IsEnsured
<1>3. more \in BOOLEAN /\ (more <=> loc.queued \/ row.queued)
  BY NetstatClasses DEF EnsurePoll, IsNetstat, HasLocals, NetstatLocals
<1>4. loc.counts \in [Buckets -> Nat] /\ loc.unconn \in BOOLEAN /\ loc.tcpOnly \in BOOLEAN /\ loc.estab \in Nat
  BY DEF IsNetstat
<1>5. row.bucket \in Buckets /\ row \in Openers
  BY NetstatClasses DEF Openers
<1>6. (row \in Estabs <=> StateFirst(row, "ESTABLISHED")) /\ (\A b : row \in OfState(b) <=> StateFirst(row, b))
      /\ (\A b : row \in OfBucket(b) <=> ~StateFirst(row, "ESTABLISHED") /\ row.bucket = b)
  BY DEF Estabs, OfState, OfBucket
<1>7. row \in Queues <=> row.queued
  BY NetstatClasses DEF Queues
<1>8. "UDP" \in Buckets /\ "LISTEN" \in Buckets
  BY DEF Buckets
<1>9. CASE StateFirst(row, "ESTABLISHED")
  <2> PICK estab : estab = loc.estab + 1
    OBVIOUS
  <2>1. s = [e EXCEPT !.estab = estab]
    BY <1>1, <1>2, <1>9 DEF CountSocket
  <2>2. /\ HasLocals(s) /\ s.pending = loc.pending /\ s.open = TRUE /\ s.at = IF loc.open THEN loc.at ELSE start
        /\ s.counts = loc.counts /\ s.estab = estab /\ s.queued = more
        /\ s.unconn = loc.unconn /\ s.tcpOnly = loc.tcpOnly
    BY <1>2, <2>1 DEF HasLocals, NetstatLocals
  <2>3. s.queued \in BOOLEAN /\ s.unconn \in BOOLEAN /\ s.tcpOnly \in BOOLEAN
    BY <1>3, <1>4, <2>2, Zenon
  <2>4. ~StateFirst(row, "UDP") /\ ~StateFirst(row, "LISTEN")
    BY <1>9 DEF StateFirst
  <2>5. s.queued <=> loc.queued \/ row \in Queues
    BY <1>3, <1>7, <2>2
  <2>6. /\ s.unconn <=> loc.unconn \/ row \in OfState("UDP")
        /\ s.tcpOnly <=> loc.tcpOnly \/ row \in OfState("LISTEN")
    BY <1>6, <2>2, <2>4
  <2>7. /\ \A b \in Buckets : s.counts[b] = IF row \in OfBucket(b) THEN loc.counts[b] + 1 ELSE loc.counts[b]
        /\ s.estab = IF row \in Estabs THEN loc.estab + 1 ELSE loc.estab
        /\ s.counts \in [Buckets -> Nat]
    BY <1>4, <1>6, <1>9, <2>2
  <2>8. Takes(row, s)
    BY <2>2, <2>3, <2>5, <2>6, <2>7, Zenon DEF Takes
  <2> QED
    BY <1>5, <2>8, PollTakes
<1>10. CASE ~StateFirst(row, "ESTABLISHED")
  <2> PICK counts : counts = [e.counts EXCEPT ![row.bucket] = @ + 1]
    OBVIOUS
  <2> PICK unconn : unconn = (e.unconn \/ StateFirst(row, "UDP"))
    OBVIOUS
  <2> PICK tcpOnly : tcpOnly = (e.tcpOnly \/ StateFirst(row, "LISTEN"))
    OBVIOUS
  <2>1. s = [e EXCEPT !.counts = counts, !.unconn = unconn, !.tcpOnly = tcpOnly]
    BY <1>1, <1>10, Zenon DEF CountSocket
  <2>2. /\ HasLocals(s) /\ s.pending = loc.pending /\ s.open = TRUE /\ s.at = IF loc.open THEN loc.at ELSE start
        /\ s.counts = counts /\ s.estab = loc.estab /\ s.queued = more
        /\ s.unconn = unconn /\ s.tcpOnly = tcpOnly
    <3>1. HasLocals(e)
      BY <1>2
    <3>2. HasLocals(s) /\ s.pending = e.pending /\ s.open = e.open /\ s.at = e.at
      BY <2>1, <3>1 DEF HasLocals, NetstatLocals
    <3>3. /\ s.counts = counts /\ s.estab = e.estab /\ s.queued = e.queued
          /\ s.unconn = unconn /\ s.tcpOnly = tcpOnly
      BY <2>1, <3>1 DEF HasLocals, NetstatLocals
    <3> QED
      BY <1>2, <3>2, <3>3, Zenon
  <2>3. counts \in [Buckets -> Nat] /\ \A b \in Buckets : counts[b] = IF row.bucket = b THEN loc.counts[b] + 1 ELSE loc.counts[b]
    BY <1>2, <1>4, <1>5
  <2>4. /\ unconn \in BOOLEAN /\ tcpOnly \in BOOLEAN
        /\ unconn <=> loc.unconn \/ StateFirst(row, "UDP")
        /\ tcpOnly <=> loc.tcpOnly \/ StateFirst(row, "LISTEN")
    BY <1>2, <1>4, Zenon DEF StateFirst
  <2>5. s.queued \in BOOLEAN /\ s.unconn \in BOOLEAN /\ s.tcpOnly \in BOOLEAN
    BY <1>3, <2>2, <2>4, Zenon
  <2>6. \A b \in Buckets : s.counts[b] = IF row \in OfBucket(b) THEN loc.counts[b] + 1 ELSE loc.counts[b]
    BY <1>6, <1>10, <2>2, <2>3
  <2>7. s.queued <=> loc.queued \/ row \in Queues
    BY <1>3, <1>7, <2>2
  <2>8. /\ s.unconn <=> loc.unconn \/ row \in OfState("UDP")
        /\ s.tcpOnly <=> loc.tcpOnly \/ row \in OfState("LISTEN")
    BY <1>6, <2>2, <2>4
  <2>9. s.estab = (IF row \in Estabs THEN loc.estab + 1 ELSE loc.estab) /\ s.counts \in [Buckets -> Nat]
    BY <1>6, <1>10, <2>2, <2>3
  <2>10. Takes(row, s)
    BY <2>2, <2>5, <2>6, <2>7, <2>8, <2>9, Zenon DEF Takes
  <2> QED
    BY <1>5, <2>10, PollTakes
<1> QED
  BY <1>9, <1>10

\* The invariant is kept by every line and by the end of the file.
LEMMA NetstatStep == NetstatInv /\ [Next]_parserVars => NetstatInv'
<1> SUFFICES ASSUME NetstatInv, [Next]_parserVars, kind' = "netstat" PROVE NetstatInv'
  BY DEF NetstatInv
<1>1. kind = "netstat"
  BY KindStays
<1> PICK p : NetstatIs(read, loc, p, start)
  BY <1>1 DEF NetstatInv
<1>2. start \in Nat /\ read \in Seq(NetstatLines) /\ IsNetstat(loc)
  BY <1>1 DEF NetstatInv
<1>3. ASSUME NEW l \in NetstatLines, NEW s, NEW q, NEW d, Line("netstat", l, s, d),
             IsNetstat(s), NetstatIs(Append(read, l), s, q, start)
      PROVE  NetstatInv'
  <2>1. /\ result.state = "reading" /\ result' = result /\ start' = start
        /\ read' = Append(read, l) /\ loc' = s
    BY <1>3, LineFacts
  <2>2. Append(read, l) \in Seq(NetstatLines)
    BY <1>2, <1>3, OneMore
  <2> QED
    BY <1>2, <1>3, <2>1, <2>2 DEF NetstatInv
<1>4. CASE UNCHANGED parserVars
  BY <1>1, <1>4 DEF NetstatInv, parserVars, NetstatIs
<1>5. CASE NetstatTS
  <2>1. \E at \in Nat : \E d : Line("netstat", [t |-> "ts", at |-> at],
                                     [FlushPoll EXCEPT !.sawTS = TRUE, !.open = TRUE, !.at = at], d)
    <3>1. PICK good \in BOOLEAN :
            LET at == IF good THEN start + Len(read) + 1 ELSE start IN
            Line("netstat", [t |-> "ts", at |-> at],
                 [FlushPoll EXCEPT !.sawTS = TRUE, !.open = TRUE, !.at = at], IF good THEN None ELSE Warning)
      BY <1>5 DEF NetstatTS
    <3> DEFINE at == IF good THEN start + Len(read) + 1 ELSE start
    <3>2. at \in Nat
      BY <1>2
    <3> QED
      BY <3>1, <3>2
  <2> PICK at \in Nat : \E d : Line("netstat", [t |-> "ts", at |-> at],
                                    [FlushPoll EXCEPT !.sawTS = TRUE, !.open = TRUE, !.at = at], d)
    BY <2>1
  <2> DEFINE l == [t |-> "ts", at |-> at]
             s == [FlushPoll EXCEPT !.sawTS = TRUE, !.open = TRUE, !.at = at]
  <2>2. l \in NetstatLines /\ l.t = "ts" /\ l.at = at
    BY NetstatClasses
  <2>3. s = [FlushPoll EXCEPT !.sawTS = TRUE, !.open = TRUE, !.at = l.at]
    BY <2>2
  <2>4. \E d : Line("netstat", l, s, d)
    OBVIOUS
  <2> HIDE DEF l, s
  <2>5. IsNetstat(s) /\ NetstatIs(Append(read, l), s, Len(read) + 1, start)
    BY <1>2, <2>2, <2>3, PollBegins
  <2> QED
    BY <1>3, <2>2, <2>4, <2>5
<1>6. CASE NetstatSocket
  BY <1>2, <1>3, <1>6, NetstatClasses, SocketTakes DEF NetstatSocket, Openers
<1>7. CASE NetstatCutRow
  <2> DEFINE l == Of("cut")
  <2> PICK s : s = [EnsurePoll EXCEPT !.queued = TRUE]
    OBVIOUS
  <2>1. Line("netstat", l, s, ImplicitInfo \o Warning)
    BY <1>7 DEF NetstatCutRow
  <2>2. l \in NetstatLines
    BY NetstatClasses
  <2>3. IsNetstat(s) /\ NetstatIs(Append(read, l), s, p, start)
    BY <1>2, CutTakes
  <2> HIDE DEF l
  <2> QED
    BY <1>3, <2>1, <2>2, <2>3
<1>8. CASE NetstatOther
  BY <1>2, <1>3, <1>8, NetstatClasses, PollWaits DEF NetstatOther
<1>9. CASE NetstatEnd
  BY <1>1, <1>9, SocketsReturned
<1>10. NetstatNext \/ UNCHANGED parserVars
  BY <1>1 DEF Next, HostKinds
<1> QED
  BY <1>4, <1>5, <1>6, <1>7, <1>8, <1>9, <1>10 DEF NetstatNext

\* ... and holds before the first.
LEMMA NetstatStarts == Init => NetstatInv
<1> SUFFICES ASSUME Init, kind = "netstat" PROVE NetstatInv
  BY DEF NetstatInv
<1>1. read = <<>> /\ loc = NetstatStart /\ result.state = "reading" /\ start \in Nat
  BY LineAssumption, MinIs DEF StartOf, HostKinds, Init
<1>2. /\ HasLocals(loc) /\ loc.pending = <<>> /\ loc.open = FALSE /\ loc.at = start /\ loc.counts = NoCounts
      /\ loc.estab = 0 /\ loc.queued = FALSE /\ loc.unconn = FALSE /\ loc.tcpOnly = FALSE
  BY <1>1 DEF NetstatStart, HasLocals, NetstatLocals
<1>3. IsNetstat(loc)
  <2>1. NoCounts \in [Buckets -> Nat] /\ <<>> \in Seq(Polls)
    BY DEF NoCounts
  <2>2. loc.open \in BOOLEAN /\ loc.queued \in BOOLEAN /\ loc.unconn \in BOOLEAN /\ loc.tcpOnly \in BOOLEAN
    BY <1>2, Zenon
  <2>3. loc.at \in Nat /\ loc.estab \in Nat
    BY <1>1, <1>2
  <2>4. loc.pending \in Seq(Polls) /\ loc.counts \in [Buckets -> Nat]
    BY <1>2, <2>1, Zenon
  <2> QED
    BY <1>2, <2>2, <2>3, <2>4, Zenon DEF IsNetstat
<1>4. read \in Seq(NetstatLines) /\ Len(read) = 0
  BY <1>1
<1>5. Starters(read) = {0} /\ \A C : Those(read, 0, C) = {}
  BY <1>4 DEF Starters, Those
<1>6. PollsOpened(read) = {} /\ Closed(read, 0) = {}
  BY <1>5 DEF PollsOpened, Closed
<1>7. Lists(loc.pending, Closed(read, 0), AllPolls(read, start))
  BY <1>2, <1>6, FS_EmptySet DEF Lists
<1>8. CountsOf(read, 0) = NoCounts /\ Cardinality(Those(read, 0, Estabs)) = 0 /\ Those(read, 0, Queues) = {}
  BY <1>5, PollBare
<1>9. IsLast(read, "ts", Len(read), 0) /\ \A C : ~Somewhere(read, C)
  BY <1>4 DEF IsLast, Somewhere
<1>10. NetstatIs(read, loc, 0, start)
  BY <1>2, <1>6, <1>7, <1>8, <1>9 DEF NetstatIs
<1> QED
  BY <1>1, <1>3, <1>4, <1>10 DEF NetstatInv

\* The lines of a poll that do not start one.
LEMMA PollLinesAre ==
  ASSUME NEW L, read \in Seq(L), NEW q \in Starters(read), NEW i \in 1..Len(read), read[i].t # "ts"
  PROVE  i \in PollLines(q) <=> i \in q + 1..Len(read) /\ \A k \in q + 1..i : read[k].t # "ts"
<1> DEFINE N == Len(read)
<1>1. N \in Nat /\ q \in 0..N /\ (q > 0 => read[q].t = "ts")
  BY DEF Starters
<1>2. PICK n : n = i - 1
  OBVIOUS
<1>3. n \in Nat /\ n <= N /\ n + 1 = i
  BY <1>2
<1>4. IsLast(read, "ts", n, q) <=> q = LastBefore("ts", i)
  BY <1>3, LastIs
<1>5. IsLast(read, "ts", n, q) <=> q \in 0..n /\ \A k \in q + 1..n : read[k].t # "ts"
  BY <1>1 DEF IsLast
<1>6. i \in PollLines(q) <=> i \in q + 1..N /\ LastBefore("ts", i) = q
  BY DEF PollLines
<1>7. i \in q + 1..N <=> q \in 0..n
  BY <1>1, <1>3
<1>8. \A k : k \in q + 1..i <=> k \in q + 1..n \/ (k = i /\ i \in q + 1..N)
  BY <1>1, <1>3
<1>9. (\A k \in q + 1..i : read[k].t # "ts") <=> \A k \in q + 1..n : read[k].t # "ts"
  BY <1>8
<1> QED
  BY <1>4, <1>5, <1>6, <1>7, <1>9

\* What the property calls the rows of a poll, and its queues.
LEMMA RowsAre ==
  ASSUME read \in Seq(NetstatLines)
  PROVE  /\ PollStarts = Starters(read) /\ PollStarts \subseteq Nat
         /\ \A q \in PollStarts : /\ RowsOf(q) = Those(read, q, Sockets) /\ PollAt(q) = TimeOf(read, q, start)
                                  /\ (\E i \in PollLines(q) :
                                        read[i].t = "cut" \/ (read[i].t = "socket" /\ read[i].queued))
                                     <=> Those(read, q, Queues) # {}
         /\ {q \in PollStarts : RowsOf(q) # {}} = Rowed(read)
<1> DEFINE N == Len(read)
<1>1. N \in Nat /\ \A i \in 1..N : read[i] \in NetstatLines
  OBVIOUS
<1>2. PollStarts = Starters(read) /\ PollStarts \subseteq 0..N
  BY <1>1 DEF PollStarts, Starters, Positions
<1>3. ASSUME NEW q \in Starters(read), NEW i \in q + 1..N, read[i].t # "ts"
      PROVE  i \in PollLines(q) <=> \A k \in q + 1..i : read[k].t # "ts"
  <2>1. i \in 1..N
    BY <1>1, <1>2
  <2> QED
    BY <1>3, <2>1, PollLinesAre
<1>4. \A i \in 1..N : /\ read[i] \in Sockets <=> read[i].t = "socket"
                      /\ read[i] \in Queues <=> read[i].t = "cut" \/ (read[i].t = "socket" /\ read[i].queued)
  <2> TAKE i \in 1..N
  <2>1. read[i] \in Sockets <=> read[i].t = "socket"
    BY <1>1, NetstatClasses
  <2>2. read[i] = Of("cut") <=> read[i].t = "cut"
    BY <1>1, NetstatClasses
  <2> QED
    BY <2>1, <2>2 DEF Queues
<1>5. \A q \in Starters(read) : \A i \in PollLines(q) : i \in q + 1..N /\ i \in 1..N
  BY <1>1, <1>2 DEF PollLines
<1>6. \A q \in Starters(read) : \A i \in q + 1..N : i \in 1..N
  BY <1>1, <1>2
<1>7. ASSUME NEW q \in Starters(read) PROVE RowsOf(q) = Those(read, q, Sockets)
  BY <1>3, <1>4, <1>5, <1>6 DEF RowsOf, Those
<1>8. ASSUME NEW q \in Starters(read)
      PROVE  (\E i \in PollLines(q) : read[i].t = "cut" \/ (read[i].t = "socket" /\ read[i].queued))
               <=> Those(read, q, Queues) # {}
  BY <1>3, <1>4, <1>5, <1>6 DEF Those
<1>9. \A q \in PollStarts : PollAt(q) = TimeOf(read, q, start)
  BY DEF PollAt, TimeOf
<1>10. \A q \in Starters(read) : q = 0 /\ Those(read, 0, Sockets) # {} => Those(read, 0, Openers) # {}
  <2>1. Sockets \subseteq Openers
    BY DEF Openers
  <2> QED
    BY <2>1, ThoseWithin
<1>11. {q \in PollStarts : RowsOf(q) # {}} = Rowed(read)
  BY <1>2, <1>7, <1>10 DEF Rowed, PollsOpened
<1> QED
  BY <1>2, <1>7, <1>8, <1>9, <1>11

\* The bucket of a row of ss that waited for the end of the file.
LEMMA BucketIs ==
  ASSUME read \in Seq(NetstatLines), NEW i \in 1..Len(read), read[i] \in Sockets
  PROVE  BucketOf(i) = IF read[i] \in Estabs THEN EstabOf(read) ELSE read[i].bucket
<1> DEFINE shown == {j \in Positions("socket", Len(read)) : read[j].first = "state"}
           states == {read[j].bucket : j \in shown}
<1>1. \A j \in 1..Len(read) : read[j].t = "socket" <=> read[j] \in Sockets
  BY NetstatClasses
<1>2. \A b : b \in states <=> Somewhere(read, OfState(b))
  <2> TAKE b
  <2>1. b \in states <=> \E j \in 1..Len(read) : read[j].t = "socket" /\ read[j].first = "state" /\ read[j].bucket = b
    BY DEF Positions
  <2>2. \A j \in 1..Len(read) : read[j] \in OfState(b) <=>
          read[j].t = "socket" /\ read[j].first = "state" /\ read[j].bucket = b
    BY <1>1 DEF OfState, StateFirst
  <2> QED
    BY <2>1, <2>2 DEF Somewhere
<1> HIDE DEF states
<1>3. BucketOf(i) = IF StateFirst(read[i], "ESTABLISHED") /\ "UDP" \in states /\ "LISTEN" \notin states
                    THEN "UDP" ELSE read[i].bucket
  BY DEF BucketOf, states
<1>4. read[i] \in Estabs <=> StateFirst(read[i], "ESTABLISHED")
  BY DEF Estabs
<1>5. StateFirst(read[i], "ESTABLISHED") => read[i].bucket = "ESTABLISHED"
  BY DEF StateFirst
<1> QED
  BY <1>2, <1>3, <1>4, <1>5 DEF EstabOf

\* A poll's rows, bucket by bucket.
LEMMA BucketsCount ==
  ASSUME read \in Seq(NetstatLines), NEW q \in Nat, NEW b \in Buckets
  PROVE  Cardinality({i \in Those(read, q, Sockets) : BucketOf(i) = b}) =
           [CountsOf(read, q) EXCEPT ![EstabOf(read)] = @ + Cardinality(Those(read, q, Estabs))][b]
<1> DEFINE All == {i \in Those(read, q, Sockets) : BucketOf(i) = b}
           Plain == Those(read, q, OfBucket(b))
           Late == Those(read, q, Estabs)
<1>1. /\ \A row : row \in Sockets <=> row \in Estabs \/ (row \in Sockets /\ row \notin Estabs)
      /\ \A row : row \in OfBucket(b) <=> row \in Sockets /\ row \notin Estabs /\ row.bucket = b
      /\ \A row \in Estabs : row \in Sockets
  BY DEF OfBucket, Estabs
<1>2. \A C : \A i : i \in Those(read, q, C) <=>
        i \in q + 1..Len(read) /\ read[i] \in C /\ \A k \in q + 1..i : read[k].t # "ts"
  BY DEF Those
<1>3. \A i \in Those(read, q, Sockets) : i \in 1..Len(read) /\ read[i] \in Sockets
  BY <1>2, ThoseFinite
<1>4. \A i \in Those(read, q, Sockets) :
        (read[i] \in Estabs => BucketOf(i) = EstabOf(read)) /\ (read[i] \notin Estabs => BucketOf(i) = read[i].bucket)
  BY <1>3, BucketIs
<1>5. \A i : /\ i \in Plain <=> i \in Those(read, q, Sockets) /\ read[i] \notin Estabs /\ read[i].bucket = b
             /\ i \in Late <=> i \in Those(read, q, Sockets) /\ read[i] \in Estabs
  BY <1>1, <1>2
<1>6. IsFiniteSet(Plain) /\ IsFiniteSet(Late) /\ Cardinality(Plain) \in Nat /\ Cardinality(Late) \in Nat
  BY ThoseFinite
<1>7. EstabOf(read) \in Buckets /\ CountsOf(read, q)[b] = Cardinality(Plain) /\ DOMAIN CountsOf(read, q) = Buckets
  BY DEF EstabOf, Buckets, CountsOf
<1> HIDE DEF Plain, Late
<1>8. CASE EstabOf(read) = b
  <2>1. All = Plain \cup Late
    BY <1>8, <1>4, <1>5
  <2>2. Plain \cap Late = {}
    BY <1>5
  <2>3. Cardinality(Plain \cup Late) = Cardinality(Plain) + Cardinality(Late)
    <3>1. Cardinality(Plain \cup Late) = Cardinality(Plain) + Cardinality(Late) - Cardinality(Plain \cap Late)
      BY <1>6, FS_Union, Zenon
    <3>2. Cardinality(Plain \cap Late) = 0
      BY <2>2, FS_EmptySet, Zenon
    <3> QED
      BY <1>6, <3>1, <3>2
  <2>4. [CountsOf(read, q) EXCEPT ![EstabOf(read)] = @ + Cardinality(Late)][b] = Cardinality(Plain) + Cardinality(Late)
    BY <1>7, <1>8
  <2> QED
    BY <2>1, <2>3, <2>4 DEF Late
<1>9. CASE EstabOf(read) # b
  BY <1>4, <1>5, <1>7, <1>9 DEF Late
<1> QED
  BY <1>8, <1>9

\* The first half of the property: what the samples of the sockets are.
LEMMA SocketsCounted ==
  ASSUME NetstatInv, kind = "netstat", result.state = "data"
  PROVE  LET ps == Sorted({p \in PollStarts : RowsOf(p) # {}}) IN
         result.data =
           [n \in DOMAIN ps |->
              [at |-> PollAt(ps[n]),
               queued |-> \E i \in PollLines(ps[n]) :
                            read[i].t = "cut" \/ (read[i].t = "socket" /\ read[i].queued),
               counts |-> [b \in Buckets |-> Cardinality({i \in RowsOf(ps[n]) : BucketOf(i) = b})]]]
<1> DEFINE R == Rowed(read)
           ps == Sorted(R)
           sample(q) == [at |-> PollAt(q),
                         queued |-> \E i \in PollLines(q) :
                                      read[i].t = "cut" \/ (read[i].t = "socket" /\ read[i].queued),
                         counts |-> [b \in Buckets |-> Cardinality({i \in RowsOf(q) : BucketOf(i) = b})]]
<1>1. /\ read \in Seq(NetstatLines)
      /\ result.data = [n \in 1..Cardinality(R) |-> SocketSample(read, ps[n], start)]
  BY DEF NetstatInv
<1>2. {p \in PollStarts : RowsOf(p) # {}} = R /\ R \subseteq PollStarts /\ PollStarts \subseteq Nat
  BY <1>1, RowsAre
<1>3. DOMAIN ps = 1..Cardinality(R) /\ \A n \in 1..Cardinality(R) : ps[n] \in R
  <2>1. R \subseteq 0..Len(read) /\ Len(read) \in Nat
    BY <1>1 DEF Rowed, PollsOpened, Starters
  <2>2. IsFiniteSet(R)
    <3>1. IsFiniteSet(0..Len(read))
      BY <2>1, FS_Interval
    <3> HIDE DEF R
    <3> QED
      BY <2>1, <3>1, FS_Subset, Zenon
  <2>3. R \in SUBSET Nat
    BY <1>2
  <2> HIDE DEF R
  <2> QED
    BY <2>2, <2>3, RankIs
<1>4. ASSUME NEW q \in PollStarts PROVE sample(q) = SocketSample(read, q, start)
  <2>1. /\ RowsOf(q) = Those(read, q, Sockets) /\ PollAt(q) = TimeOf(read, q, start) /\ q \in Nat
        /\ (\E i \in PollLines(q) : read[i].t = "cut" \/ (read[i].t = "socket" /\ read[i].queued))
             <=> Those(read, q, Queues) # {}
    BY <1>1, <1>2, RowsAre
  <2> DEFINE counts == [b \in Buckets |-> Cardinality({i \in RowsOf(q) : BucketOf(i) = b})]
             summed == [CountsOf(read, q) EXCEPT ![EstabOf(read)] = @ + Cardinality(Those(read, q, Estabs))]
  <2>2. counts = summed
    <3>1. \A b \in Buckets : counts[b] = summed[b]
      BY <1>1, <2>1, BucketsCount
    <3>2. DOMAIN summed = Buckets
      BY DEF CountsOf
    <3>3. summed = [b \in Buckets |-> summed[b]]
      BY <3>2
    <3> HIDE DEF summed
    <3> QED
      BY <3>1, <3>3
  <2>3. (\E i \in PollLines(q) : read[i].t = "cut" \/ (read[i].t = "socket" /\ read[i].queued))
          = (Those(read, q, Queues) # {})
    BY <2>1, Zenon
  <2> HIDE DEF counts, summed
  <2> QED
    BY <2>1, <2>2, <2>3 DEF SocketSample, counts, summed
<1> HIDE DEF R, sample
<1>5. result.data = [n \in DOMAIN ps |-> sample(ps[n])]
  BY <1>1, <1>2, <1>3, <1>4
<1> QED
  BY <1>2, <1>5, Zenon DEF sample

-----------------------------------------------------------------------------
\* parseNetstatS: the section that the first n lines leave open, and the lines of a poll
\* that show the counter c of section s.
CounterLines ==
  {Of("bad")} \cup [t : {"ts"}, at : Nat] \cup [t : {"section"}, name : Sections \cup {""}]
    \cup [t : {"counter"}, label : Counters, v : Tallies]

IsSection(rd, n, s) ==
  \E h, p : IsLast(rd, "section", n, h) /\ IsLast(rd, "ts", n, p) /\ s = IF h > p THEN rd[h].name ELSE ""
Labelled(c) == {l \in CounterLines : l.t = "counter" /\ l.label = c}
Showing(rd, q, s, c) == {i \in Those(rd, q, Labelled(c)) : IsSection(rd, i - 1, s)}

Names(rd, q) == {nm \in Known \X Counters : Showing(rd, q, nm[1], nm[2]) # {}}
ValsOf(rd, q) == [nm \in Names(rd, q) |-> rd[Max(Showing(rd, q, nm[1], nm[2]))].v]
CountersOfPoll(rd, q, first) == [at |-> TimeOf(rd, q, first), vals |-> ValsOf(rd, q)]
AllCounters(rd, first) == [q \in Nat |-> CountersOfPoll(rd, q, first)]
Counted(rd) == {q \in Starters(rd) : Names(rd, q) # {}}
CountedBefore(rd, p) == {q \in Counted(rd) : q < p}

\* There is one last line of a class.
LEMMA LastIsOne ==
  ASSUME NEW rd, NEW t, NEW n \in Nat, NEW g, NEW h, IsLast(rd, t, n, g), IsLast(rd, t, n, h)
  PROVE  g = h
BY DEF IsLast

\* The section, as lines are read.
LEMMA SectionAppend ==
  ASSUME NEW L, NEW rd \in Seq(L), NEW l \in L
  PROVE  /\ \A n \in 0..Len(rd) : \A s : IsSection(Append(rd, l), n, s) <=> IsSection(rd, n, s)
         /\ \A n \in 0..Len(rd) : \A s, r : IsSection(rd, n, s) /\ IsSection(rd, n, r) => s = r
         /\ \A s : IsSection(rd, Len(rd), s) =>
              /\ l.t \notin {"ts", "section"} => IsSection(Append(rd, l), Len(rd) + 1, s)
              /\ l.t = "section" => IsSection(Append(rd, l), Len(rd) + 1, l.name)
              /\ l.t = "ts" => IsSection(Append(rd, l), Len(rd) + 1, "")
<1> DEFINE r2 == Append(rd, l)
           N == Len(rd)
<1>1. /\ N \in Nat /\ Len(r2) = N + 1 /\ r2[N + 1] = l /\ \A i \in 1..N : r2[i] = rd[i]
  OBVIOUS
<1> HIDE DEF r2, N
<1>2. \A t : \A n \in 0..N : \A h : IsLast(r2, t, n, h) <=> IsLast(rd, t, n, h)
  BY LastAppend DEF r2, N
<1>3. ASSUME NEW n \in 0..N, NEW s PROVE IsSection(r2, n, s) <=> IsSection(rd, n, s)
  <2>1. \A h, p : IsLast(r2, "section", n, h) /\ IsLast(r2, "ts", n, p) <=>
                  IsLast(rd, "section", n, h) /\ IsLast(rd, "ts", n, p)
    BY <1>2
  <2>2. ASSUME NEW h, NEW p, IsLast(rd, "section", n, h), IsLast(rd, "ts", n, p), h > p PROVE r2[h].name = rd[h].name
    BY <1>1, <2>2 DEF IsLast
  <2> QED
    BY <2>1, <2>2 DEF IsSection
<1>4. ASSUME NEW n \in 0..N, NEW s, NEW r, IsSection(rd, n, s), IsSection(rd, n, r) PROVE s = r
  <2>1. n \in Nat
    BY <1>1
  <2> QED
    BY <1>4, <2>1, LastIsOne DEF IsSection
<1>5. ASSUME NEW t, NEW h, IsLast(rd, t, N, h)
      PROVE  /\ l.t = t => IsLast(r2, t, N + 1, N + 1)
             /\ l.t # t => IsLast(r2, t, N + 1, h)
  BY <1>5, LastAppend DEF r2, N
<1>6. \A i \in 0..N : ~(i > N + 1) /\ N + 1 > i
  BY <1>1
<1>7. \A h, p \in 0..N : h > p => h \in 1..N
  BY <1>1
<1>8. ASSUME NEW s, IsSection(rd, N, s)
      PROVE  /\ l.t \notin {"ts", "section"} => IsSection(r2, N + 1, s)
             /\ l.t = "section" => IsSection(r2, N + 1, l.name)
             /\ l.t = "ts" => IsSection(r2, N + 1, "")
  <2> PICK h, p : IsLast(rd, "section", N, h) /\ IsLast(rd, "ts", N, p) /\ s = IF h > p THEN rd[h].name ELSE ""
    BY <1>8 DEF IsSection
  <2>1. h \in 0..N /\ p \in 0..N
    BY DEF IsLast
  <2>2. ~(h > N + 1) /\ N + 1 > p
    BY <2>1, <1>6
  <2>3. h > p => r2[h] = rd[h]
    <3>1. h > p => h \in 1..N
      BY <1>7, <2>1
    <3> QED
      BY <1>1, <3>1
  <2>4. CASE l.t \notin {"ts", "section"}
    BY <1>5, <2>3, <2>4 DEF IsSection
  <2>5. CASE l.t = "section"
    BY <1>1, <1>5, <2>2, <2>5 DEF IsSection
  <2>6. CASE l.t = "ts"
    BY <1>5, <2>2, <2>6 DEF IsSection
  <2> QED
    BY <2>4, <2>5, <2>6
<1> QED
  BY <1>3, <1>4, <1>8 DEF r2, N

\* One more line is one more of the counter that it shows, in the poll in progress.
LEMMA ShowingAppend ==
  ASSUME NEW rd \in Seq(CounterLines), NEW l \in CounterLines, NEW p, IsLast(rd, "ts", Len(rd), p),
         NEW sec, IsSection(rd, Len(rd), sec), NEW s, NEW c
  PROVE  /\ \A q \in 0..p : q # p \/ l.t # "counter" => Showing(Append(rd, l), q, s, c) = Showing(rd, q, s, c)
         /\ l.t = "counter" /\ s = sec /\ c = l.label =>
              Showing(Append(rd, l), p, s, c) = Showing(rd, p, s, c) \cup {Len(rd) + 1}
         /\ s # sec \/ c # l.label => Showing(Append(rd, l), p, s, c) = Showing(rd, p, s, c)
         /\ Showing(Append(rd, l), Len(rd) + 1, s, c) = {}
         /\ \A q \in Nat : Showing(rd, q, s, c) \in SUBSET (1..Len(rd))
<1> DEFINE r2 == Append(rd, l)
           N == Len(rd)
           C == Labelled(c)
           Sec(i) == IsSection(rd, i - 1, s)
           Sec2(i) == IsSection(r2, i - 1, s)
<1>1. N \in Nat /\ N + 1 - 1 = N /\ \A i \in 1..N : i - 1 \in 0..N
  OBVIOUS
<1>2. l \in C <=> l.t = "counter" /\ c = l.label
  BY DEF Labelled
<1>3. /\ p \in 0..N /\ p \in 0..p
      /\ l.t # "ts" /\ l \in C => Those(r2, p, C) = Those(rd, p, C) \cup {N + 1}
      /\ \A q \in 0..p : l.t = "ts" \/ q # p \/ l \notin C => Those(r2, q, C) = Those(rd, q, C)
      /\ Those(r2, N + 1, C) = {}
  BY ThoseAppend
<1>4. \A q \in Nat : Those(rd, q, C) \in SUBSET (1..N)
  BY ThoseFinite
<1>5. \A i \in 1..N : Sec2(i) <=> Sec(i)
  <2>1. \A n \in 0..N : IsSection(r2, n, s) <=> IsSection(rd, n, s)
    BY SectionAppend
  <2> QED
    BY <1>1, <2>1
<1>6. Sec2(N + 1) <=> s = sec
  <2>1. N \in 0..N
    BY <1>1
  <2>2. IsSection(r2, N, s) <=> IsSection(rd, N, s)
    BY <2>1, SectionAppend
  <2>3. IsSection(rd, N, s) => s = sec
    BY <2>1, SectionAppend
  <2>4. Sec2(N + 1) <=> IsSection(r2, N, s)
    BY <1>1
  <2> QED
    BY <2>2, <2>3, <2>4
<1>7. \A q : /\ Showing(rd, q, s, c) = {i \in Those(rd, q, C) : Sec(i)}
             /\ Showing(r2, q, s, c) = {i \in Those(r2, q, C) : Sec2(i)}
  BY DEF Showing
<1> HIDE DEF r2, N, C, Sec, Sec2
<1>8. ASSUME NEW q \in 0..p, q # p \/ l.t # "counter" PROVE Showing(r2, q, s, c) = Showing(rd, q, s, c)
  <2>1. Those(r2, q, C) = Those(rd, q, C) /\ Those(rd, q, C) \in SUBSET (1..N)
    BY <1>2, <1>3, <1>4, <1>8
  <2> QED
    BY <1>5, <1>7, <2>1
<1>9. ASSUME l.t = "counter", s = sec, c = l.label PROVE Showing(r2, p, s, c) = Showing(rd, p, s, c) \cup {N + 1}
  <2>1. Those(r2, p, C) = Those(rd, p, C) \cup {N + 1} /\ Those(rd, p, C) \in SUBSET (1..N)
    BY <1>1, <1>2, <1>3, <1>4, <1>9
  <2>2. Sec2(N + 1)
    BY <1>6, <1>9
  <2> QED
    BY <1>5, <1>7, <2>1, <2>2
<1>10. ASSUME s # sec \/ c # l.label PROVE Showing(r2, p, s, c) = Showing(rd, p, s, c)
  <2>1. Those(rd, p, C) \in SUBSET (1..N)
    BY <1>1, <1>3, <1>4
  <2>2. CASE l \in C
    <3>1. s # sec /\ l.t # "ts"
      BY <1>2, <1>10, <2>2
    <3>2. Those(r2, p, C) = Those(rd, p, C) \cup {N + 1}
      BY <1>3, <2>2, <3>1
    <3>3. ~Sec2(N + 1)
      BY <1>6, <3>1
    <3> QED
      BY <1>5, <1>7, <2>1, <3>2, <3>3
  <2>3. CASE l \notin C
    BY <1>3, <1>5, <1>7, <2>1, <2>3
  <2> QED
    BY <2>2, <2>3
<1>11. Showing(r2, N + 1, s, c) = {}
  BY <1>3, <1>7
<1>12. \A q \in Nat : Showing(rd, q, s, c) \in SUBSET (1..N)
  BY <1>4, <1>7
<1> QED
  BY <1>8, <1>9, <1>10, <1>11, <1>12 DEF r2, N

\* What counters showed is not changed by a line that shows none, or later.
LEMMA ValsStay ==
  ASSUME NEW rd \in Seq(CounterLines), NEW l \in CounterLines, NEW p, IsLast(rd, "ts", Len(rd), p),
         NEW sec, IsSection(rd, Len(rd), sec), NEW q \in 0..p, q # p \/ l.t # "counter" \/ sec \notin Known
  PROVE  Names(Append(rd, l), q) = Names(rd, q) /\ ValsOf(Append(rd, l), q) = ValsOf(rd, q)
<1> DEFINE r2 == Append(rd, l)
           N == Len(rd)
<1>1. /\ N \in Nat /\ p \in 0..N /\ q \in Nat /\ \A i \in 1..N : r2[i] = rd[i]
  <2>1. p \in 0..N
    BY DEF IsLast
  <2> QED
    BY <2>1, OneMore
<1>2. ASSUME NEW nm \in Known \X Counters
      PROVE  /\ Showing(r2, q, nm[1], nm[2]) = Showing(rd, q, nm[1], nm[2])
             /\ Showing(rd, q, nm[1], nm[2]) \in SUBSET (1..N)
  BY <1>1, ShowingAppend
<1>3. Names(r2, q) = Names(rd, q)
  BY <1>2 DEF Names
<1>4. ASSUME NEW nm \in Names(rd, q)
      PROVE  r2[Max(Showing(r2, q, nm[1], nm[2]))].v = rd[Max(Showing(rd, q, nm[1], nm[2]))].v
  <2> DEFINE T == Showing(rd, q, nm[1], nm[2])
  <2>1. nm \in Known \X Counters /\ T # {}
    BY DEF Names
  <2>2. Showing(r2, q, nm[1], nm[2]) = T /\ T \in SUBSET (1..N)
    BY <1>2, <2>1
  <2> HIDE DEF T
  <2>3. T \in SUBSET (0..N)
    BY <1>1, <2>2
  <2>4. Max(T) \in T
    BY <1>1, <2>1, <2>3, Greatest
  <2>5. r2[Max(T)] = rd[Max(T)]
    BY <1>1, <2>2, <2>4
  <2> QED
    BY <2>2, <2>5 DEF T
<1>5. ValsOf(r2, q) = ValsOf(rd, q)
  <2> DEFINE f2 == [nm \in Names(r2, q) |-> r2[Max(Showing(r2, q, nm[1], nm[2]))].v]
             f == [nm \in Names(rd, q) |-> rd[Max(Showing(rd, q, nm[1], nm[2]))].v]
  <2>1. f2 = f
    BY <1>3, <1>4
  <2> QED
    BY <2>1, Zenon DEF ValsOf
<1> QED
  BY <1>3, <1>5

\* A counter of interest has its value from its last line.
LEMMA ValsGrow ==
  ASSUME NEW rd \in Seq(CounterLines), NEW p, IsLast(rd, "ts", Len(rd), p),
         NEW sec \in Known, IsSection(rd, Len(rd), sec), NEW c \in Counters, NEW v \in Tallies,
         NEW l \in CounterLines, l.t = "counter", l.label = c, l.v = v
  PROVE  ValsOf(Append(rd, l), p) = With(ValsOf(rd, p), <<sec, c>>, v)
<1> DEFINE r2 == Append(rd, l)
           N == Len(rd)
           new == <<sec, c>>
<1>1. l \in CounterLines /\ l.t = "counter" /\ l.label = c /\ l.v = v
  OBVIOUS
<1>2. /\ N \in Nat /\ p \in 0..N /\ p \in Nat /\ \A i \in 1..N : r2[i] = rd[i]
      /\ r2[N + 1] = l
  <2>1. p \in 0..N
    BY DEF IsLast
  <2> QED
    BY <1>1, <2>1, OneMore
<1>3. ASSUME NEW nm \in Known \X Counters
      PROVE  /\ nm # new => Showing(r2, p, nm[1], nm[2]) = Showing(rd, p, nm[1], nm[2])
             /\ nm = new => Showing(r2, p, nm[1], nm[2]) = Showing(rd, p, nm[1], nm[2]) \cup {N + 1}
             /\ Showing(rd, p, nm[1], nm[2]) \in SUBSET (1..N)
  <2>1. nm = <<nm[1], nm[2]>>
    OBVIOUS
  <2>2. nm # new => nm[1] # sec \/ nm[2] # l.label
    BY <1>1, <2>1
  <2>3. nm = new => nm[1] = sec /\ nm[2] = l.label
    BY <1>1
  <2>4. nm # new => Showing(r2, p, nm[1], nm[2]) = Showing(rd, p, nm[1], nm[2])
    BY <1>1, <2>2, ShowingAppend
  <2>5. nm = new => Showing(r2, p, nm[1], nm[2]) = Showing(rd, p, nm[1], nm[2]) \cup {N + 1}
    BY <1>1, <2>3, ShowingAppend
  <2>6. Showing(rd, p, nm[1], nm[2]) \in SUBSET (1..N)
    BY <1>1, <1>2, ShowingAppend
  <2> QED
    BY <2>4, <2>5, <2>6
<1>4. new \in Known \X Counters
  OBVIOUS
<1> HIDE DEF new
<1>5. Names(r2, p) = Names(rd, p) \cup {new}
  BY <1>3, <1>4 DEF Names
<1>6. ASSUME NEW nm \in Names(rd, p), nm # new
      PROVE  r2[Max(Showing(r2, p, nm[1], nm[2]))].v = rd[Max(Showing(rd, p, nm[1], nm[2]))].v
  <2> DEFINE T == Showing(rd, p, nm[1], nm[2])
  <2>1. nm \in Known \X Counters /\ T # {}
    BY DEF Names
  <2>2. Showing(r2, p, nm[1], nm[2]) = T /\ T \in SUBSET (1..N)
    BY <1>3, <1>6, <2>1
  <2> HIDE DEF T
  <2>3. T \in SUBSET (0..N)
    BY <1>2, <2>2
  <2>4. Max(T) \in T
    BY <1>2, <2>1, <2>3, Greatest
  <2>5. r2[Max(T)] = rd[Max(T)]
    BY <1>2, <2>2, <2>4
  <2> QED
    BY <2>2, <2>5 DEF T
<1>7. r2[Max(Showing(r2, p, new[1], new[2]))].v = v
  <2> DEFINE T == Showing(r2, p, new[1], new[2])
  <2>1. T = Showing(rd, p, new[1], new[2]) \cup {N + 1} /\ Showing(rd, p, new[1], new[2]) \in SUBSET (1..N)
    BY <1>3, <1>4
  <2>2. N + 1 \in T /\ T \subseteq Nat /\ \A x \in T : x <= N + 1
    BY <1>2, <2>1
  <2> HIDE DEF T
  <2>3. Max(T) = N + 1
    BY <2>2, MaxIs
  <2> QED
    BY <1>1, <1>2, <2>3 DEF T
<1>8. ValsOf(r2, p) = With(ValsOf(rd, p), new, v)
  <2> DEFINE val2(nm) == r2[Max(Showing(r2, p, nm[1], nm[2]))].v
             val(nm) == rd[Max(Showing(rd, p, nm[1], nm[2]))].v
             f == [nm \in Names(rd, p) |-> val(nm)]
  <2>1. ValsOf(r2, p) = [nm \in Names(r2, p) |-> val2(nm)] /\ ValsOf(rd, p) = f
    BY DEF ValsOf
  <2>2. (\A nm \in Names(rd, p) : nm # new => val2(nm) = val(nm)) /\ val2(new) = v
    BY <1>6, <1>7
  <2> HIDE DEF val, val2
  <2>3. [nm \in Names(r2, p) |-> val2(nm)] = [nm \in Names(rd, p) \cup {new} |-> IF nm = new THEN v ELSE f[nm]]
    BY <1>5, <2>2
  <2>4. DOMAIN f = Names(rd, p)
    OBVIOUS
  <2>5. With(f, new, v) = [nm \in Names(rd, p) \cup {new} |-> IF nm = new THEN v ELSE f[nm]]
    BY <2>4, Zenon DEF With
  <2> HIDE DEF f
  <2> QED
    BY <2>1, <2>3, <2>5
<1> QED
  BY <1>8 DEF new

CounterLocals == {"samples", "open", "at", "vals", "section", "sawTS", "implicit"}
HasCounterLocals(lo) == lo = [f \in CounterLocals |-> lo[f]]
IsNetstatS(lo) ==
  HasCounterLocals(lo) /\ lo.open \in BOOLEAN /\ lo.at \in Nat /\ \E X : lo.samples \in Seq(X)

\* The poll in progress started at line p.
NetstatSIs(rd, lo, p, first) ==
  /\ IsLast(rd, "ts", Len(rd), p)
  /\ IsSection(rd, Len(rd), lo.section)
  /\ Lists(lo.samples, CountedBefore(rd, p), AllCounters(rd, first))
  /\ lo.vals = ValsOf(rd, p)
  /\ lo.at = TimeOf(rd, p, first)
  /\ p # 0 => lo.open

NetstatSInv ==
  kind = "netstat_s" =>
    /\ start \in Nat /\ read \in Seq(CounterLines) /\ IsNetstatS(loc)
    /\ \E p : NetstatSIs(read, loc, p, start)
    /\ result.state = "data" =>
         result.data = [n \in 1..Cardinality(Counted(read)) |-> CountersOfPoll(read, Sorted(Counted(read))[n], start)]

\* The lines of netstat -s, class by class.
LEMMA CounterClasses ==
  /\ Of("bad") \in CounterLines /\ Of("bad").t = "bad"
  /\ \A at \in Nat : [t |-> "ts", at |-> at] \in CounterLines
  /\ \A s \in Sections \cup {""} : [t |-> "section", name |-> s] \in CounterLines
  /\ \A c \in Counters, v \in Tallies : [t |-> "counter", label |-> c, v |-> v] \in CounterLines
  /\ \A l \in CounterLines : l.t = "counter" => l.label \in Counters
<1>1. Of("bad") \in CounterLines /\ Of("bad").t = "bad"
  BY DEF CounterLines, Of
<1>2. /\ \A at \in Nat : [t |-> "ts", at |-> at] \in CounterLines
      /\ \A s \in Sections \cup {""} : [t |-> "section", name |-> s] \in CounterLines
  BY DEF CounterLines
<1>3. \A c \in Counters, v \in Tallies : [t |-> "counter", label |-> c, v |-> v] \in CounterLines
  BY DEF CounterLines
<1>4. ASSUME NEW l \in CounterLines, l.t = "counter" PROVE l.label \in Counters
  BY <1>1, <1>4 DEF CounterLines
<1> QED
  BY <1>1, <1>2, <1>3, <1>4

\* Samples are kept for the polls before the one in progress, and then for all.
LEMMA CountersFlushed ==
  ASSUME IsNetstatS(loc), NEW rd \in Seq(CounterLines), NEW p, NEW first, NetstatSIs(rd, loc, p, first),
         NEW o, o = FlushCounters
  PROVE  /\ HasCounterLocals(o) /\ (\E X : o.samples \in Seq(X))
         /\ Lists(o.samples, Counted(rd), AllCounters(rd, first)) /\ o.vals = <<>> /\ o.section = ""
<1>1. /\ IsLast(rd, "ts", Len(rd), p) /\ Lists(loc.samples, CountedBefore(rd, p), AllCounters(rd, first))
      /\ loc.vals = ValsOf(rd, p) /\ loc.at = TimeOf(rd, p, first)
  BY DEF NetstatSIs
<1>2. p \in Nat /\ Starters(rd) \subseteq 0..p /\ p \in Starters(rd)
  <2>1. Of("bad") \in CounterLines
    BY CounterClasses
  <2>2. Starters(rd) \subseteq 0..p /\ p \in Starters(rd)
    BY <1>1, <2>1, StartersAppend
  <2>3. p \in 0..Len(rd)
    BY <1>1 DEF IsLast
  <2> QED
    BY <2>2, <2>3
<1>3. loc.vals = <<>> <=> Names(rd, p) = {}
  BY <1>1 DEF ValsOf
<1> DEFINE x == [at |-> loc.at, vals |-> loc.vals]
<1> PICK more : more = IF loc.vals = <<>> THEN loc.samples ELSE Append(loc.samples, x)
  OBVIOUS
<1>4. o = [loc EXCEPT !.samples = more, !.open = FALSE, !.vals = <<>>, !.section = ""]
  BY DEF FlushCounters
<1>5. HasCounterLocals(o) /\ o.samples = more /\ o.vals = <<>> /\ o.section = ""
  <2>1. HasCounterLocals(loc)
    BY DEF IsNetstatS
  <2> QED
    BY <1>4, <2>1 DEF HasCounterLocals, CounterLocals
<1> PICK X : loc.samples \in Seq(X)
  BY DEF IsNetstatS
<1>6. x = CountersOfPoll(rd, p, first) /\ x = AllCounters(rd, first)[p]
  BY <1>1, <1>2 DEF CountersOfPoll, AllCounters
<1>7. /\ \A q \in CountedBefore(rd, p) : q < p
      /\ Names(rd, p) = {} => Counted(rd) = CountedBefore(rd, p)
      /\ Names(rd, p) # {} => Counted(rd) = CountedBefore(rd, p) \cup {p}
  BY <1>2 DEF Counted, CountedBefore
<1> HIDE DEF x
<1>8. CASE loc.vals = <<>>
  BY <1>1, <1>3, <1>5, <1>7, <1>8
<1>9. CASE loc.vals # <<>>
  <2>1. loc.samples \in Seq(X \cup {x}) /\ x \in X \cup {x}
    OBVIOUS
  <2>2. more = Append(loc.samples, x)
    BY <1>9
  <2>3. Append(loc.samples, x) \in Seq(X \cup {x})
    BY <2>1
  <2>4. Lists(Append(loc.samples, x), CountedBefore(rd, p) \cup {p}, AllCounters(rd, first))
    BY <1>1, <1>2, <1>6, <1>7, <2>1, ListsMore
  <2> QED
    BY <1>3, <1>5, <1>7, <1>9, <2>2, <2>3, <2>4
<1> QED
  BY <1>8, <1>9

\* A TS line begins a poll without counters.
LEMMA CountersBegin ==
  ASSUME IsNetstatS(loc), NEW rd \in Seq(CounterLines), NEW p, NEW first, NetstatSIs(rd, loc, p, first),
         NEW l \in CounterLines, l.t = "ts", l.at \in Nat,
         NEW s, s = [FlushCounters EXCEPT !.sawTS = TRUE, !.open = TRUE, !.at = l.at]
  PROVE  IsNetstatS(s) /\ NetstatSIs(Append(rd, l), s, Len(rd) + 1, first)
<1> DEFINE r2 == Append(rd, l)
           N == Len(rd)
<1> PICK o : o = FlushCounters
  OBVIOUS
<1>1. /\ HasCounterLocals(o) /\ (\E X : o.samples \in Seq(X))
      /\ Lists(o.samples, Counted(rd), AllCounters(rd, first)) /\ o.vals = <<>> /\ o.section = ""
  BY CountersFlushed
<1>2. /\ HasCounterLocals(s) /\ s.samples = o.samples /\ s.open = TRUE /\ s.at = l.at
      /\ s.vals = <<>> /\ s.section = ""
  BY <1>1 DEF HasCounterLocals, CounterLocals
<1>3. IsNetstatS(s)
  BY <1>1, <1>2 DEF IsNetstatS
<1>4. IsLast(rd, "ts", N, p) /\ IsSection(rd, N, loc.section) /\ N \in Nat /\ Len(r2) = N + 1
  BY OneMore DEF NetstatSIs
<1>5. /\ Starters(rd) \subseteq 0..p /\ N + 1 > p /\ Starters(r2) = Starters(rd) \cup {N + 1}
      /\ TimeOf(r2, N + 1, first) = l.at /\ IsLast(r2, "ts", N + 1, N + 1) /\ p \in 0..N
      /\ \A q \in Starters(rd) : TimeOf(r2, q, first) = TimeOf(rd, q, first)
  <2>1. p \in 0..N
    BY <1>4 DEF IsLast
  <2> QED
    BY <1>4, <2>1, StartersAppend
<1>6. IsSection(r2, N + 1, "")
  BY <1>4, SectionAppend
<1>7. \A q \in Starters(rd) : Names(r2, q) = Names(rd, q) /\ ValsOf(r2, q) = ValsOf(rd, q)
  <2>1. l.t # "counter"
    OBVIOUS
  <2> QED
    BY <1>4, <1>5, <2>1, ValsStay
<1>8. Names(r2, N + 1) = {}
  <2>1. \A sec, c : Showing(r2, N + 1, sec, c) = {}
    BY <1>4, ShowingAppend
  <2> QED
    BY <2>1 DEF Names
<1> HIDE DEF r2, N
<1>9. ValsOf(r2, N + 1) = <<>>
  BY <1>8 DEF ValsOf
<1>10. Counted(r2) = Counted(rd)
  BY <1>5, <1>7, <1>8 DEF Counted
<1>11. CountedBefore(r2, N + 1) = Counted(rd)
  BY <1>4, <1>5, <1>10 DEF Counted, CountedBefore
<1>12. Lists(s.samples, CountedBefore(r2, N + 1), AllCounters(r2, first))
  <2>1. ASSUME NEW q \in Counted(rd) PROVE AllCounters(r2, first)[q] = AllCounters(rd, first)[q]
    BY <1>4, <1>5, <1>7 DEF Counted, AllCounters, CountersOfPoll
  <2> QED
    BY <1>1, <1>2, <1>11, <2>1 DEF Lists
<1>13. NetstatSIs(r2, s, N + 1, first)
  BY <1>2, <1>4, <1>5, <1>6, <1>9, <1>12 DEF NetstatSIs
<1> QED
  BY <1>3, <1>13, Zenon DEF r2, N

\* Any other line is of the poll in progress.
LEMMA CountersGoOn ==
  ASSUME NEW rd \in Seq(CounterLines), NEW lo, NEW p, NEW first, NetstatSIs(rd, lo, p, first),
         NEW l \in CounterLines, l.t # "ts",
         NEW s, s.samples = lo.samples, s.at = lo.at, p # 0 => s.open,
         IsSection(Append(rd, l), Len(rd) + 1, s.section), s.vals = ValsOf(Append(rd, l), p)
  PROVE  NetstatSIs(Append(rd, l), s, p, first)
<1> DEFINE r2 == Append(rd, l)
           N == Len(rd)
<1>1. /\ IsLast(rd, "ts", N, p) /\ IsSection(rd, N, lo.section) /\ N \in Nat /\ Len(r2) = N + 1
      /\ Lists(lo.samples, CountedBefore(rd, p), AllCounters(rd, first)) /\ lo.at = TimeOf(rd, p, first)
  BY OneMore DEF NetstatSIs
<1>2. /\ Starters(rd) \subseteq 0..p /\ Starters(r2) = Starters(rd) /\ p \in 0..N /\ p \in Starters(rd)
      /\ IsLast(r2, "ts", N + 1, p)
      /\ \A q \in Starters(rd) : TimeOf(r2, q, first) = TimeOf(rd, q, first)
  <2>1. p \in 0..N
    BY <1>1 DEF IsLast
  <2> QED
    BY <1>1, <2>1, StartersAppend
<1>3. \A q \in Starters(rd) : q # p => Names(r2, q) = Names(rd, q) /\ ValsOf(r2, q) = ValsOf(rd, q)
  BY <1>1, <1>2, ValsStay
<1> HIDE DEF r2, N
<1>4. \A q \in Starters(rd) : q \in Nat /\ (q < p => q # p)
  BY <1>1, <1>2
<1>5. CountedBefore(r2, p) = CountedBefore(rd, p)
  BY <1>2, <1>3, <1>4 DEF CountedBefore, Counted
<1>6. Lists(s.samples, CountedBefore(r2, p), AllCounters(r2, first))
  <2>1. ASSUME NEW q \in CountedBefore(rd, p) PROVE AllCounters(r2, first)[q] = AllCounters(rd, first)[q]
    BY <1>2, <1>3, <1>4 DEF Counted, CountedBefore, AllCounters, CountersOfPoll
  <2> QED
    BY <1>1, <1>5, <2>1 DEF Lists
<1> QED
  BY <1>1, <1>2, <1>6 DEF NetstatSIs, r2, N

\* What a counter, or one without a number, does to the locals.
LEMMA CountersEnsured ==
  ASSUME IsNetstatS(loc), start \in Nat, NEW rd, NEW p, NetstatSIs(rd, loc, p, start), NEW e, e = EnsurePoll
  PROVE  /\ IsNetstatS(e) /\ e.samples = loc.samples /\ e.at = loc.at /\ e.open = TRUE
         /\ e.vals = loc.vals /\ e.section = loc.section
BY DEF NetstatSIs, EnsurePoll, IsNetstatS, HasCounterLocals, CounterLocals, TimeOf

LEMMA CounterTakes ==
  ASSUME IsNetstatS(loc), start \in Nat, NEW rd \in Seq(CounterLines), NEW p, NetstatSIs(rd, loc, p, start),
         NEW c \in Counters, NEW v \in Tallies, NEW sec, sec = loc.section,
         NEW l \in CounterLines, l.t = "counter", l.label = c, l.v = v,
         NEW s, s = IF sec \in Known THEN [EnsurePoll EXCEPT !.vals = With(@, <<sec, c>>, v)] ELSE loc
  PROVE  IsNetstatS(s) /\ NetstatSIs(Append(rd, l), s, p, start)
<1> PICK e : e = EnsurePoll
  OBVIOUS
<1> PICK more : more = With(e.vals, <<sec, c>>, v)
  OBVIOUS
<1>1. /\ IsNetstatS(e) /\ e.samples = loc.samples /\ e.at = loc.at /\ e.open = TRUE
      /\ e.vals = loc.vals /\ e.section = loc.section
  BY CountersEnsured
<1>2. l \in CounterLines /\ l.t = "counter" /\ l.label = c /\ l.v = v
  OBVIOUS
<1>3. /\ IsLast(rd, "ts", Len(rd), p) /\ IsSection(rd, Len(rd), sec) /\ loc.vals = ValsOf(rd, p)
      /\ p # 0 => loc.open
  BY DEF NetstatSIs
<1>4. IsSection(Append(rd, l), Len(rd) + 1, sec)
  BY <1>2, <1>3, SectionAppend
<1>5. CASE sec \in Known
  <2>1. s = [e EXCEPT !.vals = more]
    BY <1>5
  <2>2. HasCounterLocals(e)
    BY <1>1 DEF IsNetstatS
  <2>3. /\ HasCounterLocals(s) /\ s.samples = e.samples /\ s.at = e.at /\ s.open = TRUE
        /\ s.vals = more /\ s.section = e.section
    BY <1>1, <2>1, <2>2 DEF HasCounterLocals, CounterLocals
  <2>4. IsNetstatS(s)
    BY <1>1, <2>3 DEF IsNetstatS
  <2>5. ValsOf(Append(rd, l), p) = With(ValsOf(rd, p), <<sec, c>>, v)
    BY <1>2, <1>3, <1>5, ValsGrow
  <2>6. s.vals = ValsOf(Append(rd, l), p)
    BY <1>1, <1>3, <2>3, <2>5
  <2>7. s.samples = loc.samples /\ s.at = loc.at /\ (p # 0 => s.open) /\ l.t # "ts"
    BY <1>1, <1>2, <2>3
  <2>8. IsSection(Append(rd, l), Len(rd) + 1, s.section)
    BY <1>1, <1>4, <2>3
  <2>9. NetstatSIs(Append(rd, l), s, p, start)
    BY <1>2, <2>6, <2>7, <2>8, CountersGoOn
  <2> QED
    BY <2>4, <2>9
<1>6. CASE sec \notin Known
  BY <1>2, <1>3, <1>4, <1>6, ValsStay, CountersGoOn DEF IsLast
<1> QED
  BY <1>5, <1>6

\* The invariant is kept by every line and by the end of the file.
LEMMA NetstatSStep == NetstatSInv /\ [Next]_parserVars => NetstatSInv'
<1> SUFFICES ASSUME NetstatSInv, [Next]_parserVars, kind' = "netstat_s" PROVE NetstatSInv'
  BY DEF NetstatSInv
<1>1. kind = "netstat_s"
  BY KindStays
<1> PICK p : NetstatSIs(read, loc, p, start)
  BY <1>1 DEF NetstatSInv
<1>2. start \in Nat /\ read \in Seq(CounterLines) /\ IsNetstatS(loc)
  BY <1>1 DEF NetstatSInv
<1>3. p \in 0..p
  BY DEF NetstatSIs, IsLast
<1>4. ASSUME NEW l \in CounterLines, NEW s, NEW q, NEW d, Line("netstat_s", l, s, d),
             IsNetstatS(s), NetstatSIs(Append(read, l), s, q, start)
      PROVE  NetstatSInv'
  <2>1. /\ result.state = "reading" /\ result' = result /\ start' = start
        /\ read' = Append(read, l) /\ loc' = s
    BY <1>4, LineFacts
  <2>2. Append(read, l) \in Seq(CounterLines)
    BY <1>2, <1>4, OneMore
  <2> QED
    BY <1>2, <1>4, <2>1, <2>2 DEF NetstatSInv
<1>5. CASE UNCHANGED parserVars
  BY <1>1, <1>5 DEF NetstatSInv, parserVars, NetstatSIs
<1>6. CASE NetstatSTS
  <2>1. \E at \in Nat : \E d : Line("netstat_s", [t |-> "ts", at |-> at],
                                     [FlushCounters EXCEPT !.sawTS = TRUE, !.open = TRUE, !.at = at], d)
    <3>1. PICK good \in BOOLEAN :
            LET at == IF good THEN start + Len(read) + 1 ELSE start IN
            Line("netstat_s", [t |-> "ts", at |-> at],
                 [FlushCounters EXCEPT !.sawTS = TRUE, !.open = TRUE, !.at = at], IF good THEN None ELSE Warning)
      BY <1>6 DEF NetstatSTS
    <3> DEFINE at == IF good THEN start + Len(read) + 1 ELSE start
    <3>2. at \in Nat
      BY <1>2
    <3> QED
      BY <3>1, <3>2
  <2> PICK at \in Nat : \E d : Line("netstat_s", [t |-> "ts", at |-> at],
                                    [FlushCounters EXCEPT !.sawTS = TRUE, !.open = TRUE, !.at = at], d)
    BY <2>1
  <2> DEFINE l == [t |-> "ts", at |-> at]
             s == [FlushCounters EXCEPT !.sawTS = TRUE, !.open = TRUE, !.at = at]
  <2>2. l \in CounterLines /\ l.t = "ts" /\ l.at = at
    BY CounterClasses
  <2>3. s = [FlushCounters EXCEPT !.sawTS = TRUE, !.open = TRUE, !.at = l.at]
    BY <2>2
  <2>4. \E d : Line("netstat_s", l, s, d)
    OBVIOUS
  <2> HIDE DEF l, s
  <2>5. IsNetstatS(s) /\ NetstatSIs(Append(read, l), s, Len(read) + 1, start)
    BY <1>2, <2>2, <2>3, CountersBegin
  <2> QED
    BY <1>4, <2>2, <2>4, <2>5
<1>7. CASE NetstatSSection
  <2> PICK name \in Sections \cup {""} :
        Line("netstat_s", [t |-> "section", name |-> name], [loc EXCEPT !.section = name], None)
    BY <1>7 DEF NetstatSSection
  <2>0. PICK l, s : l = [t |-> "section", name |-> name] /\ s = [loc EXCEPT !.section = name]
    OBVIOUS
  <2>1. l \in CounterLines /\ l.t = "section" /\ l.name = name
    BY <2>0, CounterClasses
  <2>2. HasCounterLocals(loc) /\ loc.open \in BOOLEAN /\ loc.at \in Nat /\ \E X : loc.samples \in Seq(X)
    BY <1>2 DEF IsNetstatS
  <2>3. /\ HasCounterLocals(s) /\ s.samples = loc.samples /\ s.at = loc.at /\ s.open = loc.open
        /\ s.vals = loc.vals /\ s.section = name
    BY <2>0, <2>2 DEF HasCounterLocals, CounterLocals
  <2>4. IsNetstatS(s)
    BY <2>2, <2>3 DEF IsNetstatS
  <2>5. /\ IsLast(read, "ts", Len(read), p) /\ IsSection(read, Len(read), loc.section) /\ loc.vals = ValsOf(read, p)
        /\ p # 0 => loc.open
    BY DEF NetstatSIs
  <2>6. IsSection(Append(read, l), Len(read) + 1, name)
    BY <1>2, <2>1, <2>5, SectionAppend
  <2>7. ValsOf(Append(read, l), p) = ValsOf(read, p)
    BY <1>2, <1>3, <2>1, <2>5, ValsStay
  <2>8. NetstatSIs(Append(read, l), s, p, start)
    BY <1>2, <2>1, <2>3, <2>5, <2>6, <2>7, CountersGoOn
  <2> QED
    BY <1>4, <2>0, <2>1, <2>4, <2>8
<1>8. CASE NetstatSCounter
  <2> PICK sec : sec = loc.section
    OBVIOUS
  <2>1. PICK c \in Counters, v \in Tallies :
          LET s == loc.section IN
          Line("netstat_s", [t |-> "counter", label |-> c, v |-> v],
               IF s \in Known THEN [EnsurePoll EXCEPT !.vals = With(@, <<s, c>>, v)] ELSE loc,
               IF s \in Known THEN ImplicitInfo ELSE None)
    BY <1>8 DEF NetstatSCounter
  <2> PICK l, s : /\ l = [t |-> "counter", label |-> c, v |-> v]
                  /\ s = IF sec \in Known THEN [EnsurePoll EXCEPT !.vals = With(@, <<sec, c>>, v)] ELSE loc
    OBVIOUS
  <2>2. \E d : Line("netstat_s", l, s, d)
    BY <2>1
  <2>3. l \in CounterLines /\ l.t = "counter" /\ l.label = c /\ l.v = v
    BY CounterClasses
  <2>4. IsNetstatS(s) /\ NetstatSIs(Append(read, l), s, p, start)
    BY <1>2, <2>3, CounterTakes
  <2> QED
    BY <1>4, <2>2, <2>3, <2>4
<1>9. CASE NetstatSBadCounter
  <2> PICK l, s : l = Of("bad") /\ s = IF loc.section \in Known THEN EnsurePoll ELSE loc
    OBVIOUS
  <2>1. \E d : Line("netstat_s", l, s, d)
    BY <1>9 DEF NetstatSBadCounter
  <2>2. l \in CounterLines /\ l.t = "bad"
    BY CounterClasses
  <2>3. /\ IsLast(read, "ts", Len(read), p) /\ IsSection(read, Len(read), loc.section) /\ loc.vals = ValsOf(read, p)
        /\ p # 0 => loc.open
    BY DEF NetstatSIs
  <2>4. /\ IsNetstatS(s) /\ s.samples = loc.samples /\ s.at = loc.at /\ (p # 0 => s.open)
        /\ s.vals = loc.vals /\ s.section = loc.section
    <3>1. CASE loc.section \in Known
      <4>1. s = EnsurePoll
        BY <3>1
      <4> QED
        BY <1>2, <4>1, CountersEnsured
    <3>2. CASE loc.section \notin Known
      BY <1>2, <2>3, <3>2
    <3> QED
      BY <3>1, <3>2
  <2>5. IsSection(Append(read, l), Len(read) + 1, loc.section)
    BY <1>2, <2>2, <2>3, SectionAppend
  <2>6. ValsOf(Append(read, l), p) = ValsOf(read, p)
    BY <1>2, <1>3, <2>2, <2>3, ValsStay
  <2>7. NetstatSIs(Append(read, l), s, p, start)
    BY <1>2, <2>2, <2>3, <2>4, <2>5, <2>6, CountersGoOn
  <2> QED
    BY <1>4, <2>1, <2>2, <2>4, <2>7
<1>10. CASE NetstatSEnd
  <2> PICK o : o = FlushCounters
    OBVIOUS
  <2>1. (\E X : o.samples \in Seq(X)) /\ Lists(o.samples, Counted(read), AllCounters(read, start))
    BY <1>2, CountersFlushed
  <2>2. End("netstat_s", o.samples = <<>>, o.samples, None)
    BY <1>10 DEF NetstatSEnd
  <2>3. start' = start /\ read' = read /\ loc' = loc /\ (result'.state = "data" => result'.data = o.samples)
    BY <2>2, EndFacts
  <2> DEFINE R == Counted(read)
  <2>4. o.samples = [n \in 1..Cardinality(R) |-> CountersOfPoll(read, Sorted(R)[n], start)]
    <3>1. R \in SUBSET Nat
      BY <1>2 DEF Counted, Starters
    <3>2. Len(o.samples) = Cardinality(R) /\ IsFiniteSet(R)
      BY <2>1 DEF Lists
    <3> HIDE DEF R
    <3>3. \A n \in 1..Cardinality(R) : Sorted(R)[n] \in R
      BY <3>1, <3>2, RankIs
    <3>4. \A n \in 1..Cardinality(R) : o.samples[n] = AllCounters(read, start)[Sorted(R)[n]]
      BY <2>1, <3>2, ListsIs DEF R
    <3>5. \A n \in 1..Cardinality(R) : o.samples[n] = CountersOfPoll(read, Sorted(R)[n], start)
      BY <3>1, <3>3, <3>4 DEF AllCounters
    <3>6. o.samples = [n \in 1..Cardinality(R) |-> o.samples[n]]
      BY <2>1, <3>2
    <3> QED
      BY <3>5, <3>6
  <2>5. NetstatSIs(read, loc, p, start)'
    BY <2>3 DEF NetstatSIs
  <2> QED
    BY <1>2, <2>3, <2>4, <2>5 DEF NetstatSInv
<1>11. NetstatSNext \/ UNCHANGED parserVars
  BY <1>1 DEF Next, HostKinds
<1> QED
  BY <1>5, <1>6, <1>7, <1>8, <1>9, <1>10, <1>11 DEF NetstatSNext

\* ... and holds before the first.
LEMMA NetstatSStarts == Init => NetstatSInv
<1> SUFFICES ASSUME Init, kind = "netstat_s" PROVE NetstatSInv
  BY DEF NetstatSInv
<1>1. read = <<>> /\ loc = NetstatSStart /\ result.state = "reading" /\ start \in Nat
  BY LineAssumption, MinIs DEF StartOf, HostKinds, Init
<1>2. /\ HasCounterLocals(loc) /\ loc.samples = <<>> /\ loc.open = FALSE /\ loc.at = start /\ loc.vals = <<>>
      /\ loc.section = ""
  BY <1>1 DEF NetstatSStart, HasCounterLocals, CounterLocals
<1>3. IsNetstatS(loc)
  <2>1. <<>> \in Seq({})
    OBVIOUS
  <2> QED
    BY <1>1, <1>2, <2>1 DEF IsNetstatS
<1>4. read \in Seq(CounterLines) /\ Len(read) = 0
  BY <1>1
<1>5. Starters(read) = {0} /\ \A C : Those(read, 0, C) = {}
  BY <1>4 DEF Starters, Those
<1>6. Names(read, 0) = {}
  BY <1>5 DEF Names, Showing
<1>7. ValsOf(read, 0) = <<>>
  BY <1>6 DEF ValsOf
<1>8. CountedBefore(read, 0) = {}
  BY <1>5, <1>6 DEF CountedBefore, Counted
<1>9. Lists(loc.samples, CountedBefore(read, 0), AllCounters(read, start))
  BY <1>2, <1>8, FS_EmptySet DEF Lists
<1>10. IsLast(read, "ts", Len(read), 0) /\ IsLast(read, "section", Len(read), 0)
  BY <1>4 DEF IsLast
<1>11. IsSection(read, Len(read), "")
  <2>1. "" = IF 0 > 0 THEN read[0].name ELSE ""
    OBVIOUS
  <2> QED
    BY <1>10, <2>1, Zenon DEF IsSection
<1>12. NetstatSIs(read, loc, 0, start)
  BY <1>2, <1>7, <1>9, <1>10, <1>11 DEF NetstatSIs, TimeOf
<1> QED
  BY <1>1, <1>3, <1>4, <1>12 DEF NetstatSInv

\* The section of a line, as the property has it.
LEMMA SectionOfLine ==
  ASSUME NEW L, read \in Seq(L), NEW i \in 1..Len(read), NEW s
  PROVE  IsSection(read, i - 1, s) <=> s = SectionOf(i)
<1> PICK n : n = i - 1
  OBVIOUS
<1>1. n \in Nat /\ n <= Len(read) /\ n + 1 = i
  OBVIOUS
<1>2. \A t, h : IsLast(read, t, n, h) <=> h = LastBefore(t, i)
  BY <1>1, LastIs
<1>3. SectionOf(i) = IF LastBefore("section", i) > LastBefore("ts", i) THEN read[LastBefore("section", i)].name ELSE ""
  BY DEF SectionOf
<1> DEFINE name(h, p) == IF h > p THEN read[h].name ELSE ""
<1>4. IsSection(read, n, s) <=> s = SectionOf(i)
  <2>1. IsSection(read, n, s) <=> \E h, p : IsLast(read, "section", n, h) /\ IsLast(read, "ts", n, p) /\ s = name(h, p)
    BY DEF IsSection
  <2>2. SectionOf(i) = name(LastBefore("section", i), LastBefore("ts", i))
    BY <1>3
  <2> HIDE DEF name
  <2> QED
    BY <1>2, <2>1, <2>2, Zenon
<1> QED
  BY <1>4, Zenon

\* What the property calls the counters of a poll, by their names.
LEMMA CountersAre ==
  ASSUME read \in Seq(CounterLines), NEW q \in Starters(read)
  PROVE  /\ \A nm \in Known \X Counters :
              {i \in CountersOf(q) : <<SectionOf(i), read[i].label>> = nm} = Showing(read, q, nm[1], nm[2])
         /\ {<<SectionOf(i), read[i].label>> : i \in CountersOf(q)} = Names(read, q)
         /\ CountersOf(q) # {} <=> Names(read, q) # {}
<1> DEFINE N == Len(read)
           Mine(i) == \A k \in q + 1..i : read[k].t # "ts"
<1>1. /\ N \in Nat /\ q \in 0..N /\ \A i \in q + 1..N : i \in 1..N
      /\ \A i \in 1..N : read[i] \in CounterLines
  BY DEF Starters
<1>2. \A i : i \in CountersOf(q) <=> i \in q + 1..N /\ Mine(i) /\ read[i].t = "counter" /\ SectionOf(i) \in Known
  <2>1. \A i : i \in PollLines(q) => i \in q + 1..N
    BY DEF PollLines
  <2>2. \A i \in 1..N : read[i].t = "counter" => (i \in PollLines(q) <=> i \in q + 1..N /\ Mine(i))
    BY PollLinesAre
  <2> HIDE DEF N, Mine
  <2> QED
    BY <1>1, <2>1, <2>2 DEF CountersOf
<1>3. \A i \in 1..N : read[i].t = "counter" => read[i].label \in Counters
  BY <1>1, CounterClasses
<1>4. \A s, c : \A i : i \in Showing(read, q, s, c) <=>
        i \in q + 1..N /\ Mine(i) /\ read[i].t = "counter" /\ read[i].label = c /\ SectionOf(i) = s
  <2> TAKE s, c
  <2>1. \A i : i \in Those(read, q, Labelled(c)) <=>
          i \in q + 1..N /\ Mine(i) /\ read[i].t = "counter" /\ read[i].label = c
    BY <1>1 DEF Those, Labelled
  <2>2. \A i \in 1..N : IsSection(read, i - 1, s) <=> s = SectionOf(i)
    BY <1>1, SectionOfLine
  <2>3. \A i : i \in Showing(read, q, s, c) <=> i \in Those(read, q, Labelled(c)) /\ IsSection(read, i - 1, s)
    BY DEF Showing
  <2> HIDE DEF N, Mine
  <2> QED
    BY <1>1, <2>1, <2>2, <2>3
<1> HIDE DEF N, Mine
<1>5. ASSUME NEW nm \in Known \X Counters
      PROVE  {i \in CountersOf(q) : <<SectionOf(i), read[i].label>> = nm} = Showing(read, q, nm[1], nm[2])
  BY <1>2, <1>4
<1>6. \A i \in CountersOf(q) : <<SectionOf(i), read[i].label>> \in Known \X Counters
  BY <1>1, <1>2, <1>3
<1>7. \A nm \in Known \X Counters :
        nm \in Names(read, q) <=> \E i \in CountersOf(q) : <<SectionOf(i), read[i].label>> = nm
  BY <1>5 DEF Names
<1>8. Names(read, q) \subseteq Known \X Counters
  BY DEF Names
<1>9. {<<SectionOf(i), read[i].label>> : i \in CountersOf(q)} = Names(read, q)
  <2> DEFINE name(i) == <<SectionOf(i), read[i].label>>
  <2>1. \A i \in CountersOf(q) : name(i) \in Known \X Counters
    BY <1>6
  <2>2. \A nm \in Known \X Counters : nm \in Names(read, q) <=> \E i \in CountersOf(q) : name(i) = nm
    BY <1>7
  <2> HIDE DEF name
  <2>3. {name(i) : i \in CountersOf(q)} = Names(read, q)
    BY <1>8, <2>1, <2>2
  <2> QED
    BY <2>3 DEF name
<1>10. CountersOf(q) # {} <=> Names(read, q) # {}
  BY <1>9
<1> QED
  BY <1>5, <1>9, <1>10

\* The other half of the property: what the samples of the counters are.
LEMMA CountersCounted ==
  ASSUME NetstatSInv, kind = "netstat_s", result.state = "data"
  PROVE  LET ps == Sorted({p \in PollStarts : CountersOf(p) # {}})
             names(p) == {<<SectionOf(i), read[i].label>> : i \in CountersOf(p)}
             last(p, n) == Max({i \in CountersOf(p) : <<SectionOf(i), read[i].label>> = n})
         IN result.data =
              [n \in DOMAIN ps |->
                 [at |-> PollAt(ps[n]), vals |-> [c \in names(ps[n]) |-> read[last(ps[n], c)].v]]]
<1> DEFINE R == Counted(read)
           ps == Sorted(R)
           names(p) == {<<SectionOf(i), read[i].label>> : i \in CountersOf(p)}
           last(p, n) == Max({i \in CountersOf(p) : <<SectionOf(i), read[i].label>> = n})
           sample(q) == [at |-> PollAt(q), vals |-> [c \in names(q) |-> read[last(q, c)].v]]
<1>1. /\ read \in Seq(CounterLines)
      /\ result.data = [n \in 1..Cardinality(R) |-> CountersOfPoll(read, ps[n], start)]
  BY DEF NetstatSInv
<1>2. PollStarts = Starters(read) /\ PollStarts \subseteq 0..Len(read) /\ Len(read) \in Nat
  BY <1>1 DEF PollStarts, Starters, Positions
<1>3. {p \in PollStarts : CountersOf(p) # {}} = R /\ R \subseteq PollStarts
  BY <1>1, <1>2, CountersAre DEF Counted
<1>4. DOMAIN ps = 1..Cardinality(R) /\ \A n \in 1..Cardinality(R) : ps[n] \in R
  <2>1. IsFiniteSet(0..Len(read))
    BY <1>2, FS_Interval
  <2>2. R \subseteq 0..Len(read) /\ R \in SUBSET Nat
    BY <1>2, <1>3
  <2> HIDE DEF R
  <2>3. IsFiniteSet(R)
    BY <2>1, <2>2, FS_Subset, Zenon
  <2> QED
    BY <2>2, <2>3, RankIs
<1>5. ASSUME NEW q \in PollStarts PROVE sample(q) = CountersOfPoll(read, q, start)
  <2>1. names(q) = Names(read, q)
    BY <1>1, <1>2, CountersAre
  <2>2. \A nm \in Names(read, q) : last(q, nm) = Max(Showing(read, q, nm[1], nm[2]))
    <3> TAKE nm \in Names(read, q)
    <3>1. nm \in Known \X Counters
      BY DEF Names
    <3>2. {i \in CountersOf(q) : <<SectionOf(i), read[i].label>> = nm} = Showing(read, q, nm[1], nm[2])
      BY <1>1, <1>2, <3>1, CountersAre
    <3> QED
      BY <3>2, Zenon
  <2> HIDE DEF names, last
  <2>3. [c \in names(q) |-> read[last(q, c)].v] = ValsOf(read, q)
    BY <2>1, <2>2 DEF ValsOf
  <2>4. PollAt(q) = TimeOf(read, q, start)
    BY DEF PollAt, TimeOf
  <2> QED
    BY <2>3, <2>4 DEF CountersOfPoll
<1> HIDE DEF R, sample
<1>6. result.data = [n \in DOMAIN ps |-> sample(ps[n])]
  BY <1>1, <1>3, <1>4, <1>5
<1> QED
  BY <1>3, <1>6, Zenon DEF sample

\* Every poll with a usable line is one sample, of its own rows and of the last values
\* of its own sections, in the bucket that the whole file decides (netstat.go, netstat_s.go).
THEOREM PollsAreCounted == Spec => []PollsCountedOnce
<1>1. NetstatInv /\ NetstatSInv => PollsCountedOnce
  BY SocketsCounted, CountersCounted DEF PollsCountedOnce
<1> QED
  BY <1>1, NetstatStarts, NetstatStep, NetstatSStarts, NetstatSStep, PTL DEF Spec
-----------------------------------------------------------------------------
\* parseProcesslist: what the fields of a row say.

\* A metric that was read, or none.
Metrics == Nat \cup {NoMetric}

\* The last of the field lines with a key, or what there is without one.
LEMMA FieldIs ==
  ASSUME NEW fields \in Rows, NEW key, NEW default
  PROVE  \/ FieldOf(fields, key, default) = default
         \/ \E j \in DOMAIN fields : fields[j][1] = key /\ FieldOf(fields, key, default) = fields[j][2]
<1> DEFINE at == {j \in DOMAIN fields : fields[j][1] = key}
<1>1. fields \in Seq(ToSet(fields))
  BY RowsAssumption
<1>2. CASE at = {}
  BY <1>2 DEF FieldOf
<1>3. CASE at # {}
  <2>1. Len(fields) \in Nat /\ at \in SUBSET (0..Len(fields))
    BY <1>1
  <2>2. FieldOf(fields, key, default) = fields[Max(at)][2]
    BY <1>3 DEF FieldOf
  <2> HIDE DEF at
  <2>3. Max(at) \in at
    BY <1>3, <2>1, Greatest
  <2> QED
    BY <2>2, <2>3 DEF at
<1> QED
  BY <1>2, <1>3

\* The row is what the poll and the queries are told of.
LEMMA RowSays ==
  ASSUME NEW fields \in Rows
  PROVE  /\ RowOf(fields).core <=> \E j \in DOMAIN fields : fields[j][1] \in {"State", "Command"}
         /\ RowOf(fields).shape \in Nat /\ RowOf(fields).examined \in Metrics
         /\ AgeMS(RowOf(fields)) \in Metrics
<1> DEFINE r == RowOf(fields)
           time == FieldOf(fields, "Time", NoMetric)
           timeMS == FieldOf(fields, "Time_ms", NoMetric)
           examined == FieldOf(fields, "Rows_examined", NoMetric)
           shape == FieldOf(fields, "Info", NoRow.shape)
<1>1. \A j \in DOMAIN fields :
         fields[j][1] \in {"Time", "Time_ms", "Rows_examined", "Info"} => fields[j][2] \in Nat
  BY RowsAssumption
<1>2. time = NoMetric \/ \E j \in DOMAIN fields : fields[j][1] = "Time" /\ time = fields[j][2]
  BY FieldIs
<1>3. timeMS = NoMetric \/ \E j \in DOMAIN fields : fields[j][1] = "Time_ms" /\ timeMS = fields[j][2]
  BY FieldIs
<1>4. examined = NoMetric \/ \E j \in DOMAIN fields : fields[j][1] = "Rows_examined" /\ examined = fields[j][2]
  BY FieldIs
<1>5. shape = NoRow.shape \/ \E j \in DOMAIN fields : fields[j][1] = "Info" /\ shape = fields[j][2]
  BY FieldIs
<1>6. /\ r.time = time /\ r.timeMS = timeMS /\ r.examined = examined /\ r.shape = shape
      /\ r.core <=> \E j \in DOMAIN fields : fields[j][1] \in {"State", "Command"}
  BY DEF RowOf
<1> HIDE DEF r, time, timeMS, examined, shape
<1>7. time \in Metrics /\ timeMS \in Metrics /\ examined \in Metrics
  BY <1>1, <1>2, <1>3, <1>4 DEF Metrics
<1>8. shape \in Nat
  <2>1. NoRow.shape \in Nat
    BY DEF NoRow
  <2> QED
    BY <1>1, <1>5, <2>1
<1>9. AgeMS(r) \in Metrics
  BY <1>6, <1>7 DEF AgeMS, Metrics
<1> QED
  BY <1>6, <1>7, <1>8, <1>9 DEF r

\* One more of a bucket is one more of them all.
LEMMA BumpAdds ==
  ASSUME NEW counts, IsFiniteSet(DOMAIN counts), \A x \in DOMAIN counts : counts[x] \in Nat, NEW b
  PROVE  /\ IsFiniteSet(DOMAIN Bump(counts, b)) /\ \A x \in DOMAIN Bump(counts, b) : Bump(counts, b)[x] \in Nat
         /\ Total(Bump(counts, b)) = Total(counts) + 1 /\ Total(counts) \in Nat
<1> DEFINE g == Bump(counts, b)
           S == DOMAIN counts
           rest == [x \in S \ {b} |-> counts[x]]
           n == IF b \in S THEN counts[b] + 1 ELSE 1
<1>1. /\ DOMAIN g = S \cup {b} /\ g[b] = n /\ \A x \in S : x # b => g[x] = counts[x]
  BY DEF Bump, With
<1>2. n \in Nat
  OBVIOUS
<1>3. IsFiniteSet(S \cup {b})
  BY FS_AddElement
<1>4. DOMAIN rest = S \ {b} /\ \A x \in DOMAIN rest : rest[x] = counts[x]
  OBVIOUS
<1>5. IsFiniteSet(DOMAIN rest) /\ \A x \in DOMAIN rest : rest[x] \in Nat
  BY <1>4, FS_RemoveElement
<1> HIDE DEF g, n, rest, S
<1>6. \A x \in DOMAIN g : g[x] \in Nat
  BY <1>1, <1>2 DEF S
<1>7. Total(g) = Total(rest) + g[b]
  BY <1>1, <1>3, <1>4, <1>6, TotalWithout
<1>8. CASE b \in S
  <2>1. Total(counts) = Total(rest) + counts[b] /\ Total(rest) \in Nat
    BY <1>4, <1>8, TotalWithout DEF S
  <2>2. n = counts[b] + 1 /\ counts[b] \in Nat
    BY <1>8 DEF n, S
  <2> QED
    BY <1>1, <1>3, <1>6, <1>7, <2>1, <2>2 DEF g
<1>9. CASE b \notin S
  <2>1. rest = counts \/ (DOMAIN rest = DOMAIN counts /\ \A x \in DOMAIN counts : rest[x] = counts[x])
    BY <1>4, <1>9 DEF S
  <2>2. AllUnits(rest) = AllUnits(counts)
    BY <2>1 DEF AllUnits, Units
  <2>3. Total(rest) = Cardinality(AllUnits(rest)) /\ Total(counts) = Cardinality(AllUnits(counts)) /\ Total(counts) \in Nat
    BY <1>5, UnitsFinite
  <2>4. n = 1
    BY <1>9 DEF n
  <2> QED
    BY <1>1, <1>3, <1>6, <1>7, <2>2, <2>3, <2>4 DEF g
<1> QED
  BY <1>8, <1>9

-----------------------------------------------------------------------------
\* NewObservedProcesslistQuery and MergeAllObservedProcesslistQueries: what a summary
\* tells of the sightings of its shape.

\* Sightings with times and metrics.
AreSightings(seen) ==
  /\ DOMAIN seen \subseteq Nat /\ IsFiniteSet(DOMAIN seen)
  /\ \A i \in DOMAIN seen : /\ seen[i].at \in Nat /\ seen[i].row.shape \in Nat
                            /\ seen[i].row.time \in Metrics /\ seen[i].row.examined \in Metrics

\* The first of the slowest of them.
Slowest(seen, mine, i) ==
  \A j \in mine : /\ seen[j].row.time <= seen[i].row.time
                  /\ j < i => seen[j].row.time < seen[i].row.time

QueryFields == {"shape", "first", "last", "seen", "time", "hasTime", "examined", "hasExamined", "context"}
IsSummary(c) == c = [f \in QueryFields |-> c[f]] /\ c.hasTime \in BOOLEAN /\ c.hasExamined \in BOOLEAN

Spans(c, seen, mine) ==
  /\ (\E i \in mine : c.first = seen[i].at) /\ \A i \in mine : c.first <= seen[i].at
  /\ (\E i \in mine : c.last = seen[i].at) /\ \A i \in mine : seen[i].at <= c.last
Worst(c, seen, mine) ==
  \E i \in mine : /\ Slowest(seen, mine, i) /\ c.context = seen[i].row.context
                  /\ c.time = Metric(seen[i].row.time)
                  /\ c.hasTime <=> seen[i].row.time # NoMetric
MostRows(c, seen, mine) ==
  /\ \E i \in mine : c.examined = Metric(seen[i].row.examined)
  /\ \A i \in mine : Metric(seen[i].row.examined) <= c.examined
TellsOf(c, seen, mine) ==
  /\ IsFiniteSet(mine) /\ c.seen = Cardinality(mine)
  /\ Spans(c, seen, mine) /\ Worst(c, seen, mine) /\ MostRows(c, seen, mine)

LEMMA OfTwo ==
  ASSUME NEW a \in Nat, NEW b \in Nat
  PROVE  Min({a, b}) = (IF a <= b THEN a ELSE b) /\ Max({a, b}) = IF a <= b THEN b ELSE a
<1>1. Min({a, b}) \in {a, b} /\ \A x \in {a, b} : Min({a, b}) <= x
  BY MinIs
<1>2. Max({a, b}) = IF a <= b THEN b ELSE a
  <2>1. CASE a <= b
    BY <2>1, MaxIs
  <2>2. CASE ~(a <= b)
    BY <2>2, MaxIs
  <2> QED
    BY <2>1, <2>2
<1> QED
  BY <1>1, <1>2

\* One sighting is summed up in what it shows.
LEMMA SummaryBegins ==
  ASSUME NEW seen, AreSightings(seen), NEW n \in DOMAIN seen,
         NEW c, c = NewObserved(seen[n].at, seen[n].row)
  PROVE  IsSummary(c) /\ c.shape = seen[n].row.shape /\ TellsOf(c, seen, {n})
<1> DEFINE at == seen[n].at
           row == seen[n].row
<1>1. n \in Nat /\ at \in Nat /\ row.time \in Metrics /\ row.examined \in Metrics
  BY DEF AreSightings
<1>2. /\ c.shape = row.shape /\ c.first = at /\ c.last = at /\ c.seen = 1 /\ c.time = Metric(row.time)
      /\ c.hasTime <=> row.time # NoMetric
      /\ c.examined = Metric(row.examined) /\ c.context = row.context
      /\ c.hasTime \in BOOLEAN /\ c.hasExamined \in BOOLEAN
  BY DEF NewObserved
<1>3. c = [f \in QueryFields |-> c[f]]
  BY DEF NewObserved, QueryFields
<1>4. IsFiniteSet({n}) /\ Cardinality({n}) = 1
  BY FS_Singleton
<1>5. Spans(c, seen, {n})
  BY <1>1, <1>2 DEF Spans
<1>6. Worst(c, seen, {n})
  <2>1. Slowest(seen, {n}, n)
    BY <1>1 DEF Slowest, Metrics, NoMetric
  <2> QED
    BY <1>2, <2>1 DEF Worst
<1>7. MostRows(c, seen, {n})
  BY <1>1, <1>2 DEF MostRows, Metric, Metrics, NoMetric
<1> QED
  BY <1>2, <1>3, <1>4, <1>5, <1>6, <1>7 DEF IsSummary, TellsOf

\* What is said of sightings depends on no others.
LEMMA SummaryStays ==
  ASSUME NEW c, NEW seen, NEW mine, TellsOf(c, seen, mine), NEW more, \A i \in mine : more[i] = seen[i]
  PROVE  TellsOf(c, more, mine)
BY DEF Slowest, TellsOf, Spans, Worst, MostRows

\* A further sighting adds itself to them.
LEMMA SummaryGrows ==
  ASSUME NEW seen, AreSightings(seen), NEW mine \in SUBSET DOMAIN seen, NEW n \in DOMAIN seen,
         \A i \in mine : i < n,
         NEW c, IsSummary(c), TellsOf(c, seen, mine)
  PROVE  LET d == MergeQuery(c, NewObserved(seen[n].at, seen[n].row))
         IN  IsSummary(d) /\ d.shape = c.shape /\ TellsOf(d, seen, mine \cup {n})
<1> PICK d : d = MergeQuery(c, NewObserved(seen[n].at, seen[n].row))
  OBVIOUS
<1> SUFFICES IsSummary(d) /\ d.shape = c.shape /\ TellsOf(d, seen, mine \cup {n})
  OBVIOUS
<1> DEFINE at == seen[n].at
           row == seen[n].row
           all == mine \cup {n}
<1> PICK q : q = NewObserved(at, row)
  OBVIOUS
<1>1. n \in Nat /\ at \in Nat /\ row.time \in Metrics /\ row.examined \in Metrics
  BY DEF AreSightings
<1>2. /\ q.first = at /\ q.last = at /\ q.seen = 1 /\ q.time = Metric(row.time)
      /\ q.hasTime <=> row.time # NoMetric
      /\ q.hasExamined <=> row.examined # NoMetric
      /\ q.examined = Metric(row.examined) /\ q.context = row.context
  BY DEF NewObserved
<1>3. \A i \in mine : /\ i \in Nat /\ seen[i].at \in Nat /\ seen[i].row.time \in Metrics
                      /\ seen[i].row.examined \in Metrics
  BY DEF AreSightings
<1>4. Metric(row.examined) \in Nat /\ Metric(row.time) \in Nat
      /\ \A i \in mine : Metric(seen[i].row.examined) \in Nat /\ Metric(seen[i].row.time) \in Nat
  BY <1>1, <1>3 DEF Metric, Metrics
<1>5. /\ IsFiniteSet(mine) /\ c.seen = Cardinality(mine)
      /\ Spans(c, seen, mine) /\ Worst(c, seen, mine) /\ MostRows(c, seen, mine)
  BY DEF TellsOf
<1>6. c.first \in Nat /\ c.last \in Nat /\ c.time \in Nat /\ c.examined \in Nat
  BY <1>3, <1>4, <1>5 DEF Spans, Worst, MostRows
<1>7. d = [c EXCEPT !.seen = c.seen + q.seen, !.first = Min({c.first, q.first}), !.last = Max({c.last, q.last}),
                    !.time = IF SlowerSighting(c, q) THEN q.time ELSE c.time,
                    !.hasTime = c.hasTime \/ SlowerSighting(c, q),
                    !.context = IF SlowerSighting(c, q) THEN q.context ELSE c.context,
                    !.examined = IF q.hasExamined THEN Max({c.examined, q.examined}) ELSE c.examined,
                    !.hasExamined = c.hasExamined \/ q.hasExamined]
  BY DEF MergeQuery
<1>8. /\ d = [f \in QueryFields |-> d[f]] /\ d.shape = c.shape /\ d.seen = c.seen + 1
      /\ d.first = Min({c.first, at}) /\ d.last = Max({c.last, at})
      /\ d.time = IF SlowerSighting(c, q) THEN q.time ELSE c.time
      /\ d.hasTime = (c.hasTime \/ SlowerSighting(c, q))
      /\ d.context = IF SlowerSighting(c, q) THEN row.context ELSE c.context
      /\ d.examined = IF q.hasExamined THEN Max({c.examined, q.examined}) ELSE c.examined
      /\ d.hasExamined = (c.hasExamined \/ q.hasExamined)
  <2> DEFINE s1 == c.seen + q.seen
             s2 == Min({c.first, q.first})
             s3 == Max({c.last, q.last})
             s4 == IF SlowerSighting(c, q) THEN q.time ELSE c.time
             s5 == c.hasTime \/ SlowerSighting(c, q)
             s6 == IF SlowerSighting(c, q) THEN q.context ELSE c.context
             s7 == IF q.hasExamined THEN Max({c.examined, q.examined}) ELSE c.examined
             s8 == c.hasExamined \/ q.hasExamined
  <2>1. d = [c EXCEPT !.seen = s1, !.first = s2, !.last = s3, !.time = s4, !.hasTime = s5,
                      !.context = s6, !.examined = s7, !.hasExamined = s8]
    BY <1>7
  <2>2. c = [f \in QueryFields |-> c[f]]
    BY DEF IsSummary
  <2>3. s1 = c.seen + 1 /\ s2 = Min({c.first, at}) /\ s3 = Max({c.last, at})
    BY <1>2
  <2>4. s6 = IF SlowerSighting(c, q) THEN row.context ELSE c.context
    BY <1>2
  <2> HIDE DEF s1, s2, s3, s4, s5, s6, s7, s8
  <2>5. /\ d = [f \in QueryFields |-> d[f]] /\ d.shape = c.shape /\ d.seen = s1
        /\ d.first = s2 /\ d.last = s3 /\ d.time = s4 /\ d.hasTime = s5
        /\ d.context = s6 /\ d.examined = s7 /\ d.hasExamined = s8
    BY <2>1, <2>2 DEF QueryFields
  <2> QED
    BY <2>3, <2>4, <2>5, Zenon DEF s4, s5, s7, s8
<1>9. c.hasTime \in BOOLEAN
  BY DEF IsSummary
<1> HIDE DEF at, row
<1>10. n \notin mine /\ IsFiniteSet(all) /\ d.seen = Cardinality(all)
  BY <1>1, <1>3, <1>5, <1>8, FS_AddElement
<1>11. Spans(d, seen, all)
  <2>1. d.first = (IF c.first <= at THEN c.first ELSE at) /\ d.last = IF c.last <= at THEN at ELSE c.last
    BY <1>1, <1>6, <1>8, OfTwo
  <2>2. /\ (\E i \in mine : c.first = seen[i].at) /\ \A i \in mine : c.first <= seen[i].at
        /\ (\E i \in mine : c.last = seen[i].at) /\ \A i \in mine : seen[i].at <= c.last
    BY <1>5 DEF Spans
  <2>3. (\E i \in all : d.first = seen[i].at) /\ \E i \in all : d.last = seen[i].at
    BY <2>1, <2>2 DEF at
  <2>4. \A i \in all : d.first <= seen[i].at /\ seen[i].at <= d.last
    BY <1>1, <1>3, <1>6, <2>1, <2>2 DEF at
  <2> QED
    BY <2>3, <2>4 DEF Spans
<1>12. MostRows(d, seen, all)
  <2>1. d.examined = IF c.examined <= Metric(row.examined) THEN Metric(row.examined) ELSE c.examined
    <3>1. CASE q.hasExamined
      <4> PICK e \in Nat : e = Metric(row.examined)
        BY <1>4
      <4>1. d.examined = Max({c.examined, e})
        BY <1>2, <1>8, <3>1
      <4> QED
        BY <1>6, <4>1, OfTwo
    <3>2. CASE ~q.hasExamined
      BY <1>2, <1>6, <1>8, <3>2 DEF Metric
    <3> QED
      BY <3>1, <3>2
  <2>2. /\ \E i \in mine : c.examined = Metric(seen[i].row.examined)
        /\ \A i \in mine : Metric(seen[i].row.examined) <= c.examined
    BY <1>5 DEF MostRows
  <2>3. \E i \in all : d.examined = Metric(seen[i].row.examined)
    BY <2>1, <2>2 DEF row
  <2>4. \A i \in mine : Metric(seen[i].row.examined) <= d.examined
    BY <1>4, <1>6, <2>1, <2>2
  <2>5. Metric(seen[n].row.examined) <= d.examined
    BY <1>4, <1>6, <2>1 DEF row
  <2> QED
    BY <2>3, <2>4, <2>5 DEF MostRows
<1>13. Worst(d, seen, all)
  <2> PICK w \in mine : /\ Slowest(seen, mine, w) /\ c.context = seen[w].row.context
                        /\ c.time = Metric(seen[w].row.time)
                        /\ c.hasTime <=> seen[w].row.time # NoMetric
    BY <1>5 DEF Worst
  <2> PICK wt : wt = seen[w].row.time
    OBVIOUS
  <2> PICK nt : nt = row.time
    OBVIOUS
  <2>1. wt \in Metrics /\ nt \in Metrics /\ nt = seen[n].row.time
    BY <1>1, <1>3 DEF row
  <2>2. SlowerSighting(c, q) <=> nt > wt
    BY <1>2, <2>1 DEF SlowerSighting, Metrics, Metric, NoMetric
  <2>3. \A j \in mine : seen[j].row.time <= wt /\ (j < w => seen[j].row.time < wt)
    BY DEF Slowest
  <2>4. \A j \in mine : seen[j].row.time \in Int /\ j \in Nat
    BY <1>3 DEF Metrics, NoMetric
  <2>5. wt \in Int /\ nt \in Int
    BY <2>1 DEF Metrics, NoMetric
  <2>6. CASE nt > wt
    <3>1. \A j \in mine : seen[j].row.time < nt
      BY <2>3, <2>4, <2>5, <2>6
    <3>2. Slowest(seen, all, n)
      BY <1>1, <2>1, <2>4, <2>5, <3>1 DEF Slowest
    <3>3. d.context = seen[n].row.context /\ d.time = Metric(seen[n].row.time)
      BY <1>2, <1>8, <2>1, <2>2, <2>6 DEF row
    <3>4. d.hasTime <=> seen[n].row.time # NoMetric
      <4>1. nt # NoMetric
        BY <2>1, <2>6 DEF Metrics, NoMetric
      <4>2. SlowerSighting(c, q)
        BY <2>2, <2>6
      <4> QED
        BY <1>8, <2>1, <4>1, <4>2
    <3> QED
      BY <3>2, <3>3, <3>4 DEF Worst
  <2>7. CASE ~(nt > wt)
    <3>1. Slowest(seen, all, w)
      BY <1>1, <1>3, <2>1, <2>3, <2>5, <2>7 DEF Slowest
    <3>2. ~SlowerSighting(c, q)
      BY <2>2, <2>7
    <3>3. d.context = seen[w].row.context /\ d.time = Metric(seen[w].row.time) /\ d.hasTime = c.hasTime
      BY <1>8, <1>9, <3>2
    <3> QED
      BY <3>1, <3>3 DEF Worst
  <2> QED
    BY <2>6, <2>7
<1>14. d.hasTime \in BOOLEAN /\ d.hasExamined \in BOOLEAN
  BY <1>8
<1> QED
  BY <1>8, <1>10, <1>11, <1>12, <1>13, <1>14 DEF IsSummary, TellsOf

\* One summary for each shape that has sightings, and no other.
Shapes(seen) == {seen[i].row.shape : i \in {i \in DOMAIN seen : Eligible(seen[i].row)}}
GroupsTell(g, seen) ==
  /\ IsFiniteSet(DOMAIN g) /\ DOMAIN g = Shapes(seen)
  /\ \A s \in DOMAIN g : IsSummary(g[s]) /\ g[s].shape = s /\ TellsOf(g[s], seen, Sightings(seen, s))

\* The sightings of a shape after one more.
LEMMA SightingsGrow ==
  ASSUME NEW old, NEW seen, NEW n, DOMAIN seen = DOMAIN old \cup {n}, n \notin DOMAIN old,
         \A i \in DOMAIN old : seen[i] = old[i], NEW s
  PROVE  /\ Eligible(seen[n].row) /\ seen[n].row.shape = s =>
              Sightings(seen, s) = Sightings(old, s) \cup {n}
         /\ ~(Eligible(seen[n].row) /\ seen[n].row.shape = s) => Sightings(seen, s) = Sightings(old, s)
BY DEF Sightings

LEMMA ShapesGrow ==
  ASSUME NEW old, NEW seen, NEW n, DOMAIN seen = DOMAIN old \cup {n}, n \notin DOMAIN old,
         \A i \in DOMAIN old : seen[i] = old[i]
  PROVE  Shapes(seen) = Shapes(old) \cup (IF Eligible(seen[n].row) THEN {seen[n].row.shape} ELSE {})
BY DEF Shapes

\* A shape without sightings is none of them.
LEMMA ShapeIsSeen ==
  ASSUME NEW seen, NEW s
  PROVE  s \in Shapes(seen) <=> Sightings(seen, s) # {}
BY DEF Shapes, Sightings

\* A sighting is summed up in the summary of its shape, and in no other.
LEMMA GroupsTake ==
  ASSUME NEW old, NEW seen, AreSightings(seen), NEW n, DOMAIN seen = DOMAIN old \cup {n},
         \A i \in DOMAIN old : i < n /\ seen[i] = old[i],
         NEW g, GroupsTell(g, old),
         NEW h, h = IF Eligible(seen[n].row) THEN AddQuery(g, NewObserved(seen[n].at, seen[n].row)) ELSE g
  PROVE  GroupsTell(h, seen)
<1> DEFINE row == seen[n].row
           k == row.shape
           q == NewObserved(seen[n].at, seen[n].row)
<1>1. n \in DOMAIN seen /\ n \in Nat /\ DOMAIN seen \subseteq Nat /\ n \notin DOMAIN old
  BY DEF AreSightings
<1>2. /\ IsFiniteSet(DOMAIN g) /\ DOMAIN g = Shapes(old)
      /\ \A s \in DOMAIN g : IsSummary(g[s]) /\ g[s].shape = s /\ TellsOf(g[s], old, Sightings(old, s))
  BY DEF GroupsTell
<1>3. /\ Eligible(row) => Sightings(seen, k) = Sightings(old, k) \cup {n}
      /\ \A s : ~(Eligible(row) /\ k = s) => Sightings(seen, s) = Sightings(old, s)
  BY <1>1, SightingsGrow
<1>4. Shapes(seen) = Shapes(old) \cup (IF Eligible(row) THEN {k} ELSE {})
  BY <1>1, ShapesGrow
<1>5. \A s : Sightings(old, s) \subseteq DOMAIN old
  BY DEF Sightings
<1>6. ASSUME NEW s \in DOMAIN g
      PROVE  TellsOf(g[s], seen, Sightings(old, s))
  BY <1>2, <1>5, SummaryStays
<1>7. CASE ~Eligible(row)
  BY <1>2, <1>3, <1>4, <1>6, <1>7 DEF GroupsTell
<1>8. CASE Eligible(row)
  <2>1. q.shape = k
    BY DEF NewObserved
  <2>2. h = AddQuery(g, q)
    BY <1>8
  <2> HIDE DEF q
  <2>3. /\ DOMAIN h = DOMAIN g \cup {k}
        /\ h[k] = IF k \in DOMAIN g THEN MergeQuery(g[k], q) ELSE q
        /\ \A s \in DOMAIN g : s # k => h[s] = g[s]
    BY <2>1, <2>2 DEF AddQuery
  <2>4. IsFiniteSet(DOMAIN h) /\ DOMAIN h = Shapes(seen)
    BY <1>2, <1>4, <1>8, <2>3, FS_AddElement
  <2>5. IsSummary(h[k]) /\ h[k].shape = k /\ TellsOf(h[k], seen, Sightings(seen, k))
    <3>1. CASE k \in DOMAIN g
      <4> PICK mine, c, d : mine = Sightings(old, k) /\ c = g[k] /\ d = h[k]
        OBVIOUS
      <4>1. mine \in SUBSET DOMAIN seen /\ \A i \in mine : i < n
        BY <1>5
      <4>2. IsSummary(c) /\ c.shape = k /\ TellsOf(c, seen, mine)
        BY <1>2, <1>6, <3>1
      <4>3. d = MergeQuery(c, NewObserved(seen[n].at, seen[n].row))
        BY <2>3, <3>1 DEF q
      <4>4. IsSummary(d) /\ d.shape = c.shape /\ TellsOf(d, seen, mine \cup {n})
        BY <1>1, <4>1, <4>2, <4>3, SummaryGrows
      <4>5. Sightings(seen, k) = mine \cup {n}
        BY <1>3, <1>8
      <4> QED
        BY <4>2, <4>4, <4>5
    <3>2. CASE k \notin DOMAIN g
      <4>1. Sightings(old, k) = {}
        BY <1>2, <3>2, ShapeIsSeen
      <4>2. Sightings(seen, k) = {n}
        BY <1>3, <1>8, <4>1
      <4>3. h[k] = NewObserved(seen[n].at, seen[n].row)
        BY <2>3, <3>2 DEF q
      <4>4. IsSummary(h[k]) /\ h[k].shape = seen[n].row.shape /\ TellsOf(h[k], seen, {n})
        BY <1>1, <4>3, SummaryBegins
      <4> QED
        BY <4>2, <4>4
    <3> QED
      BY <3>1, <3>2
  <2>6. ASSUME NEW s \in DOMAIN g, s # k
        PROVE  IsSummary(h[s]) /\ h[s].shape = s /\ TellsOf(h[s], seen, Sightings(seen, s))
    BY <1>2, <1>3, <1>6, <2>3, <2>6
  <2> QED
    BY <2>3, <2>4, <2>5, <2>6 DEF GroupsTell
<1> QED
  BY <1>7, <1>8

\* What TellsOf says is what Summarises asks.
LEMMA TellsIsSummary ==
  ASSUME NEW seen, AreSightings(seen), NEW c, NEW s, c.shape = s, s \in Shapes(seen),
         TellsOf(c, seen, Sightings(seen, s))
  PROVE  Summarises(c, seen)
<1> DEFINE mine == Sightings(seen, s)
           timed == {i \in mine : seen[i].row.time # NoMetric}
           worst == {i \in timed : \A j \in timed : seen[j].row.time <= seen[i].row.time}
<1>1. mine # {} /\ mine \subseteq DOMAIN seen
  BY ShapeIsSeen DEF Sightings
<1>2. \A i \in mine : /\ i \in Nat /\ seen[i].at \in Nat /\ seen[i].row.time \in Metrics
                      /\ seen[i].row.examined \in Metrics
  BY <1>1 DEF AreSightings
<1> HIDE DEF mine
<1>3. /\ c.seen = Cardinality(mine) /\ Spans(c, seen, mine) /\ Worst(c, seen, mine) /\ MostRows(c, seen, mine)
  BY DEF TellsOf, mine
<1>4. c.first = Min({seen[i].at : i \in mine}) /\ c.last = Max({seen[i].at : i \in mine})
  <2> DEFINE T == {seen[i].at : i \in mine}
  <2>1. T \subseteq Nat /\ T # {}
    BY <1>1, <1>2
  <2>2. c.first \in T /\ c.last \in T /\ \A x \in T : c.first <= x /\ x <= c.last
    BY <1>3 DEF Spans
  <2> HIDE DEF T
  <2>3. Max(T) = c.last
    BY <2>1, <2>2, MaxIs
  <2>4. Min(T) \in T /\ \A x \in T : Min(T) <= x
    BY <2>1, MinIs
  <2>5. Min(T) = c.first
    <3>1. Min(T) <= c.first /\ c.first <= Min(T) /\ Min(T) \in Nat /\ c.first \in Nat
      BY <2>1, <2>2, <2>4
    <3> QED
      BY <3>1
  <2> QED
    BY <2>3, <2>5 DEF T
<1>5. c.examined = Max({Metric(seen[i].row.examined) : i \in mine})
  <2> DEFINE T == {Metric(seen[i].row.examined) : i \in mine}
  <2>1. T \subseteq Nat
    BY <1>2 DEF Metric, Metrics
  <2>2. c.examined \in T /\ \A x \in T : x <= c.examined
    BY <1>3 DEF MostRows
  <2> HIDE DEF T
  <2>3. Max(T) = c.examined
    BY <2>1, <2>2, MaxIs
  <2> QED
    BY <2>3 DEF T
<1> PICK w \in mine : /\ Slowest(seen, mine, w) /\ c.context = seen[w].row.context
                      /\ c.time = Metric(seen[w].row.time)
                      /\ c.hasTime <=> seen[w].row.time # NoMetric
  BY <1>3 DEF Worst
<1>6. \A j \in mine : /\ seen[j].row.time <= seen[w].row.time
                      /\ j < w => seen[j].row.time < seen[w].row.time
  BY DEF Slowest
<1>7. \A j \in mine : seen[j].row.time = NoMetric \/ (seen[j].row.time \in Nat /\ seen[j].row.time >= 0)
  BY <1>2 DEF Metrics
<1>8. c.hasTime <=> timed # {}
  BY <1>6, <1>7 DEF NoMetric
<1>9. c.time = Max({Metric(seen[i].row.time) : i \in mine})
  <2> DEFINE T == {Metric(seen[i].row.time) : i \in mine}
  <2>1. T \subseteq Nat
    BY <1>2 DEF Metric, Metrics
  <2>2. c.time \in T
    OBVIOUS
  <2>3. \A j \in mine : Metric(seen[j].row.time) <= c.time
    BY <1>6, <1>7 DEF Metric, NoMetric
  <2>4. \A x \in T : x <= c.time
    BY <2>3
  <2> HIDE DEF T
  <2>5. Max(T) = c.time
    BY <2>1, <2>2, <2>4, MaxIs
  <2> QED
    BY <2>5 DEF T
<1>10. c.context = seen[IF timed = {} THEN Min(mine) ELSE Min(worst)].row.context
  <2>1. ASSUME NEW T, T \subseteq mine, w \in T, \A j \in T : w <= j PROVE Min(T) = w
    BY <1>2, <2>1, MinIs
  <2>2. CASE timed = {}
    BY <1>2, <1>6, <2>1, <2>2 DEF NoMetric
  <2>3. CASE timed # {}
    <3>1. w \in timed
      BY <1>8, <2>3
    <3>2. w \in worst
      BY <1>6, <3>1
    <3>3. \A j \in worst : w <= j
      <4> SUFFICES ASSUME NEW j \in worst, ~(w <= j) PROVE FALSE
        OBVIOUS
      <4>1. j \in mine /\ j < w /\ seen[w].row.time <= seen[j].row.time
        BY <1>2, <3>1
      <4>2. seen[j].row.time < seen[w].row.time
        BY <1>6, <4>1
      <4> QED
        BY <1>7, <4>1, <4>2 DEF NoMetric
    <3>4. Min(worst) = w
      <4>1. worst \subseteq mine
        OBVIOUS
      <4> HIDE DEF worst
      <4> QED
        BY <2>1, <3>2, <3>3, <4>1
    <3> QED
      BY <2>3, <3>4
  <2> QED
    BY <2>2, <2>3
<1> QED
  BY <1>1, <1>3, <1>4, <1>5, <1>8, <1>9, <1>10 DEF Summarises, mine
\* Of summaries that differ in shape each is a group of its own.
LEMMA GroupedAlone ==
  ASSUME NEW G, NEW N \in Nat, NEW qs \in Seq(G), Len(qs) = N,
         \A a \in G : \E i \in 1..N : qs[i] = a,
         \A i, j \in 1..N : qs[i].shape = qs[j].shape => i = j
  PROVE  {GroupQueries(qs)[s] : s \in DOMAIN GroupQueries(qs)} = G
<1> DEFINE Solves(f) == f = [n \in 0..N |-> IF n = 0 THEN NoGroups ELSE AddQuery(f[n - 1], qs[n])]
           f == CHOOSE f : Solves(f)
           upTo(n) == {qs[i].shape : i \in 1..n}
           who == [s \in {a.shape : a \in G} |-> CHOOSE a \in G : a.shape = s]
           w == [n \in 0..N |-> [s \in upTo(n) |-> who[s]]]
<1>1. \A i \in 1..N : qs[i] \in G
  OBVIOUS
<1>2. \A i \in 1..N : who[qs[i].shape] = qs[i]
  <2> TAKE i \in 1..N
  <2>1. \A a \in G : a.shape = qs[i].shape => a = qs[i]
    OBVIOUS
  <2> QED
    BY <1>1, <2>1
<1> HIDE DEF who
<1>3. ASSUME NEW n \in 1..N PROVE w[n] = AddQuery(w[n - 1], qs[n])
  <2>1. n - 1 \in 0..N /\ n \in 0..N /\ \A i : i \in 1..n <=> i \in 1..n - 1 \/ i = n
    OBVIOUS
  <2>2. w[n] = [s \in upTo(n) |-> who[s]] /\ w[n - 1] = [s \in upTo(n - 1) |-> who[s]]
    BY <2>1
  <2>3. upTo(n) = upTo(n - 1) \cup {qs[n].shape}
    BY <2>1
  <2>4. qs[n].shape \notin upTo(n - 1)
    <3> SUFFICES ASSUME NEW i \in 1..n - 1, qs[i].shape = qs[n].shape PROVE FALSE
      OBVIOUS
    <3>1. i \in 1..N /\ i # n
      OBVIOUS
    <3> QED
      BY <3>1
  <2> HIDE DEF w, upTo
  <2> PICK old : old = w[n - 1]
    OBVIOUS
  <2>5. DOMAIN old = upTo(n - 1) /\ \A s \in upTo(n - 1) : old[s] = who[s]
    BY <2>2
  <2>6. AddQuery(old, qs[n]) = [s \in upTo(n) |-> IF s = qs[n].shape THEN qs[n] ELSE old[s]]
    BY <2>3, <2>4, <2>5 DEF AddQuery
  <2>7. \A s \in upTo(n) : (IF s = qs[n].shape THEN qs[n] ELSE old[s]) = who[s]
    BY <1>2, <2>3, <2>5
  <2>8. [s \in upTo(n) |-> IF s = qs[n].shape THEN qs[n] ELSE old[s]] = [s \in upTo(n) |-> who[s]]
    BY <2>7
  <2> QED
    BY <2>2, <2>6, <2>8
<1>4. w[0] = NoGroups
  <2>1. upTo(0) = {}
    OBVIOUS
  <2>2. w[0] = [s \in upTo(0) |-> who[s]]
    OBVIOUS
  <2> HIDE DEF w, upTo
  <2> QED
    BY <2>1, <2>2 DEF NoGroups
<1>5. DOMAIN w = 0..N /\ w = [n \in 0..N |-> w[n]]
  OBVIOUS
<1> HIDE DEF w
<1>6. Solves(w)
  <2>1. \A n \in 0..N : w[n] = IF n = 0 THEN NoGroups ELSE AddQuery(w[n - 1], qs[n])
    <3> TAKE n \in 0..N
    <3>1. n = 0 \/ n \in 1..N
      OBVIOUS
    <3> QED
      BY <1>3, <1>4, <3>1
  <2> QED
    BY <1>5, <2>1
<1>7. Solves(f)
  <2> HIDE DEF Solves
  <2> QED
    BY <1>6
<1> HIDE DEF f
<1>8. /\ f[0] = NoGroups /\ \A n \in 1..N : f[n] = AddQuery(f[n - 1], qs[n])
  BY <1>7
<1>9. f[N] = w[N]
  <2> DEFINE T == {n \in 0..N : f[n] # w[n]}
  <2> SUFFICES ASSUME T # {} PROVE FALSE
    OBVIOUS
  <2>1. PICK m \in T : \A n \in T : m <= n
    <3>1. T \subseteq Nat
      OBVIOUS
    <3> HIDE DEF T
    <3> QED
      BY <3>1, LeastNumber
  <2>2. m # 0 /\ m \in 0..N /\ f[m] # w[m]
    BY <1>4, <1>8
  <2>3. m \in 1..N /\ m - 1 \in 0..N /\ m - 1 \notin T
    BY <2>1, <2>2
  <2>4. f[m - 1] = w[m - 1]
    BY <2>3
  <2> QED
    BY <1>3, <1>8, <2>2, <2>3, <2>4
<1>10. GroupQueries(qs) = f[N]
  BY DEF GroupQueries, f
<1>11. w[N] = [s \in upTo(N) |-> who[s]]
  BY DEF w
<1>12. \A i \in 1..N : qs[i].shape \in upTo(N)
  OBVIOUS
<1>13. ASSUME NEW a PROVE a \in {who[s] : s \in upTo(N)} <=> a \in G
  BY <1>1, <1>2
<1> HIDE DEF upTo
<1>14. DOMAIN w[N] = upTo(N) /\ \A s \in upTo(N) : w[N][s] = who[s]
  BY <1>11
<1> PICK groups : groups = GroupQueries(qs)
  OBVIOUS
<1>15. DOMAIN groups = upTo(N) /\ \A s \in upTo(N) : groups[s] = who[s]
  BY <1>9, <1>10, <1>14
<1>16. {groups[s] : s \in DOMAIN groups} = G
  BY <1>13, <1>15
<1> QED
  BY <1>16

\* SetToSeq lists every element once.
LEMMA ListedOnce ==
  ASSUME NEW S, IsFiniteSet(S), NEW s, s = SetToSeq(S)
  PROVE  /\ s \in Seq(S) /\ Len(s) = Cardinality(S) /\ Cardinality(S) \in Nat
         /\ \A x \in S : \E i \in 1..Len(s) : s[i] = x
         /\ \A i, j \in 1..Len(s) : s[i] = s[j] => i = j
<1> DEFINE C == Cardinality(S)
<1>1. C \in Nat /\ \E f : f \in Bijection(1..C, S)
  BY FS_CardinalityType DEF ExistsBijection
<1> HIDE DEF C
<1>2. \E f \in [1..C -> S] : IsInjective(f)
  BY <1>1 DEF Bijection, Injection
<1>3. s \in [1..C -> S] /\ IsInjective(s)
  BY <1>2 DEF SetToSeq, C
<1>4. IsFiniteSet(1..C) /\ Cardinality(1..C) = C
  BY <1>1, FS_Interval
<1>5. s \in Injection(1..C, S)
  BY <1>3 DEF Injection
<1>6. s \in Surjection(1..C, S)
  BY <1>4, <1>5, FS_Injection DEF C
<1>7. \A x \in S : \E i \in 1..C : s[i] = x
  BY <1>6 DEF Surjection
<1>8. s \in Seq(S) /\ Len(s) = C
  BY <1>1, <1>3
<1>9. \A i, j \in 1..C : s[i] = s[j] => i = j
  BY <1>3 DEF IsInjective
<1> QED
  BY <1>1, <1>7, <1>8, <1>9 DEF C

\* The groups of the polls, each once and in an order: a summary for each shape.
LEMMA GroupsSummarise ==
  ASSUME NEW seen, AreSightings(seen), NEW g, GroupsTell(g, seen),
         NEW qs, qs = MergeAllQueries(SetToSeq({g[s] : s \in DOMAIN g}))
  PROVE  SummariseAll(qs, seen)
<1> DEFINE G == {g[s] : s \in DOMAIN g}
           C == Cardinality(G)
           B == {p \in G \X G : SlowerQuery(p[1], p[2])}
<1>1. /\ IsFiniteSet(DOMAIN g) /\ DOMAIN g = Shapes(seen)
      /\ \A s \in DOMAIN g : IsSummary(g[s]) /\ g[s].shape = s /\ TellsOf(g[s], seen, Sightings(seen, s))
  BY DEF GroupsTell
<1>2. IsFiniteSet(G)
  <2> DEFINE f == [s \in DOMAIN g |-> g[s]]
  <2>1. f \in Surjection(DOMAIN g, G)
    BY DEF Surjection
  <2> HIDE DEF f, G
  <2> QED
    BY <1>1, <2>1, FS_Surjection
<1>3. \A a \in G : a.shape \in Shapes(seen) /\ a = g[a.shape] /\ TellsOf(a, seen, Sightings(seen, a.shape))
  BY <1>1
<1>4. \A s \in Shapes(seen) : g[s] \in G /\ g[s].shape = s
  BY <1>1
<1> HIDE DEF G
<1>5. \A a, b \in G : a.shape = b.shape => a = b
  BY <1>3
<1>6. \A a \in G : a.shape \in Nat /\ a.time \in Nat /\ a.examined \in Nat
  <2> TAKE a \in G
  <2> DEFINE mine == Sightings(seen, a.shape)
  <2>1. \A i \in DOMAIN seen : seen[i].row.shape \in Nat /\ seen[i].row.time \in Metrics /\ seen[i].row.examined \in Metrics
    BY DEF AreSightings
  <2>2. a.shape \in Nat
    BY <1>3, <2>1 DEF Shapes
  <2>3. mine \subseteq DOMAIN seen
    BY DEF Sightings
  <2>4. Worst(a, seen, mine) /\ MostRows(a, seen, mine)
    BY <1>3 DEF TellsOf
  <2> HIDE DEF mine
  <2>5. a.time \in Nat /\ a.examined \in Nat
    BY <2>1, <2>3, <2>4 DEF Worst, MostRows, Metric, Metrics
  <2> QED
    BY <2>2, <2>5
<1>7. StrictOrder(G, B)
  <2>1. \A a, b \in G : <<a, b>> \in B <=> SlowerQuery(a, b)
    OBVIOUS
  <2> HIDE DEF B
  <2>2. \A a \in G : ~SlowerQuery(a, a)
    BY <1>6 DEF SlowerQuery
  <2>3. ASSUME NEW a \in G, NEW b \in G, NEW c \in G, SlowerQuery(a, b), SlowerQuery(b, c)
        PROVE  SlowerQuery(a, c)
    BY <1>6, <2>3 DEF SlowerQuery
  <2>4. ASSUME NEW a \in G, NEW b \in G, a # b PROVE SlowerQuery(a, b) \/ SlowerQuery(b, a)
    <3>1. a.shape # b.shape
      BY <1>5, <2>4
    <3> QED
      BY <1>6, <3>1 DEF SlowerQuery
  <2> QED
    BY <2>1, <2>2, <2>3, <2>4 DEF StrictOrder
<1> HIDE DEF C, B
<1>8. {GroupQueries(SetToSeq(G))[s] : s \in DOMAIN GroupQueries(SetToSeq(G))} = G
  <2> PICK sq : sq = SetToSeq(G)
    OBVIOUS
  <2>1. /\ sq \in Seq(G) /\ Len(sq) \in Nat
        /\ \A x \in G : \E i \in 1..Len(sq) : sq[i] = x
        /\ \A i, j \in 1..Len(sq) : sq[i] = sq[j] => i = j
    BY <1>2, ListedOnce
  <2>2. \A i, j \in 1..Len(sq) : sq[i].shape = sq[j].shape => i = j
    BY <1>5, <2>1
  <2>3. {GroupQueries(sq)[s] : s \in DOMAIN GroupQueries(sq)} = G
    BY <2>1, <2>2, GroupedAlone
  <2> QED
    BY <2>3
<1>9. qs = InOrder(G, B)
  BY <1>8 DEF MergeAllQueries, G, B
<1>10. /\ C \in Nat /\ qs \in [1..C -> G]
       /\ \A x \in G : \E n \in 1..C : qs[n] = x
       /\ \A m, n \in 1..C : m < n => <<qs[m], qs[n]>> \in B
  <2>1. ASSUME NEW o, o = InOrder(G, B)
        PROVE  /\ Cardinality(G) \in Nat /\ o \in [1..Cardinality(G) -> G]
               /\ \A x \in G : \E n \in 1..Cardinality(G) : o[n] = x
               /\ \A m, n \in 1..Cardinality(G) : m < n => <<o[m], o[n]>> \in B
    BY <1>2, <1>7, <2>1, InOrderSorts
  <2> QED
    BY <1>9, <2>1, Zenon DEF C
<1>11. DOMAIN qs = 1..C /\ \A i \in 1..C : qs[i] \in G
  BY <1>10
<1>12. \A i \in DOMAIN qs : Summarises(qs[i], seen)
  BY <1>3, <1>11, TellsIsSummary
<1>13. {qs[i].shape : i \in DOMAIN qs} = Shapes(seen)
  <2>1. ASSUME NEW s PROVE s \in {qs[i].shape : i \in DOMAIN qs} <=> s \in Shapes(seen)
    <3>1. s \in {qs[i].shape : i \in DOMAIN qs} => s \in Shapes(seen)
      BY <1>3, <1>11
    <3>2. ASSUME s \in Shapes(seen) PROVE s \in {qs[i].shape : i \in DOMAIN qs}
      <4>1. g[s] \in G /\ g[s].shape = s
        BY <1>4, <3>2
      <4> PICK i \in 1..C : qs[i] = g[s]
        BY <1>10, <4>1
      <4> QED
        BY <1>11, <4>1
    <3> QED
      BY <3>1, <3>2
  <2> QED
    BY <2>1
<1>14. IsInjective([i \in DOMAIN qs |-> qs[i].shape])
  <2> SUFFICES ASSUME NEW i \in 1..C, NEW j \in 1..C, qs[i].shape = qs[j].shape PROVE i = j
    BY <1>11 DEF IsInjective
  <2>1. qs[i] = qs[j]
    BY <1>5, <1>11
  <2>2. <<qs[i], qs[i]>> \notin B
    BY <1>7, <1>11 DEF StrictOrder
  <2>3. ~(i < j) /\ ~(j < i)
    BY <1>10, <2>1, <2>2
  <2> QED
    BY <1>10, <2>3
<1> QED
  BY <1>12, <1>13, <1>14 DEF SummariseAll, Shapes

-----------------------------------------------------------------------------
\* parseProcesslist: what the parser has of the lines it has read.  A thread is a row with
\* a field of interest, under a TS line; it counts when the parser closes its row.
ThreadLines == [t : {"ts"}, at : Nat] \cup [t : {"row"}, fields : Rows]
Threads == {l \in ThreadLines : l.t = "row" /\ \E j \in DOMAIN l.fields : l.fields[j][1] \in {"State", "Command"}}
TSOf(rd) == {i \in 1..Len(rd) : rd[i].t = "ts"}
TSBefore(rd, p) == {i \in TSOf(rd) : i < p}

PollFields == {"at", "state", "command", "total", "active", "sleeping", "maxTime", "hasTime", "withText"}
CountsAll(counts, n) ==
  IsFiniteSet(DOMAIN counts) /\ (\A b \in DOMAIN counts : counts[b] \in Nat) /\ Total(counts) = n
IsPoll(x) ==
  /\ x = [f \in PollFields |-> x[f]] /\ x.at \in Nat /\ x.total \in Nat
  /\ CountsAll(x.state, x.total) /\ CountsAll(x.command, x.total)
  /\ x.active \in Nat /\ x.sleeping \in Nat /\ x.active + x.sleeping = x.total
  /\ x.maxTime \in Nat /\ x.hasTime \in BOOLEAN /\ (x.hasTime \/ x.maxTime = 0)
PollTells(x, rd, q) == IsPoll(x) /\ x.at = rd[q].at /\ x.total = Cardinality(Those(rd, q, Threads))

\* A poll starts without threads.
LEMMA BarePoll ==
  ASSUME NEW at \in Nat, NEW x, x = NewPoll(at)
  PROVE  IsPoll(x) /\ x.at = at /\ x.total = 0
<1>1. DOMAIN <<>> = {} /\ IsFiniteSet({}) /\ Cardinality({}) = 0
  BY FS_EmptySet
<1>2. Total(<<>>) = 0
  BY <1>1 DEF Total
<1>3. CountsAll(<<>>, 0)
  BY <1>1, <1>2 DEF CountsAll
<1>4. /\ x.at = at /\ x.state = <<>> /\ x.command = <<>> /\ x.total = 0 /\ x.active = 0 /\ x.sleeping = 0
      /\ x.maxTime = 0 /\ x.hasTime = FALSE /\ x = [f \in PollFields |-> x[f]]
  BY DEF NewPoll, PollFields
<1>5. x.hasTime \in BOOLEAN /\ (x.hasTime \/ x.maxTime = 0)
  BY <1>4
<1>6. CountsAll(x.state, x.total) /\ CountsAll(x.command, x.total)
  BY <1>3, <1>4
<1>7. /\ x.total \in Nat /\ x.active \in Nat /\ x.sleeping \in Nat /\ x.active + x.sleeping = x.total
      /\ x.maxTime \in Nat /\ x.at \in Nat
  BY <1>4
<1> QED
  BY <1>4, <1>5, <1>6, <1>7, Zenon DEF IsPoll

\* A thread is one more in every dimension.
LEMMA PollCounts ==
  ASSUME NEW x, IsPoll(x), NEW fields \in Rows, NEW y, y = CountRow(x, RowOf(fields))
  PROVE  IsPoll(y) /\ y.at = x.at /\ y.total = x.total + 1
<1> DEFINE row == RowOf(fields)
           age == AgeMS(row)
<1> PICK s1, s2, s3, s4, s5, s6, s7, s8 :
      /\ s1 = Bump(x.state, Label(row.state)) /\ s2 = Bump(x.command, CommandLabel(row.command))
      /\ s3 = x.total + 1 /\ s4 = x.active + (IF IsActive(row) THEN 1 ELSE 0)
      /\ s5 = x.sleeping + (IF row.command = "Sleep" THEN 1 ELSE 0)
      /\ s6 = Max({x.maxTime, Metric(age)}) /\ s7 = (x.hasTime \/ age # NoMetric)
      /\ s8 = x.withText + (IF row.shape = 0 THEN 0 ELSE 1)
  OBVIOUS
<1>1. y = [x EXCEPT !.state = s1, !.command = s2, !.total = s3, !.active = s4, !.sleeping = s5,
                    !.maxTime = s6, !.hasTime = s7, !.withText = s8]
  BY DEF CountRow
<1>2. x = [f \in PollFields |-> x[f]]
  BY DEF IsPoll
<1>3. /\ y = [f \in PollFields |-> y[f]] /\ y.at = x.at /\ y.state = s1 /\ y.command = s2 /\ y.total = s3
      /\ y.active = s4 /\ y.sleeping = s5 /\ y.maxTime = s6 /\ y.hasTime = s7
  BY <1>1, <1>2 DEF PollFields
<1>4. /\ x.at \in Nat /\ x.total \in Nat /\ x.active \in Nat /\ x.sleeping \in Nat
      /\ x.active + x.sleeping = x.total /\ x.maxTime \in Nat /\ x.hasTime \in BOOLEAN
      /\ x.hasTime \/ x.maxTime = 0
      /\ CountsAll(x.state, x.total) /\ CountsAll(x.command, x.total)
  BY DEF IsPoll
<1>5. CountsAll(s1, s3) /\ CountsAll(s2, s3)
  BY <1>4, BumpAdds DEF CountsAll
<1>6. age \in Metrics
  BY RowSays
<1>7. s3 \in Nat /\ s4 \in Nat /\ s5 \in Nat /\ s4 + s5 = s3
  BY <1>4 DEF IsActive
<1> HIDE DEF row, age
<1>8. s6 \in Nat /\ s7 \in BOOLEAN /\ (s7 \/ s6 = 0)
  <2> PICK m \in Nat : m = Metric(age)
    BY <1>6 DEF Metric, Metrics
  <2>1. s6 = IF x.maxTime <= m THEN m ELSE x.maxTime
    BY <1>4, OfTwo
  <2>2. s6 \in Nat
    BY <1>4, <2>1
  <2>3. CASE age # NoMetric
    BY <2>2, <2>3
  <2>4. CASE age = NoMetric
    BY <1>4, <2>1, <2>2, <2>4 DEF Metric
  <2> QED
    BY <2>3, <2>4
<1> QED
  BY <1>3, <1>4, <1>5, <1>7, <1>8 DEF IsPoll

\* The threads of the polls, and what is seen of them.
ThreadsIn(rd) ==
  {i \in 1..Len(rd) : rd[i] \in Threads /\ \E h : h > 0 /\ IsLast(rd, "ts", i - 1, h)}
SeenAt(rd, i, h) == [at |-> rd[h].at, row |-> Query(RowOf(rd[i].fields))]
IsSeen(rd, seen) ==
  /\ DOMAIN seen = ThreadsIn(rd) /\ seen = [i \in ThreadsIn(rd) |-> seen[i]]
  /\ \A i \in ThreadsIn(rd) : \E h : h > 0 /\ IsLast(rd, "ts", i - 1, h) /\ seen[i] = SeenAt(rd, i, h)

\* Lines by their classes.
LEMMA ThreadClasses ==
  /\ \A at \in Nat : [t |-> "ts", at |-> at] \in ThreadLines /\ [t |-> "ts", at |-> at] \notin Threads
  /\ \A fields \in Rows : /\ [t |-> "row", fields |-> fields] \in ThreadLines
                          /\ [t |-> "row", fields |-> fields] \in Threads <=> RowOf(fields).core
  /\ \A l \in ThreadLines : (l.t = "ts" => l.at \in Nat) /\ (l.t = "row" => l.fields \in Rows)
                            /\ (l.t = "ts" \/ l.t = "row")
<1>1. \A at \in Nat : [t |-> "ts", at |-> at] \in ThreadLines /\ [t |-> "ts", at |-> at] \notin Threads
  BY DEF ThreadLines, Threads
<1>2. \A l \in ThreadLines : (l.t = "ts" => l.at \in Nat) /\ (l.t = "row" => l.fields \in Rows)
                            /\ (l.t = "ts" \/ l.t = "row")
  BY DEF ThreadLines
<1>3. ASSUME NEW fields \in Rows, NEW l, l = [t |-> "row", fields |-> fields]
      PROVE  l \in ThreadLines /\ (l \in Threads <=> RowOf(fields).core)
  BY <1>3, RowSays DEF ThreadLines, Threads
<1> QED
  BY <1>1, <1>2, <1>3

\* What is seen has times and metrics.
LEMMA SeenTyped ==
  ASSUME NEW rd \in Seq(ThreadLines), NEW seen, IsSeen(rd, seen)
  PROVE  AreSightings(seen)
<1>1. Len(rd) \in Nat /\ IsFiniteSet(1..Len(rd)) /\ \A i \in 1..Len(rd) : rd[i] \in ThreadLines
  BY FS_Interval
<1>2. DOMAIN seen \in SUBSET (1..Len(rd))
  BY DEF IsSeen, ThreadsIn
<1>3. IsFiniteSet(DOMAIN seen)
  BY <1>1, <1>2, FS_Subset, Zenon
<1>4. ASSUME NEW i \in DOMAIN seen
      PROVE  /\ seen[i].at \in Nat /\ seen[i].row.shape \in Nat
             /\ seen[i].row.time \in Metrics /\ seen[i].row.examined \in Metrics
  <2>1. i \in 1..Len(rd) /\ rd[i] \in Threads
    BY <1>2 DEF IsSeen, ThreadsIn
  <2> PICK h : h > 0 /\ IsLast(rd, "ts", i - 1, h) /\ seen[i] = SeenAt(rd, i, h)
    BY DEF IsSeen
  <2>2. h \in 0..i - 1 /\ rd[h].t = "ts"
    BY DEF IsLast
  <2>3. h \in 1..Len(rd)
    BY <1>1, <2>1, <2>2
  <2>4. rd[h].at \in Nat
    BY <1>1, <2>2, <2>3, ThreadClasses
  <2>5. rd[i].fields \in Rows
    BY <2>1, ThreadClasses DEF Threads
  <2> PICK fields \in Rows : fields = rd[i].fields
    BY <2>5
  <2>6. /\ RowOf(fields).shape \in Nat /\ RowOf(fields).examined \in Metrics /\ AgeMS(RowOf(fields)) \in Metrics
    BY RowSays
  <2>7. seen[i].at = rd[h].at /\ seen[i].row = Query(RowOf(fields))
    BY DEF SeenAt
  <2> QED
    BY <2>4, <2>6, <2>7 DEF Query
<1> QED
  BY <1>1, <1>2, <1>3, <1>4 DEF AreSightings

\* A thread is seen in the poll it stands in; another line shows nothing.
LEMMA ThreadsAppend ==
  ASSUME NEW rd \in Seq(ThreadLines), NEW l \in ThreadLines, NEW p, IsLast(rd, "ts", Len(rd), p)
  PROVE  /\ l \in Threads /\ p > 0 => ThreadsIn(Append(rd, l)) = ThreadsIn(rd) \cup {Len(rd) + 1}
         /\ ~(l \in Threads /\ p > 0) => ThreadsIn(Append(rd, l)) = ThreadsIn(rd)
         /\ \A i \in ThreadsIn(rd) : i < Len(rd) + 1
<1> DEFINE r2 == Append(rd, l)
           N == Len(rd)
<1>1. /\ N \in Nat /\ Len(r2) = N + 1 /\ r2[N + 1] = l /\ \A i \in 1..N : r2[i] = rd[i]
  BY OneMore
<1>2. \A n \in 0..N : \A h : IsLast(r2, "ts", n, h) <=> IsLast(rd, "ts", n, h)
  BY LastAppend
<1> HIDE DEF r2
<1>3. p \in Nat /\ \A h : IsLast(rd, "ts", N, h) => h = p
  <2>1. p \in Nat
    BY <1>1 DEF IsLast
  <2> QED
    BY <1>1, <2>1, LastOne
<1> HIDE DEF N
<1>4. \A i \in 1..N : i \in ThreadsIn(r2) <=> i \in ThreadsIn(rd)
  <2> TAKE i \in 1..N
  <2>1. i - 1 \in 0..N /\ i \in 1..N + 1 /\ r2[i] = rd[i]
    BY <1>1
  <2>2. i \in ThreadsIn(r2) <=> rd[i] \in Threads /\ \E h : h > 0 /\ IsLast(r2, "ts", i - 1, h)
    BY <1>1, <2>1 DEF ThreadsIn
  <2>3. i \in ThreadsIn(rd) <=> rd[i] \in Threads /\ \E h : h > 0 /\ IsLast(rd, "ts", i - 1, h)
    BY DEF ThreadsIn, N
  <2> QED
    BY <1>2, <2>1, <2>2, <2>3
<1>5. N + 1 \in ThreadsIn(r2) <=> l \in Threads /\ p > 0
  BY <1>1, <1>2, <1>3 DEF ThreadsIn, N
<1>6. (\A i \in ThreadsIn(r2) : i \in 1..N \/ i = N + 1) /\ \A i \in ThreadsIn(rd) : i \in 1..N /\ i < N + 1
  BY <1>1 DEF ThreadsIn, N
<1>7. N + 1 \notin 1..N
  BY <1>1
<1> QED
  BY <1>4, <1>5, <1>6, <1>7 DEF r2, N

\* A line that is no thread of a poll changes nothing of what was seen.
LEMMA SeenStays ==
  ASSUME NEW rd \in Seq(ThreadLines), NEW l \in ThreadLines, NEW p, IsLast(rd, "ts", Len(rd), p),
         NEW seen, IsSeen(rd, seen)
  PROVE  /\ \A i \in ThreadsIn(rd) : \E h : /\ h > 0 /\ IsLast(Append(rd, l), "ts", i - 1, h)
                                            /\ seen[i] = SeenAt(Append(rd, l), i, h)
         /\ ~(l \in Threads /\ p > 0) => IsSeen(Append(rd, l), seen)
<1> DEFINE r2 == Append(rd, l)
           N == Len(rd)
<1>1. /\ N \in Nat /\ Len(r2) = N + 1 /\ r2[N + 1] = l /\ \A i \in 1..N : r2[i] = rd[i]
  BY OneMore
<1>2. \A n \in 0..N : \A h : IsLast(r2, "ts", n, h) <=> IsLast(rd, "ts", n, h)
  BY LastAppend
<1>3. ~(l \in Threads /\ p > 0) => ThreadsIn(r2) = ThreadsIn(rd)
  BY ThreadsAppend
<1> HIDE DEF r2
<1>4. ASSUME NEW i \in ThreadsIn(rd)
      PROVE  \E h : h > 0 /\ IsLast(r2, "ts", i - 1, h) /\ seen[i] = SeenAt(r2, i, h)
  <2> PICK h : h > 0 /\ IsLast(rd, "ts", i - 1, h) /\ seen[i] = SeenAt(rd, i, h)
    BY DEF IsSeen
  <2>1. i \in 1..N /\ h \in 0..i - 1
    BY DEF ThreadsIn, IsLast
  <2>2. h \in 1..N /\ i - 1 \in 0..N
    BY <1>1, <2>1
  <2>3. r2[h] = rd[h] /\ r2[i] = rd[i]
    BY <1>1, <2>1, <2>2
  <2>4. seen[i] = SeenAt(r2, i, h)
    BY <2>3 DEF SeenAt
  <2> QED
    BY <1>2, <2>2, <2>4
<1>5. DOMAIN seen = ThreadsIn(rd) /\ seen = [i \in ThreadsIn(rd) |-> seen[i]]
  BY DEF IsSeen
<1> QED
  BY <1>3, <1>4, <1>5 DEF IsSeen, r2

\* The polls before a line.
LEMMA PollTellsStill ==
  ASSUME NEW rd \in Seq(ThreadLines), NEW l \in ThreadLines, NEW p, IsLast(rd, "ts", Len(rd), p),
         NEW q \in 1..p, l.t = "ts" \/ q # p \/ l \notin Threads, NEW x, PollTells(x, rd, q)
  PROVE  PollTells(x, Append(rd, l), q)
<1>1. p \in 0..Len(rd) /\ Len(rd) \in Nat
  BY DEF IsLast
<1>2. q \in 0..p /\ q \in 1..Len(rd)
  BY <1>1
<1>3. Those(Append(rd, l), q, Threads) = Those(rd, q, Threads)
  BY <1>2, ThoseAppend
<1>4. Append(rd, l)[q] = rd[q]
  BY <1>2, OneMore
<1> QED
  BY <1>3, <1>4 DEF PollTells

\* The TS lines of one line more.
LEMMA TSAppend ==
  ASSUME NEW rd \in Seq(ThreadLines), NEW l \in ThreadLines, NEW p, IsLast(rd, "ts", Len(rd), p)
  PROVE  /\ p \in 0..Len(rd) /\ TSOf(rd) \subseteq 1..p /\ (p > 0 => p \in TSOf(rd))
         /\ TSOf(rd) = TSBefore(rd, p) \cup (IF p > 0 THEN {p} ELSE {})
         /\ TSBefore(Append(rd, l), Len(rd) + 1) = TSOf(rd)
         /\ TSBefore(Append(rd, l), p) = TSBefore(rd, p)
         /\ IsLast(Append(rd, l), "ts", Len(rd) + 1, IF l.t = "ts" THEN Len(rd) + 1 ELSE p)
         /\ Len(Append(rd, l)) = Len(rd) + 1
<1> DEFINE r2 == Append(rd, l)
           N == Len(rd)
<1>1. /\ N \in Nat /\ Len(r2) = N + 1 /\ r2[N + 1] = l /\ \A i \in 1..N : r2[i] = rd[i]
  BY OneMore
<1>2. p \in 0..N /\ (p > 0 => rd[p].t = "ts") /\ \A k \in p + 1..N : rd[k].t # "ts"
  BY DEF IsLast
<1>3. IsLast(r2, "ts", N + 1, IF l.t = "ts" THEN N + 1 ELSE p)
  BY LastAppend
<1>4. /\ \A i : i \in TSOf(rd) <=> i \in 1..N /\ rd[i].t = "ts"
      /\ \A i : i \in TSOf(r2) <=> i \in 1..N + 1 /\ r2[i].t = "ts"
  BY <1>1 DEF TSOf
<1> HIDE DEF r2, N
<1>5. \A i \in TSOf(rd) : i \in 1..p
  <2> SUFFICES ASSUME NEW i \in TSOf(rd) PROVE i \in 1..p
    OBVIOUS
  <2>1. i \in 1..N /\ ~(i \in p + 1..N)
    BY <1>2, <1>4
  <2> QED
    BY <1>1, <1>2, <2>1
<1>6. p > 0 => p \in TSOf(rd)
  BY <1>1, <1>2, <1>4
<1>7. TSOf(rd) = TSBefore(rd, p) \cup (IF p > 0 THEN {p} ELSE {})
  BY <1>2, <1>5, <1>6 DEF TSBefore
<1>8. \A i : i \in TSOf(r2) /\ i < N + 1 <=> i \in TSOf(rd)
  BY <1>1, <1>4
<1>9. TSBefore(r2, N + 1) = TSOf(rd)
  BY <1>8 DEF TSBefore
<1>10. TSBefore(r2, p) = TSBefore(rd, p)
  BY <1>1, <1>2, <1>4, <1>8 DEF TSBefore
<1>11. TSOf(rd) \subseteq 1..p
  BY <1>5
<1> QED
  BY <1>1, <1>2, <1>3, <1>6, <1>7, <1>9, <1>10, <1>11 DEF r2, N

-----------------------------------------------------------------------------
\* The locals with the row in progress closed tell of the lines read: the poll in progress
\* of the last TS line p, the polls of those before, the groups of all threads.
PlistFields == {"polls", "poll", "row", "queries"}
PollsClosed(polls, rd, S) ==
  /\ \E X : polls \in Seq(X)
  /\ \E f : Lists(polls, S, f) /\ \A q \in S : PollTells(f[q], rd, q)
GroupsOf(groups, rd) == \E seen : IsSeen(rd, seen) /\ GroupsTell(groups, seen)
ThreadsTold(rd, o, p) ==
  /\ IsLast(rd, "ts", Len(rd), p)
  /\ o = [f \in PlistFields |-> o[f]] /\ o.row = NoRow
  /\ p = 0 => o.poll = NoPoll
  /\ p > 0 => PollTells(o.poll, rd, p)
  /\ PollsClosed(o.polls, rd, TSBefore(rd, p))
  /\ GroupsOf(o.queries, rd)

\* There is a poll in progress after a TS line.
LEMMA PollOpen ==
  ASSUME NEW rd, NEW o, NEW p, ThreadsTold(rd, o, p)
  PROVE  /\ p \in Nat /\ (o.poll = NoPoll <=> p = 0)
         /\ p > 0 => IsPoll(o.poll)
<1>1. p \in Nat
  BY DEF ThreadsTold, IsLast
<1>2. p > 0 => IsPoll(o.poll)
  BY DEF ThreadsTold, PollTells
<1>3. \A x : IsPoll(x) => x # NoPoll
  <2> SUFFICES ASSUME NEW x, IsPoll(x), x = NoPoll PROVE FALSE
    OBVIOUS
  <2>1. x.at \in Nat
    BY DEF IsPoll
  <2>2. x.at = -1
    BY DEF NoPoll
  <2> QED
    BY <2>1, <2>2
<1> QED
  BY <1>1, <1>2, <1>3 DEF ThreadsTold

\* Closing the row in progress.
LEMMA FlushTakes ==
  ASSUME NEW o, o = [f \in PlistFields |-> o[f]], o.row = NoRow, o.poll # NoPoll, NEW row,
         NEW s, s = [o EXCEPT !.row = row]
  PROVE  /\ s = [f \in PlistFields |-> s[f]] /\ s.poll # NoPoll
         /\ ~row.core => FlushRow(s) = o
         /\ row.core =>
              /\ FlushRow(s) = [f \in PlistFields |-> FlushRow(s)[f]]
              /\ FlushRow(s).row = NoRow /\ FlushRow(s).polls = o.polls
              /\ FlushRow(s).poll = CountRow(o.poll, row)
              /\ FlushRow(s).queries = IF Eligible(Query(row))
                                       THEN AddQuery(o.queries, NewObserved(o.poll.at, Query(row))) ELSE o.queries
<1>1. /\ s = [f \in PlistFields |-> s[f]] /\ s.poll = o.poll /\ s.row = row /\ s.polls = o.polls
      /\ s.queries = o.queries
  BY DEF PlistFields
<1>2. ~row.core => FlushRow(s) = o
  BY <1>1 DEF PlistFields, FlushRow
<1>3. ASSUME row.core
      PROVE  /\ FlushRow(s) = [f \in PlistFields |-> FlushRow(s)[f]]
             /\ FlushRow(s).row = NoRow /\ FlushRow(s).polls = o.polls
             /\ FlushRow(s).poll = CountRow(o.poll, row)
             /\ FlushRow(s).queries = IF Eligible(Query(row))
                                      THEN AddQuery(o.queries, NewObserved(o.poll.at, Query(row))) ELSE o.queries
  BY <1>1, <1>3 DEF FlushRow, PlistFields
<1> QED
  BY <1>1, <1>2, <1>3, Zenon

\* The polls that are over stay what they are.
LEMMA PollsStill ==
  ASSUME NEW rd \in Seq(ThreadLines), NEW l \in ThreadLines, NEW p, IsLast(rd, "ts", Len(rd), p),
         NEW S, S \subseteq 1..p, l.t = "ts" \/ p \notin S \/ l \notin Threads,
         NEW polls, PollsClosed(polls, rd, S)
  PROVE  PollsClosed(polls, Append(rd, l), S)
BY PollTellsStill DEF PollsClosed

\* Closing the poll in progress leaves the polls of all TS lines.
LEMMA CloseTold ==
  ASSUME NEW rd \in Seq(ThreadLines), NEW o, NEW p, ThreadsTold(rd, o, p), NEW c, c = ClosePoll(o)
  PROVE  /\ c = [f \in PlistFields |-> c[f]] /\ c.row = NoRow /\ c.queries = o.queries
         /\ PollsClosed(c.polls, rd, TSOf(rd)) /\ (c.polls = <<>> <=> TSOf(rd) = {})
         /\ IsFiniteSet(TSOf(rd))
<1> PICK polls : polls = IF o.poll = NoPoll THEN o.polls ELSE Append(o.polls, o.poll)
  OBVIOUS
<1>1. o = [f \in PlistFields |-> o[f]] /\ o.row = NoRow
  BY DEF ThreadsTold
<1>2. c = [o EXCEPT !.polls = polls]
  BY DEF ClosePoll
<1>3. c = [f \in PlistFields |-> c[f]] /\ c.row = NoRow /\ c.queries = o.queries /\ c.polls = polls
  BY <1>1, <1>2 DEF PlistFields
<1>4. IsLast(rd, "ts", Len(rd), p) /\ PollsClosed(o.polls, rd, TSBefore(rd, p)) /\ Len(rd) \in Nat
  BY DEF ThreadsTold
<1>5. PICK l \in ThreadLines : TRUE
  BY ThreadClasses
<1>6. /\ p \in 0..Len(rd) /\ TSOf(rd) = TSBefore(rd, p) \cup (IF p > 0 THEN {p} ELSE {})
  BY <1>4, TSAppend
<1>7. PICK X : o.polls \in Seq(X)
  BY <1>4 DEF PollsClosed
<1>8. PICK f : Lists(o.polls, TSBefore(rd, p), f) /\ \A q \in TSBefore(rd, p) : PollTells(f[q], rd, q)
  BY <1>4 DEF PollsClosed
<1>9. PollsClosed(polls, rd, TSOf(rd))
  <2>1. CASE p = 0
    BY <1>4, <1>6, <2>1 DEF ThreadsTold
  <2>2. CASE p > 0
    <3>1. PollTells(o.poll, rd, p) /\ o.poll # NoPoll
      BY <2>2, PollOpen DEF ThreadsTold
    <3>2. polls = Append(o.polls, o.poll) /\ TSOf(rd) = TSBefore(rd, p) \cup {p}
      BY <1>6, <2>2, <3>1
    <3> DEFINE g == [q \in TSOf(rd) |-> IF q = p THEN o.poll ELSE f[q]]
               Y == X \cup {o.poll}
    <3>3. \A q \in TSBefore(rd, p) : q < p /\ q # p /\ q \in TSOf(rd)
      BY <1>6 DEF TSBefore, TSOf
    <3>4. g[p] = o.poll /\ \A q \in TSBefore(rd, p) : g[q] = f[q]
      BY <3>2, <3>3
    <3>5. o.polls \in Seq(Y) /\ o.poll \in Y
      BY <1>7
    <3> HIDE DEF g, Y
    <3>6. polls \in Seq(Y)
      BY <3>2, <3>5, OneMore
    <3>7. Lists(polls, TSOf(rd), g)
      <4>1. p \in Nat /\ \A q \in TSBefore(rd, p) : q < p
        BY <1>4, <1>6, <3>3
      <4>2. Lists(o.polls, TSBefore(rd, p), f)
        BY <1>8
      <4>3. Lists(Append(o.polls, o.poll), TSBefore(rd, p) \cup {p}, g)
        BY <3>4, <3>5, <4>1, <4>2, ListsMore
      <4> QED
        BY <3>2, <4>3
    <3>8. \A q \in TSOf(rd) : PollTells(g[q], rd, q)
      BY <1>8, <3>1, <3>2, <3>4
    <3> QED
      BY <3>6, <3>7, <3>8 DEF PollsClosed
  <2> QED
    BY <1>6, <2>1, <2>2
<1>10. (polls = <<>> <=> TSOf(rd) = {}) /\ IsFiniteSet(TSOf(rd))
  <2>1. \E h : Lists(polls, TSOf(rd), h)
    BY <1>9 DEF PollsClosed
  <2>2. IsFiniteSet(TSOf(rd)) /\ Len(polls) = Cardinality(TSOf(rd))
    BY <2>1 DEF Lists
  <2>3. Cardinality(TSOf(rd)) = 0 <=> TSOf(rd) = {}
    BY <2>2, FS_EmptySet
  <2>4. \E Y : polls \in Seq(Y)
    BY <1>9 DEF PollsClosed
  <2>5. polls = <<>> <=> Len(polls) = 0
    BY <2>4
  <2> QED
    BY <2>2, <2>3, <2>5
<1> QED
  BY <1>3, <1>9, <1>10

\* A TS line starts a poll.
LEMMA PollFollowsTS ==
  ASSUME NEW rd \in Seq(ThreadLines), NEW o, NEW p, ThreadsTold(rd, o, p), NEW at \in Nat,
         NEW l, l = [t |-> "ts", at |-> at], NEW s, s = [ClosePoll(o) EXCEPT !.poll = NewPoll(at)]
  PROVE  ThreadsTold(Append(rd, l), FlushRow(s), Len(rd) + 1) /\ s.poll # NoPoll
<1> DEFINE r2 == Append(rd, l)
           N == Len(rd)
<1> PICK x : x = NewPoll(at)
  OBVIOUS
<1> PICK c : c = ClosePoll(o)
  OBVIOUS
<1>1. l \in ThreadLines /\ l.t = "ts" /\ l.at = at /\ l \notin Threads
  BY ThreadClasses
<1>2. N \in Nat /\ r2[N + 1] = l /\ Len(r2) = N + 1
  BY <1>1, OneMore
<1>3. /\ c = [f \in PlistFields |-> c[f]] /\ c.row = NoRow /\ c.queries = o.queries
      /\ PollsClosed(c.polls, rd, TSOf(rd))
  BY CloseTold
<1>4. s = [c EXCEPT !.poll = x]
  OBVIOUS
<1>5. /\ s = [f \in PlistFields |-> s[f]] /\ s.row = NoRow /\ s.queries = o.queries /\ s.polls = c.polls
      /\ s.poll = x
  BY <1>3, <1>4 DEF PlistFields
<1>6. IsPoll(x) /\ x.at = at /\ x.total = 0
  BY BarePoll
<1>7. IsLast(rd, "ts", N, p) /\ GroupsOf(o.queries, rd)
  BY DEF ThreadsTold
<1>8. /\ TSOf(rd) \subseteq 1..p /\ TSBefore(r2, N + 1) = TSOf(rd)
      /\ IsLast(r2, "ts", N + 1, N + 1)
  BY <1>1, <1>7, TSAppend
<1>9. PollsClosed(c.polls, r2, TSOf(rd))
  BY <1>1, <1>3, <1>7, <1>8, PollsStill
<1>10. Those(r2, N + 1, Threads) = {}
  BY <1>1, <1>7, ThoseAppend
<1>11. GroupsOf(o.queries, r2)
  BY <1>1, <1>7, SeenStays DEF GroupsOf
<1> HIDE DEF r2, N
<1>12. PollTells(x, r2, N + 1)
  BY <1>1, <1>2, <1>6, <1>10, FS_EmptySet DEF PollTells
<1> PICK m : m = N + 1
  OBVIOUS
<1>13. m > 0 /\ m # 0 /\ Len(r2) = m
  BY <1>2
<1>14. ThreadsTold(r2, s, m)
  BY <1>5, <1>8, <1>9, <1>11, <1>12, <1>13 DEF ThreadsTold
<1>15. FlushRow(s) = s /\ s.poll # NoPoll
  <2>1. s.poll # NoPoll
    BY <1>13, <1>14, PollOpen
  <2>2. ~NoRow.core
    BY DEF NoRow
  <2>3. [s EXCEPT !.row = NoRow] = s
    BY <1>5 DEF PlistFields
  <2> QED
    BY <1>5, <2>1, <2>2, <2>3 DEF FlushRow
<1> QED
  BY <1>14, <1>15 DEF r2, N

\* A line that is no thread changes nothing.
LEMMA RowPasses ==
  ASSUME NEW rd \in Seq(ThreadLines), NEW o, NEW p, ThreadsTold(rd, o, p),
         NEW l \in ThreadLines, l.t # "ts", p = 0 \/ l \notin Threads
  PROVE  ThreadsTold(Append(rd, l), o, p)
<1> DEFINE r2 == Append(rd, l)
<1>1. /\ IsLast(rd, "ts", Len(rd), p) /\ o = [f \in PlistFields |-> o[f]] /\ o.row = NoRow
      /\ p = 0 => o.poll = NoPoll
      /\ p > 0 => PollTells(o.poll, rd, p)
      /\ PollsClosed(o.polls, rd, TSBefore(rd, p)) /\ GroupsOf(o.queries, rd)
  BY DEF ThreadsTold
<1>2. /\ p \in 0..Len(rd) /\ Len(rd) \in Nat /\ Len(r2) = Len(rd) + 1 /\ TSOf(rd) \subseteq 1..p
      /\ TSBefore(r2, p) = TSBefore(rd, p)
  BY <1>1, TSAppend, OneMore
<1>3. IsLast(r2, "ts", Len(r2), p)
  BY <1>1, <1>2, LastAppend
<1>4. p > 0 => PollTells(o.poll, r2, p)
  <2> SUFFICES ASSUME p > 0 PROVE PollTells(o.poll, r2, p)
    OBVIOUS
  <2>1. p \in 1..p /\ l \notin Threads
    BY <1>2
  <2> QED
    BY <1>1, <2>1, PollTellsStill
<1>5. PollsClosed(o.polls, r2, TSBefore(r2, p))
  <2>1. TSBefore(rd, p) \subseteq 1..p /\ p \notin TSBefore(rd, p)
    BY <1>2 DEF TSBefore
  <2>2. PollsClosed(o.polls, r2, TSBefore(rd, p))
    BY <1>1, <2>1, PollsStill
  <2> QED
    BY <1>2, <2>2
<1>6. GroupsOf(o.queries, r2)
  BY <1>1, <1>2, SeenStays DEF GroupsOf
<1> HIDE DEF r2
<1> QED
  BY <1>1, <1>3, <1>4, <1>5, <1>6 DEF ThreadsTold, r2

\* A thread is seen where it was listed, and summed up in the summary of its query.
LEMMA ThreadSummed ==
  ASSUME NEW rd \in Seq(ThreadLines), NEW l \in Threads, NEW p, p > 0, IsLast(rd, "ts", Len(rd), p),
         NEW g, GroupsOf(g, rd), NEW q, q = Query(RowOf(l.fields)),
         NEW h, h = IF Eligible(q) THEN AddQuery(g, NewObserved(rd[p].at, q)) ELSE g
  PROVE  GroupsOf(h, Append(rd, l))
<1> PICK old : IsSeen(rd, old) /\ GroupsTell(g, old)
  BY DEF GroupsOf
<1> PICK n \in Nat : n = Len(rd) + 1
  BY OneMore
<1> DEFINE r2 == Append(rd, l)
           seen == [i \in ThreadsIn(rd) \cup {n} |-> IF i = n THEN SeenAt(r2, n, p) ELSE old[i]]
<1>1. l \in ThreadLines
  BY DEF Threads
<1>2. ThreadsIn(r2) = ThreadsIn(rd) \cup {n} /\ \A i \in ThreadsIn(rd) : i < n
  BY <1>1, ThreadsAppend
<1>3. \A i \in ThreadsIn(rd) : \E k : k > 0 /\ IsLast(r2, "ts", i - 1, k) /\ old[i] = SeenAt(r2, i, k)
  BY <1>1, SeenStays
<1>4. Len(rd) \in Nat /\ n - 1 = Len(rd) /\ Len(rd) \in 0..Len(rd)
  <2>1. Len(rd) \in Nat
    BY OneMore
  <2> QED
    BY <2>1
<1>5. IsLast(r2, "ts", n - 1, p)
  BY <1>1, <1>4, LastAppend
<1>6. p \in 1..Len(rd)
  BY <1>4 DEF IsLast
<1>7. r2[p] = rd[p] /\ r2[n] = l
  BY <1>1, <1>6, OneMore
<1>8. DOMAIN old = ThreadsIn(rd)
  BY DEF IsSeen
<1> HIDE DEF r2
<1>9. n \notin ThreadsIn(rd)
  <2>1. ~(n < n)
    BY <1>4
  <2> QED
    BY <1>2, <2>1
<1>10. /\ DOMAIN seen = ThreadsIn(rd) \cup {n} /\ seen[n] = SeenAt(r2, n, p)
       /\ \A i \in ThreadsIn(rd) : seen[i] = old[i]
  BY <1>9 DEF r2
<1> HIDE DEF seen
<1>11. seen = [i \in ThreadsIn(r2) |-> seen[i]]
  BY <1>2, <1>9 DEF seen
<1>12. \A i \in ThreadsIn(r2) : \E k : k > 0 /\ IsLast(r2, "ts", i - 1, k) /\ seen[i] = SeenAt(r2, i, k)
  BY <1>2, <1>3, <1>5, <1>10
<1>13. IsSeen(r2, seen)
  BY <1>2, <1>10, <1>11, <1>12 DEF IsSeen
<1>14. seen[n].at = rd[p].at /\ seen[n].row = q
  BY <1>7, <1>10 DEF SeenAt
<1>15. r2 \in Seq(ThreadLines)
  BY <1>1, OneMore DEF r2
<1>16. AreSightings(seen)
  BY <1>13, <1>15, SeenTyped
<1>17. h = IF Eligible(seen[n].row) THEN AddQuery(g, NewObserved(seen[n].at, seen[n].row)) ELSE g
  BY <1>14, Zenon
<1>18. DOMAIN seen = DOMAIN old \cup {n} /\ \A i \in DOMAIN old : i < n /\ seen[i] = old[i]
  BY <1>2, <1>8, <1>10
<1>19. GroupsTell(h, seen)
  BY <1>16, <1>17, <1>18, GroupsTake
<1> QED
  BY <1>13, <1>19 DEF GroupsOf, r2

\* A thread is counted in the poll in progress, and seen.
LEMMA ThreadTaken ==
  ASSUME NEW rd \in Seq(ThreadLines), NEW o, NEW p, ThreadsTold(rd, o, p), p > 0,
         NEW l \in Threads, NEW row, row = RowOf(l.fields),
         NEW s, s = [f \in PlistFields |-> s[f]], s.row = NoRow, s.polls = o.polls,
         s.poll = CountRow(o.poll, row),
         s.queries = IF Eligible(Query(row)) THEN AddQuery(o.queries, NewObserved(o.poll.at, Query(row)))
                     ELSE o.queries
  PROVE  ThreadsTold(Append(rd, l), s, p)
<1> DEFINE r2 == Append(rd, l)
<1> PICK n : n = Len(rd) + 1
  OBVIOUS
<1>1. l \in ThreadLines /\ l.t # "ts" /\ l.fields \in Rows
  BY ThreadClasses DEF Threads
<1>2. /\ IsLast(rd, "ts", Len(rd), p) /\ PollTells(o.poll, rd, p)
      /\ PollsClosed(o.polls, rd, TSBefore(rd, p)) /\ GroupsOf(o.queries, rd)
  BY DEF ThreadsTold
<1>3. /\ p \in 0..Len(rd) /\ Len(rd) \in Nat /\ Len(r2) = n /\ TSOf(rd) \subseteq 1..p
      /\ TSBefore(r2, p) = TSBefore(rd, p)
  BY <1>1, <1>2, TSAppend, OneMore
<1>4. IsLast(r2, "ts", Len(r2), p)
  <2>1. IsLast(r2, "ts", n, p)
    BY <1>1, <1>2, LastAppend
  <2> QED
    BY <1>3, <2>1
<1>5. p \in Nat /\ p # 0 /\ r2[p] = rd[p]
  <2>1. p \in 1..Len(rd)
    BY <1>3
  <2> QED
    BY <1>1, <2>1, OneMore
<1>6. PollTells(s.poll, r2, p)
  <2>1. IsPoll(o.poll) /\ o.poll.at = rd[p].at /\ o.poll.total = Cardinality(Those(rd, p, Threads))
    BY <1>2 DEF PollTells
  <2>2. Those(r2, p, Threads) = Those(rd, p, Threads) \cup {n}
    BY <1>1, <1>2, ThoseAppend
  <2>3. Cardinality(Those(r2, p, Threads)) = o.poll.total + 1
    BY <1>5, <2>1, <2>2, ThoseFinite
  <2>4. IsPoll(s.poll) /\ s.poll.at = o.poll.at /\ s.poll.total = o.poll.total + 1
    BY <1>1, <2>1, PollCounts
  <2> HIDE DEF r2
  <2> QED
    BY <1>5, <2>1, <2>3, <2>4 DEF PollTells
<1>7. PollsClosed(s.polls, r2, TSBefore(r2, p))
  <2>1. TSBefore(rd, p) \subseteq 1..p /\ p \notin TSBefore(rd, p)
    BY <1>3 DEF TSBefore
  <2>2. PollsClosed(o.polls, r2, TSBefore(rd, p))
    BY <1>1, <1>2, <2>1, PollsStill
  <2> QED
    BY <1>3, <2>2
<1>8. GroupsOf(s.queries, r2)
  BY <1>2, ThreadSummed DEF PollTells
<1> HIDE DEF r2
<1> QED
  BY <1>4, <1>5, <1>6, <1>7, <1>8 DEF ThreadsTold, r2

\* A row line becomes the row in progress: it is a thread when that is closed.
LEMMA RowFollows ==
  ASSUME NEW rd \in Seq(ThreadLines), NEW o, NEW p, ThreadsTold(rd, o, p), p > 0, NEW fields \in Rows,
         NEW l, l = [t |-> "row", fields |-> fields], NEW s, s = [o EXCEPT !.row = RowOf(fields)]
  PROVE  ThreadsTold(Append(rd, l), FlushRow(s), p) /\ s.poll # NoPoll
<1> PICK row : row = RowOf(fields)
  OBVIOUS
<1>1. o = [f \in PlistFields |-> o[f]] /\ o.row = NoRow /\ o.poll # NoPoll
  BY PollOpen DEF ThreadsTold
<1>2. /\ l \in ThreadLines /\ l.t # "ts" /\ l.fields = fields
      /\ l \in Threads <=> row.core
  BY ThreadClasses
<1>3. /\ s.poll # NoPoll
      /\ ~row.core => FlushRow(s) = o
      /\ row.core =>
           /\ FlushRow(s) = [f \in PlistFields |-> FlushRow(s)[f]]
           /\ FlushRow(s).row = NoRow /\ FlushRow(s).polls = o.polls
           /\ FlushRow(s).poll = CountRow(o.poll, row)
           /\ FlushRow(s).queries = IF Eligible(Query(row))
                                    THEN AddQuery(o.queries, NewObserved(o.poll.at, Query(row))) ELSE o.queries
  BY <1>1, FlushTakes
<1>4. CASE l \notin Threads
  BY <1>2, <1>3, <1>4, RowPasses
<1>5. CASE l \in Threads
  BY <1>2, <1>3, <1>5, ThreadTaken
<1> QED
  BY <1>4, <1>5

\* Sorting by time keeps every poll, once.
LEMMA SortedPollsAre ==
  ASSUME NEW X, NEW polls \in Seq(X), \A i \in 1..Len(polls) : polls[i].at \in Nat, NEW s, s = SortedPolls(polls)
  PROVE  /\ Len(s) = Len(polls) /\ ToSet(s) = ToSet(polls)
<1> DEFINE S == DOMAIN polls
           before(i, j) == polls[i].at < polls[j].at \/ (polls[i].at = polls[j].at /\ i < j)
           B == {p \in S \X S : before(p[1], p[2])}
           order == InOrder(S, B)
           N == Len(polls)
<1>1. S = 1..N /\ N \in Nat
  OBVIOUS
<1>2. IsFiniteSet(1..N) /\ Cardinality(1..N) = N
  BY <1>1, FS_Interval
<1>3. \A i, j \in S : <<i, j>> \in B <=> polls[i].at < polls[j].at \/ (polls[i].at = polls[j].at /\ i < j)
  OBVIOUS
<1>4. s = [n \in DOMAIN order |-> polls[order[n]]]
  BY DEF SortedPolls
<1>5. \A i \in S : polls[i].at \in Nat /\ i \in Nat
  BY <1>1
<1> HIDE DEF B, S, N
<1>6. StrictOrder(S, B)
  <2>1. \A i \in S : <<i, i>> \notin B
    BY <1>3, <1>5
  <2>2. ASSUME NEW i \in S, NEW j \in S, NEW k \in S, <<i, j>> \in B, <<j, k>> \in B PROVE <<i, k>> \in B
    <3>1. /\ polls[i].at \in Nat /\ polls[j].at \in Nat /\ polls[k].at \in Nat
          /\ i \in Nat /\ j \in Nat /\ k \in Nat
      BY <1>5
    <3>2. /\ polls[i].at < polls[j].at \/ (polls[i].at = polls[j].at /\ i < j)
          /\ polls[j].at < polls[k].at \/ (polls[j].at = polls[k].at /\ j < k)
      BY <1>3, <2>2
    <3>3. polls[i].at < polls[k].at \/ (polls[i].at = polls[k].at /\ i < k)
      BY <3>1, <3>2
    <3> QED
      BY <1>3, <3>3
  <2>3. \A i, j \in S : i # j => <<i, j>> \in B \/ <<j, i>> \in B
    BY <1>3, <1>5
  <2> QED
    BY <2>1, <2>2, <2>3 DEF StrictOrder
<1>7. Cardinality(S) = N /\ IsFiniteSet(S)
  BY <1>1, <1>2
<1>8. order \in [1..N -> S] /\ \A i \in S : \E n \in 1..N : order[n] = i
  BY <1>6, <1>7, InOrderSorts
<1> HIDE DEF order
<1>9. DOMAIN s = 1..N /\ (\A n \in 1..N : s[n] = polls[order[n]]) /\ s = [n \in 1..N |-> polls[order[n]]]
  BY <1>4, <1>8
<1>10. Len(s) = N
  BY <1>1, <1>9
<1>11. \A x : x \in ToSet(s) <=> x \in ToSet(polls)
  <2>1. \A x : x \in ToSet(s) <=> \E n \in 1..N : x = polls[order[n]]
    BY <1>9 DEF ToSet
  <2>2. \A x : x \in ToSet(polls) <=> \E i \in S : x = polls[i]
    BY DEF ToSet, S
  <2> QED
    BY <1>8, <2>1, <2>2
<1> QED
  BY <1>10, <1>11 DEF N

-----------------------------------------------------------------------------
\* What the parser returns of the lines it has read.
PlistReturned(rd, data) ==
  /\ IsFiniteSet(TSOf(rd)) /\ Len(data.polls) = Cardinality(TSOf(rd))
  /\ \A q \in TSOf(rd) : \E s \in ToSet(data.polls) : PollTells(s, rd, q)
  /\ \A s \in ToSet(data.polls) :
       DOMAIN s.state \subseteq data.states /\ \E q \in TSOf(rd) : PollTells(s, rd, q)
  /\ \E seen : IsSeen(rd, seen) /\ SummariseAll(data.queries, seen)

\* Everything that was closed is returned.
LEMMA ThreadsReturned ==
  ASSUME NEW rd \in Seq(ThreadLines), NEW o, NEW p, ThreadsTold(rd, o, p), NEW c, c = ClosePoll(o),
         NEW data, data.polls = SortedPolls(c.polls),
         data.states = UNION {DOMAIN c.polls[i].state : i \in DOMAIN c.polls},
         data.queries = MergeAllQueries(SetToSeq({c.queries[q] : q \in DOMAIN c.queries}))
  PROVE  PlistReturned(rd, data)
<1>1. c.queries = o.queries /\ PollsClosed(c.polls, rd, TSOf(rd)) /\ IsFiniteSet(TSOf(rd))
  BY CloseTold
<1> PICK X : c.polls \in Seq(X)
  BY <1>1 DEF PollsClosed
<1> PICK f : Lists(c.polls, TSOf(rd), f) /\ \A q \in TSOf(rd) : PollTells(f[q], rd, q)
  BY <1>1 DEF PollsClosed
<1> PICK polls : polls = c.polls
  OBVIOUS
<1>2. /\ TSOf(rd) \in SUBSET Nat /\ Len(polls) = Cardinality(TSOf(rd)) /\ polls \in Seq(X)
      /\ \A q \in TSOf(rd) : polls[Rank(TSOf(rd), q)] = f[q]
  BY DEF Lists
<1>3. \A n \in 1..Len(polls) : Sorted(TSOf(rd))[n] \in TSOf(rd) /\ polls[n] = f[Sorted(TSOf(rd))[n]]
  BY <1>1, <1>2, ListsIs, RankIs
<1>4. \A n \in 1..Len(polls) : \E q \in TSOf(rd) : PollTells(polls[n], rd, q)
  BY <1>3
<1>5. \A q \in TSOf(rd) : \E n \in 1..Len(polls) : PollTells(polls[n], rd, q)
  <2> SUFFICES ASSUME NEW q \in TSOf(rd) PROVE \E n \in 1..Len(polls) : PollTells(polls[n], rd, q)
    OBVIOUS
  <2>1. Rank(TSOf(rd), q) \in 1..Cardinality(TSOf(rd))
    BY <1>1, <1>2, RankIs
  <2> QED
    BY <1>2, <2>1
<1>6. \A n \in 1..Len(polls) : polls[n].at \in Nat
  BY <1>4 DEF PollTells, IsPoll
<1>7. Len(data.polls) = Len(polls) /\ ToSet(data.polls) = ToSet(polls)
  BY <1>2, <1>6, SortedPollsAre
<1>8. DOMAIN polls = 1..Len(polls) /\ \A s : s \in ToSet(polls) <=> \E n \in 1..Len(polls) : s = polls[n]
  BY <1>2 DEF ToSet
<1>9. \A n \in 1..Len(polls) : DOMAIN polls[n].state \subseteq data.states
  BY <1>8
<1>10. \E seen : IsSeen(rd, seen) /\ SummariseAll(data.queries, seen)
  <2> PICK seen : IsSeen(rd, seen) /\ GroupsTell(o.queries, seen)
    BY DEF ThreadsTold, GroupsOf
  <2> PICK g, qs : g = o.queries /\ qs = data.queries
    OBVIOUS
  <2>1. AreSightings(seen)
    BY SeenTyped
  <2>2. GroupsTell(g, seen) /\ qs = MergeAllQueries(SetToSeq({g[s] : s \in DOMAIN g}))
    BY <1>1
  <2>3. SummariseAll(qs, seen)
    BY <2>1, <2>2, GroupsSummarise
  <2> QED
    BY <2>3
<1>11. /\ \A q \in TSOf(rd) : \E s \in ToSet(data.polls) : PollTells(s, rd, q)
       /\ \A s \in ToSet(data.polls) :
            DOMAIN s.state \subseteq data.states /\ \E q \in TSOf(rd) : PollTells(s, rd, q)
  <2>1. ASSUME NEW q \in TSOf(rd) PROVE \E s \in ToSet(data.polls) : PollTells(s, rd, q)
    BY <1>5, <1>7, <1>8
  <2>2. ASSUME NEW s \in ToSet(data.polls)
        PROVE  DOMAIN s.state \subseteq data.states /\ \E q \in TSOf(rd) : PollTells(s, rd, q)
    BY <1>4, <1>7, <1>8, <1>9
  <2> QED
    BY <2>1, <2>2
<1> QED
  BY <1>1, <1>2, <1>7, <1>10, <1>11 DEF PlistReturned

\* The parser of the process list knows, at every line, what the lines read told.
ProcesslistInv ==
  kind = "processlist" =>
    /\ start \in Nat /\ read \in Seq(ThreadLines)
    /\ \E p : ThreadsTold(read, FlushRow(loc), p) /\ (loc.poll = NoPoll <=> p = 0)
    /\ result.state = "data" => PlistReturned(read, result.data)

\* It is kept by every line and by the end of the file ...
LEMMA ProcesslistStep == ProcesslistInv /\ [Next]_parserVars => ProcesslistInv'
<1> SUFFICES ASSUME ProcesslistInv, [Next]_parserVars, kind' = "processlist" PROVE ProcesslistInv'
  BY DEF ProcesslistInv
<1>1. kind = "processlist"
  BY KindStays
<1> PICK o : o = FlushRow(loc)
  OBVIOUS
<1> PICK p : ThreadsTold(read, o, p) /\ (loc.poll = NoPoll <=> p = 0)
  BY <1>1 DEF ProcesslistInv
<1>2. start \in Nat /\ read \in Seq(ThreadLines) /\ Len(read) \in Nat /\ p \in Nat
  BY <1>1, PollOpen DEF ProcesslistInv
<1>3. ASSUME NEW l \in ThreadLines, NEW s, NEW q, NEW d, Line("processlist", l, s, d),
             ThreadsTold(Append(read, l), FlushRow(s), q), s.poll = NoPoll <=> q = 0
      PROVE  ProcesslistInv'
  <2>1. /\ result.state = "reading" /\ result' = result /\ start' = start
        /\ read' = Append(read, l) /\ loc' = s
    BY <1>3, LineFacts
  <2>2. Append(read, l) \in Seq(ThreadLines)
    BY <1>2, <1>3, OneMore
  <2> QED
    BY <1>2, <1>3, <2>1, <2>2 DEF ProcesslistInv
<1>4. CASE UNCHANGED parserVars
  BY <1>1, <1>4 DEF ProcesslistInv, parserVars
<1>5. CASE ProcesslistTS
  <2> PICK at \in {start, start + Len(read) + 1} :
        Line("processlist", [t |-> "ts", at |-> at], [ClosePoll(o) EXCEPT !.poll = NewPoll(at)], None)
    BY <1>5 DEF ProcesslistTS
  <2>1. at \in Nat
    BY <1>2
  <2> PICK l, s, n : l = [t |-> "ts", at |-> at] /\ s = [ClosePoll(o) EXCEPT !.poll = NewPoll(at)] /\ n = Len(read) + 1
    OBVIOUS
  <2>2. l \in ThreadLines
    BY <2>1, ThreadClasses
  <2>3. ThreadsTold(Append(read, l), FlushRow(s), n) /\ s.poll # NoPoll
    BY <1>2, <2>1, PollFollowsTS
  <2>4. n # 0
    BY <1>2
  <2> QED
    BY <1>3, <2>2, <2>3, <2>4
<1>6. CASE ProcesslistRow
  <2> PICK fields \in Rows :
        Line("processlist", [t |-> "row", fields |-> fields],
             IF loc.poll = NoPoll THEN loc ELSE [o EXCEPT !.row = RowOf(fields)], None)
    BY <1>6 DEF ProcesslistRow
  <2> PICK l : l = [t |-> "row", fields |-> fields]
    OBVIOUS
  <2>1. l \in ThreadLines /\ l.t # "ts"
    BY ThreadClasses
  <2>2. CASE p = 0
    BY <1>2, <1>3, <2>1, <2>2, RowPasses
  <2>3. CASE p # 0
    BY <1>2, <1>3, <2>1, <2>3, RowFollows
  <2> QED
    BY <2>2, <2>3
<1>7. CASE ProcesslistEnd
  BY <1>2, <1>7, EndFacts, ThreadsReturned DEF ProcesslistEnd, ProcesslistInv
<1>8. ProcesslistNext \/ UNCHANGED parserVars
  BY <1>1 DEF Next, HostKinds
<1> QED
  BY <1>4, <1>5, <1>6, <1>7, <1>8 DEF ProcesslistNext

\* ... and holds before the first.
LEMMA ProcesslistStarts == Init => ProcesslistInv
<1> SUFFICES ASSUME Init, kind = "processlist" PROVE ProcesslistInv
  BY DEF ProcesslistInv
<1>1. read = <<>> /\ loc = ProcesslistStart /\ result.state = "reading" /\ start \in Nat
  BY LineAssumption, MinIs DEF StartOf, HostKinds, Init
<1>2. /\ loc = [f \in PlistFields |-> loc[f]] /\ loc.polls = <<>> /\ loc.poll = NoPoll /\ loc.row = NoRow
      /\ loc.queries = NoGroups
  BY <1>1 DEF ProcesslistStart, PlistFields
<1>3. FlushRow(loc) = loc
  BY <1>2 DEF FlushRow
<1>4. read \in Seq(ThreadLines) /\ Len(read) = 0
  BY <1>1
<1>5. IsLast(read, "ts", Len(read), 0)
  BY <1>4 DEF IsLast
<1>6. TSBefore(read, 0) = {} /\ ThreadsIn(read) = {}
  BY <1>4 DEF TSBefore, TSOf, ThreadsIn
<1>7. IsFiniteSet({}) /\ Cardinality({}) = 0 /\ Len(<<>>) = 0 /\ <<>> \in Seq({})
  BY FS_EmptySet
<1>8. PollsClosed(loc.polls, read, {})
  BY <1>2, <1>7 DEF Lists, PollsClosed
<1>9. GroupsOf(loc.queries, read)
  BY <1>2, <1>6, <1>7 DEF IsSeen, Shapes, NoGroups, GroupsTell, GroupsOf
<1>10. ThreadsTold(read, loc, 0)
  BY <1>2, <1>5, <1>6, <1>8, <1>9 DEF ThreadsTold
<1> QED
  BY <1>1, <1>2, <1>3, <1>4, <1>10 DEF ProcesslistInv

\* The threads of a poll, and of all polls, by the lines they were listed in.
LEMMA ThreadsAre ==
  ASSUME read \in Seq(ThreadLines)
  PROVE  /\ Positions("ts", Len(read)) = TSOf(read)
         /\ \A q \in TSOf(read) : ThreadsOf(q) = Those(read, q, Threads)
         /\ UNION {ThreadsOf(q) : q \in TSOf(read)} = ThreadsIn(read)
         /\ \A i \in 1..Len(read) : \A h : IsLast(read, "ts", i - 1, h) <=> h = LastBefore("ts", i)
<1> DEFINE N == Len(read)
           Core(i) == \E j \in DOMAIN read[i].fields : read[i].fields[j][1] \in {"State", "Command"}
<1>1. N \in Nat /\ \A i \in 1..N : read[i] \in ThreadLines
  OBVIOUS
<1>2. Positions("ts", N) = TSOf(read)
  BY DEF Positions, TSOf
<1>3. ASSUME NEW i \in 1..N, NEW h PROVE IsLast(read, "ts", i - 1, h) <=> h = LastBefore("ts", i)
  <2> PICK n : n = i - 1
    OBVIOUS
  <2>1. n \in Nat /\ n <= N /\ n + 1 = i
    BY <1>1
  <2> QED
    BY <2>1, LastIs
<1>4. \A i \in 1..N : read[i] \in Threads <=> read[i].t = "row" /\ Core(i)
  BY <1>1 DEF Threads
<1>5. \A q, i : i \in ThreadsOf(q) <=> i \in 1..N /\ read[i].t = "row" /\ LastBefore("ts", i) = q /\ Core(i)
  BY DEF ThreadsOf, Positions
<1>6. \A i \in 1..N : read[i] \in Threads => read[i].t # "ts"
  BY DEF Threads
<1> HIDE DEF N, Core
<1>7. \A q, i : i \in ThreadsOf(q) <=> i \in 1..N /\ read[i] \in Threads /\ IsLast(read, "ts", i - 1, q)
  <2> TAKE q, i
  <2>1. CASE i \in 1..N
    BY <1>3, <1>4, <1>5, <2>1
  <2>2. CASE i \notin 1..N
    BY <1>5, <2>2
  <2> QED
    BY <2>1, <2>2
<1>8. ASSUME NEW q \in TSOf(read) PROVE ThreadsOf(q) = Those(read, q, Threads)
  <2>1. q \in 1..N /\ read[q].t = "ts"
    BY DEF TSOf, N
  <2>2. ASSUME NEW i PROVE i \in ThreadsOf(q) <=> i \in Those(read, q, Threads)
    <3>1. i \in Those(read, q, Threads) <=>
            i \in q + 1..N /\ read[i] \in Threads /\ \A k \in q + 1..i : read[k].t # "ts"
      BY DEF Those, N
    <3>2. CASE i \in 1..N /\ read[i] \in Threads
      BY <1>1, <1>6, <1>7, <2>1, <3>1, <3>2 DEF IsLast
    <3>3. CASE ~(i \in 1..N /\ read[i] \in Threads)
      BY <1>1, <1>7, <2>1, <3>1, <3>3
    <3> QED
      BY <3>2, <3>3
  <2> QED
    BY <2>2
<1>9. \A i : i \in UNION {ThreadsOf(q) : q \in TSOf(read)} <=> i \in ThreadsIn(read)
  <2> TAKE i
  <2>1. i \in ThreadsIn(read) <=> i \in 1..N /\ read[i] \in Threads /\ \E h : h > 0 /\ IsLast(read, "ts", i - 1, h)
    BY DEF ThreadsIn, N
  <2>2. i \in UNION {ThreadsOf(q) : q \in TSOf(read)} <=> \E q \in TSOf(read) : i \in ThreadsOf(q)
    OBVIOUS
  <2>3. \A q \in TSOf(read) : q > 0
    BY DEF TSOf
  <2>4. ASSUME i \in 1..N, NEW h, h > 0, IsLast(read, "ts", i - 1, h) PROVE h \in TSOf(read)
    BY <1>1, <2>4 DEF IsLast, TSOf, N
  <2> QED
    BY <1>7, <2>1, <2>2, <2>3, <2>4
<1>10. UNION {ThreadsOf(q) : q \in TSOf(read)} = ThreadsIn(read)
  BY <1>9
<1> QED
  BY <1>2, <1>3, <1>8, <1>10 DEF N

\* What the parser returns counts every thread once.
LEMMA ThreadsCounted ==
  ASSUME read \in Seq(ThreadLines), NEW data, PlistReturned(read, data)
  PROVE  LET rows == UNION {ThreadsOf(p) : p \in Positions("ts", Len(read))}
             seen == [i \in rows |-> [at |-> read[LastBefore("ts", i)].at, row |-> Query(Listed(i))]]
         IN /\ Len(data.polls) = Cardinality(Positions("ts", Len(read)))
            /\ \A at \in {read[p].at : p \in Positions("ts", Len(read))} :
                 {s.total : s \in {s \in ToSet(data.polls) : s.at = at}} =
                   {Cardinality(ThreadsOf(p)) : p \in {p \in Positions("ts", Len(read)) : read[p].at = at}}
            /\ \A s \in ToSet(data.polls) :
                 /\ Total(s.state) = s.total
                 /\ Total(s.command) = s.total
                 /\ s.active + s.sleeping = s.total
                 /\ DOMAIN s.state \subseteq data.states
                 /\ s.hasTime \/ s.maxTime = 0
            /\ SummariseAll(data.queries, seen)
<1> PICK S : S = TSOf(read)
  OBVIOUS
<1>1. /\ Positions("ts", Len(read)) = S
      /\ \A q \in S : ThreadsOf(q) = Those(read, q, Threads)
      /\ UNION {ThreadsOf(q) : q \in S} = ThreadsIn(read)
      /\ \A i \in 1..Len(read) : \A h : IsLast(read, "ts", i - 1, h) <=> h = LastBefore("ts", i)
  BY ThreadsAre
<1>2. /\ Len(data.polls) = Cardinality(S)
      /\ \A q \in S : \E s \in ToSet(data.polls) : PollTells(s, read, q)
      /\ \A s \in ToSet(data.polls) :
           DOMAIN s.state \subseteq data.states /\ \E q \in S : PollTells(s, read, q)
  BY DEF PlistReturned
<1>3. ASSUME NEW s, NEW q \in S, PollTells(s, read, q)
      PROVE  /\ s.at = read[q].at /\ s.total = Cardinality(ThreadsOf(q))
             /\ Total(s.state) = s.total /\ Total(s.command) = s.total /\ s.active + s.sleeping = s.total
             /\ s.hasTime \/ s.maxTime = 0
  BY <1>1, <1>3 DEF PollTells, IsPoll, CountsAll
<1>4. ASSUME NEW at
      PROVE  {s.total : s \in {s \in ToSet(data.polls) : s.at = at}} =
               {Cardinality(ThreadsOf(p)) : p \in {p \in S : read[p].at = at}}
  BY <1>2, <1>3
<1>5. \A s \in ToSet(data.polls) :
        /\ Total(s.state) = s.total /\ Total(s.command) = s.total /\ s.active + s.sleeping = s.total
        /\ DOMAIN s.state \subseteq data.states /\ (s.hasTime \/ s.maxTime = 0)
  BY <1>2, <1>3
<1>6. SummariseAll(data.queries,
        [i \in ThreadsIn(read) |-> [at |-> read[LastBefore("ts", i)].at, row |-> Query(Listed(i))]])
  <2> PICK seen : IsSeen(read, seen) /\ SummariseAll(data.queries, seen)
    BY DEF PlistReturned
  <2>1. \A i \in ThreadsIn(read) : seen[i] = [at |-> read[LastBefore("ts", i)].at, row |-> Query(Listed(i))]
    <3> SUFFICES ASSUME NEW i \in ThreadsIn(read)
                 PROVE  seen[i] = [at |-> read[LastBefore("ts", i)].at, row |-> Query(Listed(i))]
      OBVIOUS
    <3> PICK h : h > 0 /\ IsLast(read, "ts", i - 1, h) /\ seen[i] = SeenAt(read, i, h)
      BY DEF IsSeen
    <3>1. i \in 1..Len(read)
      BY DEF ThreadsIn
    <3>2. h = LastBefore("ts", i)
      BY <1>1, <3>1
    <3> QED
      BY <3>2 DEF SeenAt, Listed
  <2>2. seen = [i \in ThreadsIn(read) |-> seen[i]]
    BY DEF IsSeen
  <2>3. seen = [i \in ThreadsIn(read) |-> [at |-> read[LastBefore("ts", i)].at, row |-> Query(Listed(i))]]
    BY <2>1, <2>2
  <2> QED
    BY <2>3
<1> QED
  BY <1>1, <1>2, <1>4, <1>5, <1>6

\* parse/processlist.go, for any rows and captures: every poll becomes a sample, whose threads are
\* the rows of that poll, the one that the end of the file cuts off included, in each dimension; and
\* every shape of query has one summary, which counts, spans and bounds the rows that ran it.
THEOREM ThreadsAreCounted == Spec => []ThreadsCountedOnce
<1>1. ProcesslistInv => ThreadsCountedOnce
  <2> SUFFICES ASSUME ProcesslistInv, kind = "processlist", result.state = "data" PROVE ThreadsCountedOnce
    BY DEF ThreadsCountedOnce
  <2>1. read \in Seq(ThreadLines) /\ PlistReturned(read, result.data)
    BY DEF ProcesslistInv
  <2> QED
    BY <2>1, ThreadsCounted DEF ThreadsCountedOnce
<1> QED
  BY <1>1, ProcesslistStarts, ProcesslistStep, PTL DEF Spec
=============================================================================
