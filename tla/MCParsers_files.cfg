SPECIFICATION Spec
CHECK_DEADLOCK FALSE
CONSTANTS
  Kinds <- MCKinds
  MaxLines <- MCMaxLines
  Starts = {9, 14}
  Devices = {sda, sdb}
  Readings = {1, 2}
  Pids = {1, 2}
  Loads = {1}
  Day = 8
  Instants = {6, 10, 15, 17, 24}
  Counters = {c1}
  Sections = {"Tcp", "Udp", "UdpLite"}
  Tallies = {1, 2}
  Sites = {s1, s2}
  Mutexes = {m1}
  Pages = {1, 2}
  StatusNames <- MCStatusNames
  Tally = {1, 3}
  VmstatColumns = {"r", "us"}
  Headers <- MCHeaders
  VmstatRows <- MCVmstatRows
  Variables = {v1, v2}
  Settings = {x, y}
  Rows <- MCRows
  Fields <- MCFields
  CoreFields <- MCFields
  Charted <- MCCharted
  Sizes = {1, 2}
  Facts = {f1, f2}
  Wanted = {k1, k2}
  Disks <- MCDisks
  Limit = 2
INVARIANTS
  TopClockRecovered
  PollsCountedOnce
  ThreadsCountedOnce
  WaitsUnderTheirSite
  IostatBySecond
  DeltasTelescope
  CompleteBeatsPartial
