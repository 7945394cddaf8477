SPECIFICATION Spec
CONSTANTS
  vmstat = vmstat
  top = top
  whole = whole
  late = late
  day = day
  sample = sample
  x = x
  None = None
  Page <- MCPage
  Windows = {whole, late, day, sample}
  Extents <- MCExtents
  Moment <- MCMoment
  Counters = {x}
  MaxCards = 2
  Layouts <- MCLayouts
  DefaultVisible = {x}
INVARIANTS
  ResetRestoresExtents
