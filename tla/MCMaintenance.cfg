CONSTANTS
  MaxTasks = 2
  Units = 1
  Keep = 1
  GiveUp = 1
  Keys = {k1, k2}
  NoKey = NoKey
  Page = 1
  MaxAdded = 3
  MaxEdits = 3
  Copiers = {b1, b2}
  Days = 4
  Month <- TwoMonths
  KeepRecent = 1
  Programs <- FourLists
  MaxOpens = 3
  Procs = {p1, p2, p3}
  Nobody = Nobody
  MaxStarts = 4
  Ports = {o1, o2}
  Off = Off
  Never = Never
  Askers = {r1, r2}
  MaxAsks = 2
  MaxStops = 1
SPECIFICATION Spec
SYMMETRY Symmetry
INVARIANTS
  TasksToldApart
  ArchiveComesBack
  NothingIsDropped
  AddressIsTrue
CHECK_DEADLOCK FALSE
