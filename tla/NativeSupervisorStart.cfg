SPECIFICATION SteadySpec
CONSTANTS
  Procs = {p1, p2, p3}
  Supers = {m1, m2}
  Callers = {c1}
  MaxOrphans = 0
  NoProc = NoProc
  NoSuper = NoSuper
  NoEntry = NoEntry
INVARIANT StopStops
