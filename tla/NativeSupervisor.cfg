SPECIFICATION FairSpec
CONSTANTS
  Procs = {p1, p2, p3}
  Supers = {m1}
  Callers = {c1, c2}
  MaxOrphans = 1
  NoProc = NoProc
  NoSuper = NoSuper
  NoEntry = NoEntry
INVARIANT NoStray
PROPERTY SupervisorsMoveOn
