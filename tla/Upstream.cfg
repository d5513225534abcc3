SPECIFICATION FairSpec
CONSTANTS
  Servers = {a, b}
  Loops = {l1}
  Savers = {s1}
  Batches = 2
  NoLoop = NoLoop
  NoServer = NoServer
INVARIANT OnePairing
PROPERTY HandsOver
PROPERTY HistoryArrives
