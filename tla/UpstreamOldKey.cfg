SPECIFICATION Spec
CONSTANTS
  Servers = {a, b}
  Loops = {l1}
  Savers = {s1}
  Batches = 1
  NoLoop = NoLoop
  NoServer = NoServer
INVARIANT KeyOfServer
