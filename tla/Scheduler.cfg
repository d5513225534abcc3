SPECIFICATION SceneSpec
CONSTANTS
  Loops = {l1, l2}
  Slugs = {s1, s2}
  Concurrency = 1
  Fetches = {f1}
  NoLoop = NoLoop
  NoSlug = NoSlug
  Devices = {d1}
  Requests = {q1}
  Keys = {k1, k2, k3}
  Shared = Shared
  NoKey = NoKey
  NoRow = NoRow
  Nobody = Nobody
  Sweeper = Sweeper
CHECK_DEADLOCK FALSE
INVARIANT LoopsAreOrderly
INVARIANT JoinedBeforeClose
PROPERTY NobodyWaitsForEver
PROPERTY DeviceGetsConfirmed
