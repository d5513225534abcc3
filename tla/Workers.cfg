SPECIFICATION WorkersSpec
CONSTANTS
  Devices = {d1}
  Requests = {q1, q2, q3}
  Keys = {k1, k2, k3}
  Shared = Shared
  NoKey = NoKey
  NoRow = NoRow
  Nobody = Nobody
  Sweeper = Sweeper
  Callers = {c1, c2}
  Volumes = {"v1", "v2"}
  Folders = {"/d1", "/d2"}
  Typed = {"/d1", "/d2"}
  Releases <- MountReleases
  Hands <- MountHands
  Quotas <- MountQuotas
  Samplers = {"window", "daemon"}
  Checks = {"k1", "k2"}
  MaxBaselineAge = 1
  HourTicks = 2
  MaxClock = 4
  RefusalLines = 2
  Scenarios <- ReadingScenarios
  Hosts <- RoundHosts
  Ids = {1, 2, 3, 4}
  RoundLimits <- RoundQuotas
CHECK_DEADLOCK FALSE
INVARIANTS
  ConfirmedKeyIsHeld
  ActsOnWhatItRead
  CountedOnce
  BadgeIsCurrent
  WindowIsHonest
PROPERTIES
  ConfirmedKeyIsKept
  DataIsKept
  LeftoverIsReported
