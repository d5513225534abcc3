SPECIFICATION HostSpec
CONSTANTS
  Earners = {e1, t1}
  Tunnels = {t1}
  Checks = {c1}
  MaxNet = 2
  FenceQuotas <- FenceLimits
  Quotas <- SwitchQuotas
  Owners = {o1}
  Writers = {w1, w2}
  Slugs = {s1}
  CopySlugs = {s1}
  CopyQuotas <- CopyScenes
INVARIANTS
  DeletedLeavesNothing
  FieldsKept
  NothingAfterDelete
PROPERTIES
  ReattachedBehindDrops
  SettingPrevails
  CapPrevails
  NoCopyForgotten
  KeysAreStable
  OffGetsClean
CHECK_DEADLOCK FALSE
