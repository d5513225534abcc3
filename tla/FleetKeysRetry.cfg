SPECIFICATION RetrySpec
CONSTANTS
  Devices = {d1}
  Requests = {q1, q2}
  Keys = {k1, k2, k3}
  Shared = Shared
  NoKey = NoKey
  NoRow = NoRow
  Nobody = Nobody
  Sweeper = Sweeper
INVARIANT HeldKeyIsStored
