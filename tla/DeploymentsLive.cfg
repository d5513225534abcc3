SPECIFICATION LiveSpec
CONSTANTS
  docker1 = docker1
  docker2 = docker2
  mixed1 = mixed1
  NoRow = NoRow
  NoImage = NoImage
  Keep = Keep
  Slugs = {docker1, docker2}
  NativeSlugs = {}
  Images = {}
  Users = {u1}
  Refreshers = {r1}
  MaxInstances = 1
  MaxCopiesOfDocker1 = 1
  Limit <- MCLimit
PROPERTY SettledContainerIsShown
PROPERTY StaleRowGoes
