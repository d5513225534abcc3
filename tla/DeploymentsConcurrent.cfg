SPECIFICATION EachSpec
CONSTANTS
  docker1 = docker1
  docker2 = docker2
  mixed1 = mixed1
  NoRow = NoRow
  NoImage = NoImage
  Keep = Keep
  Slugs = {docker1, mixed1}
  NativeSlugs = {mixed1}
  Images = {img}
  Users = {u1}
  Refreshers = {r1}
  MaxInstances = 2
  MaxCopiesOfDocker1 = 2
  Limit <- MCLimit
PROPERTY ChoiceLostOnlyOnEvidence
PROPERTY RemoveIsComplete
PROPERTY RowsOnlyForUnits
