SPECIFICATION PlanSpec
CONSTANTS
  s1 = s1
  s2 = s2
  k1 = k1
  k2 = k2
  NoSource = NoSource
  NoWallet = NoWallet
  Missing = Missing
  Sources = {s1, s2}
  Keys = {k1, k2}
  Batches <- TwoSources
  Tables <- AllTables
  Lists <- AllLists
  MaxAttempts = 2
CHECK_DEADLOCK FALSE
INVARIANT ForetoldExactly
