SPECIFICATION StoresSpec
CONSTANTS
  Setters = {s1, s2}
  Updates <- MCUpdates
  DefaultSettings <- MCDefaults
  MaxSessions = 2
  MaxUses = 3
  MaxIntents = 2
  MaxNow = 2
  MaxSets <- MCSets
  MaxRows = 3
  PageMax = 2
  Sizes = {3}
  Asked = {0, 3}
  Jumps = {4}
  IntentTTL = 2
  IntentCapacity = 1
INVARIANTS ResumedReadMissesNothing SettingsInStep
PROPERTIES EvictsLeastRecent WaitEnds
