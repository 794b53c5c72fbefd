SPECIFICATION FairJobSpec
CONSTANTS
  NumRollout = 5
  Settings <- MCSettings
  Layouts <- MCLayouts
  Jobs <- MCJobs
  MaxCrashes = 2
  FirstPort = 0
  DistPorts = 2
  MaxKills = 2
  Nothing = Nothing
INVARIANTS
  StaleAtMostInterval
  GoesOnWhereSaved
  OldActorGeneratedIt
  AddressesHold
  PlacementSound
PROPERTIES
  JobEnds
