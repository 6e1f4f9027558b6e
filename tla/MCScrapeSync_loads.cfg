SPECIFICATION Spec
CONSTANTS
  Keys = {"k1"}
  Specs = {"ok"}
  Absent = Absent
  Clusters <- MCClusters
  Template <- MCTemplate
  ClassOf <- MCClassOf
  TimingOf <- MCTimingOf
  JobOf <- MCJobOf
  HasSecret = TRUE
  HasFile = TRUE
  NoSecret = NoSecret
  NoKey = NoKey
  NoFile = NoFile
  Torn = Torn
  MaxEdits = 2
  MaxStatusErrs = 0
  MaxFails = 0
  MaxCrashes = 0
  MaxScalings = 1
CHECK_DEADLOCK FALSE
INVARIANT PublishedLoads
