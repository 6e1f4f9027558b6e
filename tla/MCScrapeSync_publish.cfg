SPECIFICATION FairSpec
CONSTANTS
  Keys = {"k1"}
  Specs = {"ok", "bad", "nil"}
  Absent = Absent
  Clusters <- MCClusters
  Template <- MCTemplate
  ClassOf <- MCClassOf
  TimingOf <- MCTimingOf
  JobOf <- MCJobOf
  HasSecret = TRUE
  HasFile = TRUE
  NoSecret = NoSecret
  NoKey = NoKey
  NoFile = NoFile
  Torn = Torn
  MaxEdits = 2
  MaxStatusErrs = 1
  MaxFails = 1
  MaxCrashes = 1
  MaxScalings = 1
CHECK_DEADLOCK FALSE
INVARIANTS TypeOK ConfigFresh LoadsUnlessSpoilt PublishedReadsTheSame
PROPERTIES ConfigConverges NoScrapeWithdrawn
