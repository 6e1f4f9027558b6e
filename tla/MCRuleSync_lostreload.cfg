SPECIFICATION Spec
CONSTANTS
  Keys = {k1}
  Specs = {"ok1", "ok2"}
  MaxEdits = 2
  HasCM = TRUE
  HasFile = TRUE
  MaxStatusErrs = 0
  MaxFails = 0
  MaxCrashes = 1
  MaxOtherReloads = 0
  Absent = Absent
  NoCM = NoCM
  NoKey = NoKey
  NoFile = NoFile
  Torn = Torn
  ClassOf <- MCClassOf
  RuleCountOf <- MCRuleCountOf
CHECK_DEADLOCK FALSE
INVARIANT ReloadOnConfigChange
