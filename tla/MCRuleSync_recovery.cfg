SPECIFICATION SettledSpec
CONSTANTS
  Keys = {k1, k2}
  Specs = {"ok2", "reject", "nil"}
  MaxEdits = 1
  HasCM = TRUE
  HasFile = TRUE
  MaxStatusErrs = 1
  MaxFails = 1
  MaxCrashes = 0
  MaxOtherReloads = 0
  Absent = Absent
  NoCM = NoCM
  NoKey = NoKey
  NoFile = NoFile
  Torn = Torn
  ClassOf <- MCClassOf
  RuleCountOf <- MCRuleCountOf
CHECK_DEADLOCK FALSE
PROPERTIES Converges PromConverges StatusConverges
