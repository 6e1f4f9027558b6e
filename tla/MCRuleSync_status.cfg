SPECIFICATION Spec
CONSTANTS
  Keys = {k1}
  Specs = {"ok1", "reject"}
  MaxEdits = 2
  HasCM = TRUE
  HasFile = TRUE
  MaxStatusErrs = 2
  MaxFails = 0
  MaxCrashes = 0
  MaxOtherReloads = 0
  Absent = Absent
  NoCM = NoCM
  NoKey = NoKey
  NoFile = NoFile
  Torn = Torn
  ClassOf <- MCClassOf
  RuleCountOf <- MCRuleCountOf
CHECK_DEADLOCK FALSE
INVARIANT StatusIsOfTheResource
