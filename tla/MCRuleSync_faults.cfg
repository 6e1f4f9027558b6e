SPECIFICATION Spec
CONSTANTS
  Keys = {k1}
  Specs = {"ok1", "reject", "nil"}
  MaxEdits = 2
  HasCM = TRUE
  HasFile = TRUE
  MaxStatusErrs = 1
  MaxFails = 1
  MaxCrashes = 1
  MaxOtherReloads = 1
  Absent = Absent
  NoCM = NoCM
  NoKey = NoKey
  NoFile = NoFile
  Torn = Torn
  ClassOf <- MCClassOf
  RuleCountOf <- MCRuleCountOf
CHECK_DEADLOCK FALSE
INVARIANTS TypeOK FreshWhenQuiet ReloadCovers
PROPERTIES NoWithdrawal KeepsReloadPromise
