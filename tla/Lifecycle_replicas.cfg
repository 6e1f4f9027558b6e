SPECIFICATION FairSpec
CONSTANTS
  Replicas = {r1, r2}
  MaxSignals = 2
  MaxCrashes = 1
  MaxFails = 1
INVARIANTS TypeOK SomebodyRegisters
PROPERTIES WebhookComes SignalEnds
