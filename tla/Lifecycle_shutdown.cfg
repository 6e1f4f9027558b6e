SPECIFICATION Spec
CONSTANTS
  Replicas = {r1}
  MaxSignals = 1
  MaxCrashes = 0
  MaxFails = 0
PROPERTY HandlesSignalGracefully
