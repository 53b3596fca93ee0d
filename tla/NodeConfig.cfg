SPECIFICATION ConfigFairSpec
CONSTANTS
  n1 = n1
  n2 = n2
  dead = dead
  f1 = f1
  f2 = f2
  None = None
  Undecodable = Undecodable
  Incomplete = Incomplete
  Networks <- MCNetworks
  Dead <- MCDead
  Fallbacks <- MCFallbacks
  Lists <- MCLists
  DefaultList <- MCDefault
  MaxFaults = 2
  MaxFlash = 1
  MaxChanges = 2
INVARIANTS
  AcceptedSurvives
PROPERTIES
  Configured
  Connected
