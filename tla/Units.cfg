SPECIFICATION FairSpec
CONSTANTS
  Units = {server, timer}
  Now = {server}
  MaxFaults = 2
INVARIANTS
  TypeOK
  ConflictsHaveCauses
PROPERTIES
  SettingsHeld
  SettledRuns
  ImplementsAtomicRegistration
  Resolves
