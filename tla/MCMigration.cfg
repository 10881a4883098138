SPECIFICATION FairSpec
CONSTANTS
  Servers = {s1, s2, s3}
  AutoMigrate = {s1, s2}
  MaxFaults = 2
INVARIANTS
  SuccessIsComplete
PROPERTIES
  MigrationCompletes
