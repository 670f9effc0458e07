SPECIFICATION FairSpec
CONSTANTS
  p1 = p1
  p2 = p2
  p3 = p3
  Processes = {p1, p2, p3}
  Drivers = {"sqlite", "postgres"}
  Last = 3
  Seeding = {2}
  MaxFaults = 2
INVARIANTS
  TypeOK
  RecordedIsApplied
PROPERTIES
  ImplementsUpgrade
  NotSeededAgain
  SomeoneMigrates
