CONSTANTS
  d1 = d1
  d2 = d2
  d3 = d3
  db1 = db1
  None = None
  Stale = Stale
  Migration = Migration
  Daemons = {d1, d2, d3}
  Databases = {db1}
  DbOf <- SameDb
  Inodes = {1, 2, 3}
  MaxStops = 3
SPECIFICATION FairSpec
INVARIANTS OneOwnerPerDatabase
PROPERTIES ListenerKeepsSocket EventuallyServed
