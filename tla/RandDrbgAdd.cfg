SPECIFICATION AddSpec
CONSTANTS
  MaxForks = 1
  Threads = {t1, t2}
  Kinds = {"public"}
  MasterInterval = 1
  SlaveInterval = 1
  CounterMax = 2147483647
  MaxSeeds = 4
INVARIANT AddReseeds
