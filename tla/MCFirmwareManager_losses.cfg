SPECIFICATION Spec
CONSTANTS
  NumPartitions = 2
  BootPartition = 1
  NumPages = 2
  Images = {"app", "short", "header", "long"}
  NumBlocks <- MCNumBlocks
  NoImage = "none"
  FirstBlockNums = {0}
INVARIANTS IInv HaltsOnlyUnprovisioned ConsistentIsWhole StartsWhole
PROPERTIES WriteAhead ImplementsStore Recovers
