\* One pass after another, with faults, up to a decision.
CONSTANTS
  Sweeps = {s1}
  MaxRounds = 2
  MaxHeads = 2
  MaxFaults = 1
SPECIFICATION FairSpec
PROPERTY DraftsGetAttention
