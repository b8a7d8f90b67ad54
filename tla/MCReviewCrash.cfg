\* One pass that may die between two GitHub calls.
CONSTANTS
  Sweeps = {s1}
  MaxRounds = 1
  MaxHeads = 2
  MaxFaults = 1
SPECIFICATION Spec
INVARIANT NoReadyUnreviewedHead
