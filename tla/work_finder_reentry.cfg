CONSTANTS
  None = None
  Score = {1, 2}
  Threshold = {1}
  MaxFinds <- MCMaxFinds
  MaxBehind = 1
SPECIFICATION Spec
INVARIANT NoTaskInTheWay
