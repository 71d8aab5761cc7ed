CONSTANTS
  None = None
  Score = {1, 2}
  Threshold = {1, 2}
  MaxFinds <- MCMaxFinds
  MaxBehind = 0
SPECIFICATION FairSpec
INVARIANT SearchSound
INVARIANT AnswersInOrder
PROPERTY SilentAfterTerminate
PROPERTY EveryFindAnswered
