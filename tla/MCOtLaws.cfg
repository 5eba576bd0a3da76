SPECIFICATION LawSpec
CONSTANTS
  MaxDoc = 3
  MaxComponents = 3
  MaxCount = 2
  TextsA <- MCTextsA
  TextsB <- MCTextsB
  High = {1, 2}
  Low = {3, 4}
  Plain = {5}
  MaxText = 5
INVARIANTS
  OperationIsEdit
  TransformMerges
  ComposeIsSequence
  CaretStaysInPlace
  DiffReachesTheText
