CONSTANTS
  NL = NL
  MaxLines = 2
  MaxBytes = 3
  CharBytes = 2
  Texts <- MCTexts
  Sizes = {1, 2}
  ChunkChars = 2
  CaptureLimit = 6
  ImageLimit = 2
  ImageBytes = 3
  HistoryLimit = 7
  MaxMessages = 3
  MaxText = 6

SPECIFICATION Spec
INVARIANTS
  TypeOK
  ShowsCell
  Overflow
  HistoryFollows
  FunctionsAgree

\* The cell ends, and nothing follows.
CHECK_DEADLOCK FALSE
