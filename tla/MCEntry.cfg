SPECIFICATION Spec
CHECK_DEADLOCK FALSE
CONSTANTS
  letter = letter
  Letters <- MCLetters
  Space = s
  Newline = n
  Clips <- MCClips
  Typeable <- MCLetters
  MaxLen <- MCMaxLen
  MaxItems = 2
PROPERTIES
  IsHistory
  CursorFollowsEdit
