SPECIFICATION Spec
CHECK_DEADLOCK FALSE
CONSTANTS
  slider = slider
  group = group
  entry = entry
  backP = backP
  field = field
  backQ = backQ
  p = p
  q = q
  wide = wide
  narrow = narrow
  out = out
  left = left
  right = right
  None = None
  Zero = out
  Objects <- MCObjects
  Contents <- MCContents
  PopUps <- MCPopUps
  Tree <- MCTree
  Above <- MCAbove
  Focusable <- MCFocusable
  Places <- MCPlaces
  Trail <- MCTrail
  Tappable <- MCTappable
  SecondaryTappable <- MCSecondaryTappable
  DoubleTappable <- MCDoubleTappable
  Draggable <- MCDraggable
  Hoverable <- MCHoverable
  Mouseable <- MCDoubleTappable
  Grabs <- MCDoubleTappable
  Backdrop <- MCBackdrop
  Hideable <- MCHideable
  MaxCost = 6
INVARIANTS
  ClickIsAwaited
  TapsAnswerPresses
  InPairs
  KeysReachFocused
  StackInStep
