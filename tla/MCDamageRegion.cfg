SPECIFICATION RegionSpec
CONSTANTS
  Width = 3
  Height = 3
  MaxRects = 3
  Inputs <- MCInputs
INVARIANTS
  Covers
  Separate
