SPECIFICATION Spec
CONSTANTS
  Node = {n1, n2, n3, n4}
  Nil = nil
  Elem = {a, b}
  Main = main
  Goroutines = {g}
  LenModulus = 8
SYMMETRY Nodes
CHECK_DEADLOCK FALSE
INVARIANTS
  ListIsSound
  LenCounts
PROPERTIES
  IsFifo
