SPECIFICATION Spec
CONSTANTS
  Objects = {root, o1, o2, o3}
  Root = root
  SlotCount = 2
  Null = Null
  RecursionLimit = 1
SYMMETRY Symmetry
INVARIANTS NoDangling CountsExact SweepsUncounted
PROPERTIES CollectsAll Advances KeepsGraph
