SPECIFICATION Spec
CONSTANTS
  TestCmds = {w, r}
  LoopCmds = {p, q}
  NumIDs = 3
  Sizes = {4, 8}
  NoBuf = NoBuf
SYMMETRY CmdSymmetry
INVARIANTS ListsMatchKernel HoldersDistinct IDsContiguous
PROPERTY RefusedOnlyWhenFull
