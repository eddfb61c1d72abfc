\* Three main builds in any order, retried and canceled, with the purge and a branch build.
SPECIFICATION Spec
CONSTANTS
  NBuilds = 3
  Images = {red, blue}
  Pinned <- FirstBuild
  BatchSize = 2
SYMMETRY ImageSymmetry
INVARIANTS BaselineIsNewest BaselineKept NoLeakedFiles CalmBranchSeesItsBase
CHECK_DEADLOCK FALSE
