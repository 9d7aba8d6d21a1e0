SPECIFICATION Spec
CONSTANTS
  Names = {x, y, z}
  NoName = NoName
  MaxSegments = 4
SYMMETRY Renamings
INVARIANTS
  ValuesFollowNames
