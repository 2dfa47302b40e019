SPECIFICATION Spec
CONSTANTS
  Pages = {1, 2}
  MaxFrames = 6
  MaxSalt = 2
INVARIANTS PageMapIsCommittedPrefix
