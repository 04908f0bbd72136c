CONSTANTS
  Page = 4
  N32 = 4
  M64 = 256
  Kinds <- Both
  Mins <- From1
  Maxs = {3, 14}
  Addrs = {0, 1, 4, 8, 13, 15, 16, 47, 60}
  Offs = {0, 3, 15, 60}
  Widths = {1, 2, 4}
  Lens = {0, 1, 4, 15, 60}
  Deltas = {1, 255}
  DataOffs = {0, 3, 12, 15}
  InitHi = {0}
  DataLen = 4
  MaxFrames = 2
SPECIFICATION Spec
PROPERTY NeverShrinks
