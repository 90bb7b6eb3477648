\* Two runs that learn a building each.
SPECIFICATION Spec
CONSTANTS
  Students = {s1, s2}
  Houses = {b1, b2}
  Labels = {}
  Seeded = {}
  NoName = NoName
  NoCoord = NoCoord
  NoRef = NoRef
  NoText = NoText
  Torn = Torn
  MaxRuns = 2
  Objs = {o1, o2, o3}
  Inodes = {i1, i2, i3, i4}
INVARIANT LearnedNotLost
