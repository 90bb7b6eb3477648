\* Two accounts with three runs between them, one building and one address that is a label.
SPECIFICATION Spec
CONSTANTS
  Students = {s1, s2}
  Houses = {b1}
  Labels = {flat}
  Seeded = {}
  NoName = NoName
  NoCoord = NoCoord
  NoRef = NoRef
  NoText = NoText
  Torn = Torn
  MaxRuns = 3
  Objs = {o1, o2, o3}
  Inodes = {i1, i2, i3, i4}
SYMMETRY Anyone
INVARIANTS TypeOK SubmittedAccepted AddressPrivate
