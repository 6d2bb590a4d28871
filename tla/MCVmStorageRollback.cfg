SPECIFICATION Spec
CONSTANTS
  Names = {a, b}
  Threads = {t1}
  Uuids = {u1, u2, u3}
  MaxIndex = 2
  MaxTarget = 2
  NoName = NoName
  NoVol = NoVol
  NoUuid = NoUuid
PROPERTY AttachRolledBack
SYMMETRY Symm
