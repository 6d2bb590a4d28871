SPECIFICATION Spec
CONSTANTS
  Names = {a, b}
  Threads = {t1}
  Uuids = {u1, u2, u3}
  MaxIndex = 3
  MaxTarget = 3
  NoName = NoName
  NoVol = NoVol
  NoUuid = NoUuid
INVARIANTS TypeOK NoDangling NoDoubleAttach LiveMatchesConfig
PROPERTIES CatalogSpec
SYMMETRY Symm
