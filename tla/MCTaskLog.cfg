SPECIFICATION FairSpec
CONSTANTS
  Jobs = {j1}
  LogFirst = {r1}
  FinishFirst = {r2}
  Powers = {p1}
  Faults = {"crash", "db"}
INVARIANTS TypeOK TruthfulSuccess
PROPERTIES NoResurrection OnlyOwnerRevokes ResultsArrive
CHECK_DEADLOCK FALSE
