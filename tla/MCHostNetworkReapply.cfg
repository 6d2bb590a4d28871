SPECIFICATION Spec
CONSTANTS
  e0 = e0
  a1 = a1
  a2 = a2
  v7 = v7
  Plans <- TwoPlans
  NoVlan = NoVlan
  NoPlan = NoPlan
  NoConf = NoConf
  Threads = {t1}
  Habits = {"no_overlap"}
  Faults = {}
INVARIANT Guarded
