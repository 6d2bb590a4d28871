SPECIFICATION ModeSpec
CONSTANTS
  e0 = e0
  a1 = a1
  a2 = a2
  v7 = v7
  Plans <- TwoPlans
  FaultPlans <- OnVlan
  NoVlan = NoVlan
  NoPlan = NoPlan
  NoConf = NoConf
  Threads = {t1}
  Habits = {}
  Faults = {"reboot", "restart", "systemctl", "write"}
INVARIANTS TypeOK ConfirmSticks RollbackRight
PROPERTY PlansResolve
