SPECIFICATION ModeSpec
CONSTANTS
  Origin = o
  News = {r}
  MaxDisk = 2
  MaxBackups = 3
  MaxWrite = 1
  Keep = 2
  Threads = {t1, t2}
  t1 = t1
  Few = 2
  Events = {"power", "lost_disk", "restart"}
  NoVol = NoVol
  Gone = Gone
INVARIANTS TypeOK RestoresRight
PROPERTY RetentionKeeps
