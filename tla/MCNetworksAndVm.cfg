SPECIFICATION HostSpec
CONSTANTS
  Pair = {x, y}
  Twins = {v, w}
  Macs = {m}
  Nets = {v, w}
  Threads = {t1, t2}
  MaxNetwork = 2
  Parents = {p}
  Present = {p}
  MaxRequests = 3
  MaxApplies = 5
  Faults = {"file", "ip", "libvirt"}
  Long = {}
  Addrs = {u}
  NoMac = NoMac
  NoNet = NoNet
  NoRec = NoRec
  NoTag = NoTag
  NoParent = NoParent
  NoBridge = NoBridge
  NoVif = NoVif
  NoProfile = NoProfile
  NoFile = NoFile
  NoName = NoName
  NoRoute = NoRoute
  Isos = {i}
  Snaps = {s}
  NoIso = NoIso
  NoSize = NoSize
  NoRun = NoRun
  NoSnap = NoSnap
INVARIANTS TypesOK UplinksRight NicsRight AppliedMatches RunsAsDefined
PROPERTIES DeleteSparesOthers TemplatesKept
SYMMETRY Symmetric
CHECK_DEADLOCK FALSE
