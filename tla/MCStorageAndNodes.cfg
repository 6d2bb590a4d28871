SPECIFICATION HostSpec
CONSTANTS
  Pair = {x, y}
  Twins = {v, w}
  Nfs = {n}
  Smb = {s}
  Shares = {share}
  WithPool = {n}
  IscsiTargets = {a}
  Units = {1, 2}
  Threads = {t1, t2}
  Kinds = {"chap", "mutual"}
  Bases = {b}
  Stamps = {k}
  NoStamp = NoStamp
  Urls = {self, peer}
  Self = self
  Nodes = {node}
  Tokens = {old, new}
  MaxId = 2
  NoRec = NoRec
  NoSrc = NoSrc
  NoPath = NoPath
  Guest = Guest
  NoDev = NoDev
  NoVG = NoVG
  NoTarget = NoTarget
  NoFile = NoFile
  NoSnap = NoSnap
  Torn = Torn
  NoId = NoId
  NoToken = NoToken
  NoNode = NoNode
  NoHost = NoHost
INVARIANTS TypesOK MountsRight LunRecordsRight ExportsRight RegistryRight RemoteRight
PROPERTY LunDataSafe
SYMMETRY Symmetric
