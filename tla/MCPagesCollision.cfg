SPECIFICATION PagesSpec
CONSTANTS
  vm11 = vm11
  vm12 = vm12
  vm21 = vm21
  VMs = {vm11, vm12, vm21}
  VncPorts = {d0, d1, d2}
  Pids = {p1, p2, p3}
  Base = 6080
  Span = 2
  Sum <- CharacterSums
  Threads = {t1}
  Events = {"proxy_dies", "pid_reuse", "atlas_restart", "vm_restart"}
  NoVM = NoVM
  NoPort = NoPort
  NoPid = NoPid
  Users = {a, b, c}
  EnvUser = a
  NoUser = NoUser
INVARIANT OwnConsole
SYMMETRY Symmetric
