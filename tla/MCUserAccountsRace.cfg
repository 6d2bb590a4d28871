SPECIFICATION Spec
CONSTANTS
  Users = {a, b}
  EnvUser = a
  Threads = {t1, t2}
  NoUser = NoUser
INVARIANT AdminRemains
