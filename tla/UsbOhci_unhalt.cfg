SPECIFICATION Spec
CONSTANTS
  Dev = {d1}
  Removable = {d1}
  Ept = {e1, e2, e3}
  Td = {t1, t2, t3, t4, t5, t6}
  Pipe = {0, 1, 2}
  Req = {s1, s2, i1, i2}
  IntrReq = {i1, i2}
  IntrPipe = {1, 2}
  MaxTds = 2
  Buses <- MCBuses
  s1 = s1
  s2 = s2
  i1 = i1
  i2 = i2
  NoDev = NoDev
  NoEpt = NoEpt
  NoReq = NoReq
INVARIANT RetiredOnce
CHECK_DEADLOCK FALSE
