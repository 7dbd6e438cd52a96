SPECIFICATION Spec
CONSTANTS
  Dev = {d1, d2}
  Removable = {d1}
  Ept = {e1, e2, e3, e4}
  Td = {t1, t2, t3, t4, t5, t6, t7}
  Pipe = {0, 1}
  Req = {s1, s2, i1, i2}
  IntrReq = {i1, i2}
  IntrPipe = {1}
  MaxTds = 1
  Buses <- MCTwoDevices
  s1 = s1
  s2 = s2
  i1 = i1
  i2 = i2
  NoDev = NoDev
  NoEpt = NoEpt
  NoReq = NoReq
INVARIANT RemovalCancels
