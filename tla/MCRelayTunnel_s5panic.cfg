\* One exit, one entrance whose -to is s5; no link failures.
CONSTANTS
  x1 = x1  x2 = x2  c1 = c1  c2 = c2  n1 = n1  n2 = n2  t1 = t1  t2 = t2
  S5 = S5  Nil = Nil
  Exits = {x1}
  Entrances = {c1}
  SlotNames = {n1}
  Targets = {t1, t2, S5}
  Reachable = {t1}
  ExitSlot <- OneExit
  EntranceSlot <- OneEntrance
  EntranceTarget <- SocksTarget
  MaxConn = 1
  MaxRestarts = 0
  MaxFaults = 0
  SerialBits = 16
SPECIFICATION Spec
PROPERTY ExitStopsOnlyOnChannelLoss
CHECK_DEADLOCK FALSE
