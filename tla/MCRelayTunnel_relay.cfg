\* One exit and one entrance started with any of the three kinds of -to
\* (reachable TCP, unreachable, s5), two local connections, the exit
\* restarted once by the daemon loop, one link failure or crash.
CONSTANTS
  x1 = x1  x2 = x2  c1 = c1  c2 = c2  n1 = n1  n2 = n2  t1 = t1  t2 = t2
  S5 = S5  Nil = Nil
  Exits = {x1}
  Entrances = {c1}
  SlotNames = {n1}
  Targets = {t1, t2, S5}
  Reachable = {t1}
  ExitSlot <- OneExit
  EntranceSlot <- OneEntrance
  EntranceTarget <- AnyTarget
  MaxConn = 2
  MaxRestarts = 1
  MaxFaults = 1
  SerialBits = 16
SPECIFICATION Spec
INVARIANT NoCrossWiring
INVARIANT PendingNotPaired
INVARIANT RegistrationExclusive
\* The bounds stop the model where the program waits in Accept or in the
\* daemon's restart loop; the program itself never stops.
CHECK_DEADLOCK FALSE
