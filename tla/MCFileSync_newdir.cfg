\* fkme scp -daemon with no network failure; the user writes into a new
\* directory as soon as it exists, as cp -r or tar do.
CONSTANTS
  f1 = f1  f2 = f2  f3 = f3  d1 = d1  root = root  w1 = w1  w2 = w2
  Nil = Nil  Partial = Partial
  Files = {f1, f2, f3}
  Dirs = {d1}
  Root = root
  FileDir <- TwoRootOneSub
  InitDirs = {}
  MaxVer = 2
  Size <- DistinctSizes
  Workers = {w1}
  Cmds = {"scpd"}
  FaultyCmds = {}
  MaxFaults = 0
  MaxEvents = 3
  NewDirPause = FALSE
SPECIFICATION Spec
INVARIANT ChangeTracked
CHECK_DEADLOCK FALSE
