\* fkme watch with one file and one network outage, after which the
\* network comes back.
CONSTANTS
  f1 = f1  f2 = f2  f3 = f3  d1 = d1  root = root  w1 = w1  w2 = w2
  Nil = Nil  Partial = Partial
  Files = {f1}
  Dirs = {d1}
  Root = root
  FileDir <- OneRootFile
  InitDirs = {}
  MaxVer = 2
  Size <- DistinctSizes
  Workers = {w1}
  Cmds = {"watch"}
  FaultyCmds = {"watch"}
  MaxFaults = 1
  MaxEvents = 3
  NewDirPause = TRUE
SPECIFICATION Spec
PROPERTY EventuallySynced
CHECK_DEADLOCK FALSE
