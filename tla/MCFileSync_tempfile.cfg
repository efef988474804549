\* fkme watch with no network failure; the user writes a file and deletes
\* it soon after, as editors and sed -i do with their temporary files.
CONSTANTS
  f1 = f1  f2 = f2  f3 = f3  d1 = d1  root = root  w1 = w1  w2 = w2
  Nil = Nil  Partial = Partial
  Files = {f1}
  Dirs = {d1}
  Root = root
  FileDir <- OneRootFile
  InitDirs = {}
  MaxVer = 2
  Size <- DistinctSizes
  Workers = {w1}
  Cmds = {"watch"}
  FaultyCmds = {}
  MaxFaults = 0
  MaxEvents = 3
  NewDirPause = TRUE
SPECIFICATION Spec
INVARIANT ExitsOnlyOnFault
CHECK_DEADLOCK FALSE
