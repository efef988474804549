\* fkme scp -c 2 (one worker suffices) uploading one file over a
\* connection that may break once: chanUploadWorker drops Upload's error,
\* the walker still receives the worker's notify, logs "done!" and Run
\* returns normally with the remote file truncated.
CONSTANTS
  f1 = f1  f2 = f2  f3 = f3  d1 = d1  root = root  w1 = w1  w2 = w2
  Nil = Nil  Partial = Partial
  Files = {f1}
  Dirs = {d1}
  Root = root
  FileDir <- OneRootFile
  InitDirs = {}
  MaxVer = 2
  Size <- DistinctSizes
  Workers = {w1}
  Cmds = {"scpcup"}
  FaultyCmds = {"scpcup"}
  MaxFaults = 1
  MaxEvents = 3
  NewDirPause = TRUE
SPECIFICATION Spec
INVARIANT DoneMeansSynced
CHECK_DEADLOCK FALSE
