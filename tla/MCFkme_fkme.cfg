\* Every tool main dispatches to that is modelled.  scp and watch: the
\* bounds of FileSync's own runs (three files, two versions, two workers,
\* one network failure in the commands that handle it).  ws -p: up to three
\* writes of 0-3 bytes read through 1- and 2-byte buffers.  ws -port: a
\* reverse first port and a forward second one, two connections, a dial
\* failure and a broken link.  cron: a configuration URL, an init archive
\* (fetched over http) of a directory, a file and a symlink
\* with an init app, one daemon, one crontab app, two once-job files,
\* four file operations.  pm: two ports, either of which may be taken,
\* one connection, the real ten dial tries.  wsmid: one exit restarted
\* once, one entrance with one local connection to a reachable target,
\* two link failures or crashes.
CONSTANTS
  f1 = f1  f2 = f2  f3 = f3  d1 = d1  root = root  w1 = w1  w2 = w2
  p1 = p1  p2 = p2  k1 = k1  k2 = k2  a1 = a1  j1 = j1  o1 = o1  o2 = o2
  m1 = m1  m2 = m2  s1 = s1  q1 = q1
  e1 = e1  e2 = e2  e3 = e3
  x1 = x1  c1 = c1  n1 = n1  t1 = t1  t2 = t2  S5 = S5
  Nil = Nil  Partial = Partial
  Commands <- AllCommands
  Files = {f1, f2, f3}
  Dirs = {d1}
  Root = root
  FileDir <- TwoRootOneSub
  InitDirs = {}
  MaxVer = 2
  Size <- DistinctSizes
  Workers = {w1, w2}
  Cmds = {"scpd", "scpup", "scpdown", "scpcup", "scpcdown", "watch"}
  FaultyCmds = {"scpd", "scpup", "scpdown", "scpcdown"}
  MaxFaults = 1
  MaxEvents = 3
  NewDirPause = TRUE
  Bytes = {0, 1}
  Chunks <- StreamChunks
  BufSizes = {1, 2}
  MaxWrites = 3
  Ports = {p1, p2}
  First = p1
  Mode <- ReverseFirst
  Slots = {k1, k2}
  TunMaxFaults = 2
  Daemons = {a1}
  Jobs = {j1}
  OnceFiles = {o1, o2}
  HasInit = TRUE
  InitSrcs = {"http"}
  InitApp = TRUE
  Archive <- InitArchive
  ConfUrl = TRUE
  MaxStarts = 2
  MaxEdits = 4
  OnceMaxEvents = 2
  PmPorts = {m1, m2}
  PmSlots = {s1}
  DialTries = 10
  WsConns = {q1}
  Exits = {x1}
  Entrances = {c1}
  SlotNames = {n1}
  Targets = {t1, t2, S5}
  Reachable = {t1}
  ExitSlot <- RelayExit
  EntranceSlot <- RelayEntrance
  EntranceTarget <- RelayTarget
  MaxConn = 1
  MaxRestarts = 1
  RelayMaxFaults = 2
  SerialBits = 16
SPECIFICATION SafeSpec
INVARIANT ChangeTracked
INVARIANT DoneMeansSynced
INVARIANT StreamPreserved
PROPERTY InitAppOnFullTree
PROPERTY ImplementsStream
PROPERTY EventuallySynced
PROPERTY Terminates
 
 
PROPERTY OnceJobRuns
PROPERTY PmCloseBoth
PROPERTY ProxyCloseBoth
PROPERTY ClosePropagation
PROPERTY DeadExitDetected
\* Every tool stops somewhere under the bounds (scp by design, the others
\* when their environment has made its last move).
CHECK_DEADLOCK FALSE
