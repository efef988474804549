------------------------------ MODULE FileSync ------------------------------
(***************************************************************************)
(* The file synchronisation commands of fkme over SFTP:                    *)
(*                                                                         *)
(*  "scpd"     fkme scp -daemon L H:R   UploadDir, then util.WatchDir with *)
(*             an upload callback that reconnects and retries once         *)
(*             (src/scp/scp.go Run 782-866, src/util/util.go 142-215);     *)
(*  "scpup"    fkme scp L H:R           UploadDir (scp.go 303-370);        *)
(*  "scpdown"  fkme scp H:R L           DownloadDir (scp.go 165-243);      *)
(*  "scpcup"   fkme scp -c N L H:R      ChanUpload: a walker feeding N     *)
(*             workers over an unbuffered channel (scp.go 372-433);        *)
(*  "scpcdown" fkme scp -c N H:R L      ChanDownload (scp.go 245-301);     *)
(*  "watch"    fkme watch -w L -dst H:R an FSWatcher goroutine feeding a   *)
(*             wait goroutine that uploads with sftpcli's Cli.Upload       *)
(*             (src/fs_watcher.go, src/sftpcli.go 43-165).                 *)
(*                                                                         *)
(* main dispatches on the command line, so Init picks the command.  File   *)
(* contents are versions 1..MaxVer (0: no such file); a copy cut short by  *)
(* a broken connection leaves the destination file Partial.  Directories  *)
(* are Root and subdirectories of it.  Every ssh connection (the main one *)
(* and one per worker) is "none", "ok" or "broken".                        *)
(***************************************************************************)
EXTENDS Naturals, Sequences, FiniteSets

CONSTANTS
    Files,          \* the regular files of the tree
    Dirs,           \* subdirectories of the root
    Root,           \* the synced directory
    FileDir,        \* the directory each file is in
    InitDirs,       \* the local subdirectories that exist at the start
    MaxVer,         \* bound on the versions a file goes through
    Size,           \* the size of each version (what UploadDir compares)
    Workers,        \* the worker goroutines of -c N (N = |Workers|)
    Cmds,           \* the commands the model may start
    FaultyCmds,     \* the commands in which the network may fail
    MaxFaults,      \* bound on connection failures
    MaxEvents,      \* bound on the events fsnotify holds
    NewDirPause,    \* files of a new directory are written only after the
                    \* watcher has received its Create event
    Nil, Partial

ASSUME FileDir \in [Files -> Dirs \cup {Root}] /\ InitDirs \subseteq Dirs

AllCmds   == {"scpd", "scpup", "scpdown", "scpcup", "scpcdown", "watch"}
PoolCmds  == {"scpcup", "scpcdown"}
DownCmds  == {"scpdown", "scpcdown"}
WatchCmds == {"scpd", "watch"}
Conns     == {"main"} \cup Workers
Content   == 0..MaxVer \cup {Partial}

VARIABLES
    cmd,        \* the command started
    phase,      \* "walk", "loop" (the select), "flush" (the timer case),
                \* "done" (Run returned), "exited" (log.Fatal, os.Exit, panic),
                \* "quit" (Watch returned on quit or end of stdin)
    local,      \* file -> content on the local disk
    remote,     \* file -> content on the server
    ldirs,      \* local subdirectories that exist
    walkLeft,   \* files the directory walk has still to visit
    watched,    \* directories with an fsnotify watch
    q,          \* fsnotify events not yet received
    chg,        \* chgfiles (scp) / upfiles (watch)
    pend,       \* files of chg the running flush has still to upload
    retry,      \* scp: the file whose first upload failed (Nil: none)
    sess,       \* connection -> "none", "ok", "broken"
    net,        \* the network: "up" or "down"
    faults,     \* connection failures so far
    w,          \* worker -> "none", "connect", "recv", "xfer", "notify", "done"
    wfile,      \* the FilePair a worker is transferring
    sentinels,  \* empty FilePairs the walker has sent
    notes,      \* values the walker has received on notify
    fr,         \* watch: FSWatcher.Run goroutine, "none", "sel" or "send"
    fev,        \* watch: the FSEvent it is sending on f.Events
    gone        \* files the user deleted (never written again)

vars == <<cmd, phase, local, remote, ldirs, walkLeft, watched, q, chg, pend,
          retry, sess, net, faults, w, wfile, sentinels, notes, fr, fev, gone>>
pool  == <<w, wfile, sentinels, notes>>
fsw   == <<fr, fev>>

Event   == [op : {"write", "remove"}, name : Files] \cup [op : {"create"}, name : Dirs]
FSEvent == [op : {1, 2, 3}, name : Files \cup Dirs]

TypeOK ==
    /\ cmd \in AllCmds
    /\ phase \in {"walk", "loop", "flush", "done", "exited", "quit"}
    /\ local \in [Files -> Content] /\ remote \in [Files -> Content]
    /\ ldirs \subseteq Dirs /\ walkLeft \subseteq Files
    /\ watched \subseteq Dirs \cup {Root}
    /\ q \in Seq(Event)
    /\ chg \subseteq Files
    /\ pend \subseteq chg          \* a flush walks over the recorded files
    /\ retry \in pend \cup {Nil}
    /\ sess \in [Conns -> {"none", "ok", "broken"}] /\ net \in {"up", "down"}
    /\ faults \in 0..MaxFaults
    /\ w \in [Workers -> {"none", "connect", "recv", "xfer", "notify", "done"}]
    /\ wfile \in [Workers -> Files \cup {Nil}]
    /\ sentinels \in 0..Cardinality(Workers) /\ notes \in 0..Cardinality(Workers)
    /\ fr \in {"none", "sel", "send"} /\ fev \in FSEvent \cup {Nil}
    /\ gone \subseteq Files

\* The tree on the side a command copies from.
Source(f) == IF cmd \in DownCmds THEN remote[f] ELSE local[f]

\* Cli.Connect of the main client: ssh.Dial and sftp.NewClient succeeded
\* (a failure of either is log.Fatal), so it alone is open.
Connected == [c \in Conns |-> IF c = "main" THEN "ok" ELSE "none"]

(* The command line is parsed and the main connection opened (Connect     *)
(* calls log.Fatal otherwise).  A local file exists iff its directory     *)
(* does; the server holds some earlier state of the tree.  fkme watch     *)
(* uploads nothing at the start, so it is started on trees that agree.    *)
Init ==
    /\ cmd \in Cmds
    /\ phase = "walk"
    /\ ldirs = InitDirs
    /\ local \in [Files -> 0..MaxVer]
    /\ \A f \in Files : (local[f] # 0) <=> (FileDir[f] \in InitDirs \cup {Root})
    /\ remote \in [Files -> 0..MaxVer]
    /\ cmd = "watch" => remote = local
    /\ walkLeft = IF cmd = "watch" THEN {} ELSE Files
    /\ watched = {} /\ q = <<>>
    /\ chg = {} /\ pend = {} /\ retry = Nil
    /\ sess = Connected
    /\ net = "up" /\ faults = 0
    /\ w = [i \in Workers |-> IF cmd \in PoolCmds THEN "connect" ELSE "none"]
    /\ wfile = [i \in Workers |-> Nil]
    /\ sentinels = 0 /\ notes = 0
    /\ fr = "none" /\ fev = Nil
    /\ gone = {}

\* Copy steps may fail only in the commands under study, and only
\* MaxFaults times.
CanFail == cmd \in FaultyCmds /\ faults < MaxFaults

\* The local directory a download creates for f (MkdirAll of its parent).
WithDirOf(f) == ldirs \cup ({FileDir[f]} \ {Root})

-----------------------------------------------------------------------------
(* Cli.Upload over connection c (scp.go 129-164): MkdirAll of the remote  *)
(* parent, os.Open, Sftp.Create (which truncates), io.Copy.  On a broken  *)
(* connection it fails before touching the remote file; a connection lost *)
(* during the copy leaves the remote file truncated and c broken.         *)
UploadOk(c, f) ==
    /\ sess[c] = "ok"
    /\ remote' = [remote EXCEPT ![f] = local[f]]
    /\ UNCHANGED <<sess, faults>>

UploadCut(c, f) ==
    /\ sess[c] = "ok"
    /\ CanFail
    /\ remote' = [remote EXCEPT ![f] = Partial]
    /\ sess' = [sess EXCEPT ![c] = "broken"]
    /\ faults' = faults + 1

UploadRefused(c, f) ==
    /\ sess[c] = "broken"
    /\ UNCHANGED <<remote, sess, faults>>

UploadFails(c, f) == UploadCut(c, f) \/ UploadRefused(c, f)

(* Cli.Download (scp.go 165-211): MkdirAll of the local parent, os.Create *)
(* of the local file (which truncates it), Sftp.Open, io.Copy, Sync.  Any *)
(* error after os.Create is log.Fatal, so a failure leaves the local file *)
(* truncated and ends the process.                                        *)
DownloadOk(c, f) ==
    /\ sess[c] = "ok"
    /\ local' = [local EXCEPT ![f] = remote[f]]
    /\ ldirs' = WithDirOf(f)
    /\ UNCHANGED <<phase, sess, faults>>

DownloadFails(c, f) ==
    /\ \/ sess[c] = "broken" /\ UNCHANGED <<sess, faults>>
       \/ /\ sess[c] = "ok" /\ CanFail
          /\ sess' = [sess EXCEPT ![c] = "broken"] /\ faults' = faults + 1
    /\ local' = [local EXCEPT ![f] = Partial]
    /\ ldirs' = WithDirOf(f)
    /\ phase' = "exited"

-----------------------------------------------------------------------------
(* UploadDir (scp.go 303-370): one visit of the filepath.Walk.  A file    *)
(* whose remote copy exists with the local size is skipped; otherwise it  *)
(* is uploaded, and a failure makes the walk return an error, UploadDir   *)
(* false and Run exit (scp.go 848-852).                                   *)
NeedsUpload(f) == remote[f] \in {0, Partial} \/ Size[remote[f]] # Size[local[f]]

WalkVisitIgnoreError(f) ==
    /\ cmd \in {"scpd", "scpup"}
    /\ phase = "walk"
    /\ f \in walkLeft
    /\ walkLeft' = walkLeft \ {f}
    /\ IF local[f] = 0 \/ ~NeedsUpload(f)
         THEN UNCHANGED <<phase, remote, sess, faults>>
         ELSE (UploadOk("main", f) \/ UploadFails("main", f)) /\ UNCHANGED phase
    /\ UNCHANGED <<cmd, local, ldirs, watched, q, chg, pend, retry, net,
                   pool, fsw, gone>>

WalkVisit(f) ==
    /\ cmd \in {"scpd", "scpup"}
    /\ phase = "walk"
    /\ f \in walkLeft
    /\ walkLeft' = walkLeft \ {f}
    /\ IF local[f] = 0 \/ ~NeedsUpload(f)
         THEN UNCHANGED <<phase, remote, sess, faults>>
         ELSE \/ UploadOk("main", f) /\ UNCHANGED phase
              \/ UploadFails("main", f) /\ phase' = "exited"
    /\ UNCHANGED <<cmd, local, ldirs, watched, q, chg, pend, retry, net,
                   pool, fsw, gone>>

(* DownloadDir (scp.go 216-243): one step of the remote walker.  A        *)
(* directory is created locally; a file is downloaded, and DownloadDir    *)
(* stops at the first failure (never reached: Download is log.Fatal).     *)
DownVisit(f) ==
    /\ cmd = "scpdown"
    /\ phase = "walk"
    /\ f \in walkLeft
    /\ walkLeft' = walkLeft \ {f}
    /\ IF remote[f] = 0
         THEN UNCHANGED <<phase, local, ldirs, sess, faults>>
         ELSE DownloadOk("main", f) \/ DownloadFails("main", f)
    /\ UNCHANGED <<cmd, remote, watched, q, chg, pend, retry, net, pool,
                   fsw, gone>>

\* UploadDir or DownloadDir has returned true: Run returns.
WalkDone ==
    /\ cmd \in {"scpup", "scpdown"}
    /\ phase = "walk"
    /\ walkLeft = {}
    /\ phase' = "done"
    /\ UNCHANGED <<cmd, local, remote, ldirs, walkLeft, watched, q, chg,
                   pend, retry, sess, net, faults, pool, fsw, gone>>

-----------------------------------------------------------------------------
(* ChanUpload / ChanDownload (scp.go 245-301, 372-433).  The walker sends *)
(* a FilePair for every file on the unbuffered pipe, then one empty pair  *)
(* per worker, then receives one value per worker on notify.  Each worker *)
(* opens its own connection (c.connect(): log.Fatal when the dial fails), *)
(* transfers the pairs it receives until the empty one, and sends on      *)
(* notify.  The walker is the main goroutine: phase "walk" until it has   *)
(* received every notify.                                                 *)
\* The walker's step for a file: pipe <- FilePair blocks until a worker
\* waiting in its range loop takes the pair.
PipeSend(f) ==
    \E i \in Workers :
        /\ w[i] = "recv"
        /\ w' = [w EXCEPT ![i] = "xfer"]
        /\ wfile' = [wfile EXCEPT ![i] = f]

PoolSend(f) ==
    /\ cmd \in PoolCmds
    /\ phase = "walk"
    /\ f \in walkLeft
    /\ walkLeft' = walkLeft \ {f}
    /\ IF Source(f) = 0
         THEN UNCHANGED <<w, wfile>>
         ELSE PipeSend(f)
    /\ UNCHANGED <<cmd, phase, local, remote, ldirs, watched, q, chg, pend,
                   retry, sess, net, faults, sentinels, notes, fsw, gone>>

\* Mutant: the end-marker loop stops one short of go_count.
PoolSentinelShort(i) ==
    /\ cmd \in PoolCmds
    /\ phase = "walk"
    /\ walkLeft = {}
    /\ sentinels < Cardinality(Workers) - 1
    /\ w[i] = "recv"
    /\ w' = [w EXCEPT ![i] = "notify"]
    /\ sentinels' = sentinels + 1
    /\ UNCHANGED <<cmd, phase, local, remote, ldirs, walkLeft, watched, q,
                   chg, pend, retry, sess, net, faults, wfile, notes, fsw, gone>>

\* The walk is over: an empty FilePair goes to a worker waiting on the pipe,
\* which leaves its loop and blocks on notify.
PoolSentinel(i) ==
    /\ cmd \in PoolCmds
    /\ phase = "walk"
    /\ walkLeft = {}
    /\ sentinels < Cardinality(Workers)
    /\ w[i] = "recv"
    /\ w' = [w EXCEPT ![i] = "notify"]
    /\ sentinels' = sentinels + 1
    /\ UNCHANGED <<cmd, phase, local, remote, ldirs, walkLeft, watched, q,
                   chg, pend, retry, sess, net, faults, wfile, notes, fsw, gone>>

\* Every end marker is sent: the walker receives worker i's notify.  After
\* the last one it logs "done!" and Run returns.
PoolJoin(i) ==
    /\ cmd \in PoolCmds
    /\ phase = "walk"
    /\ sentinels = Cardinality(Workers)
    /\ w[i] = "notify"
    /\ w' = [w EXCEPT ![i] = "done"]
    /\ notes' = notes + 1
    /\ phase' = IF notes + 1 = Cardinality(Workers) THEN "done" ELSE phase
    /\ UNCHANGED <<cmd, local, remote, ldirs, walkLeft, watched, q, chg, pend,
                   retry, sess, net, faults, wfile, sentinels, fsw, gone>>

\* c.connect() in a worker: Connect dials; log.Fatal ends the process.
WorkerConnect(i) ==
    /\ phase = "walk"
    /\ w[i] = "connect"
    /\ IF net = "up"
         THEN /\ sess' = [sess EXCEPT ![i] = "ok"]
              /\ w' = [w EXCEPT ![i] = "recv"]
              /\ UNCHANGED phase
         ELSE phase' = "exited" /\ UNCHANGED <<sess, w>>
    /\ UNCHANGED <<cmd, local, remote, ldirs, walkLeft, watched, q, chg, pend,
                   retry, net, faults, wfile, sentinels, notes, fsw, gone>>

\* chanUploadWorker: c1.Upload of the received pair; its error is dropped
\* and the worker takes the next pair.
WorkerUpload(i) ==
    /\ cmd = "scpcup"
    /\ phase = "walk"
    /\ w[i] = "xfer"
    /\ UploadOk(i, wfile[i]) \/ UploadFails(i, wfile[i])
    /\ w' = [w EXCEPT ![i] = "recv"]
    /\ wfile' = [wfile EXCEPT ![i] = Nil]
    /\ UNCHANGED <<cmd, phase, local, ldirs, walkLeft, watched, q, chg, pend,
                   retry, net, sentinels, notes, fsw, gone>>

\* chanDownloadWorker: c1.Download of the received pair (log.Fatal on error).
WorkerDownload(i) ==
    /\ cmd = "scpcdown"
    /\ phase = "walk"
    /\ w[i] = "xfer"
    /\ \/ /\ DownloadOk(i, wfile[i])
          /\ w' = [w EXCEPT ![i] = "recv"]
          /\ wfile' = [wfile EXCEPT ![i] = Nil]
       \/ DownloadFails(i, wfile[i]) /\ UNCHANGED <<w, wfile>>
    /\ UNCHANGED <<cmd, remote, walkLeft, watched, q, chg, pend, retry, net,
                   sentinels, notes, fsw, gone>>

-----------------------------------------------------------------------------
(* fkme scp -daemon: after UploadDir, util.WatchDir adds a watch on every *)
(* directory and loops over a select on fsnotify events and a fresh      *)
(* two-second timer (util.go 143-215); the timer case calls the upload    *)
(* callback of scp.go 819-835 for each recorded file.                     *)
WatchAdd ==
    /\ cmd = "scpd"
    /\ phase = "walk"
    /\ walkLeft = {}
    /\ phase' = "loop"
    /\ watched' = {Root} \cup ldirs
    /\ UNCHANGED <<cmd, local, remote, ldirs, walkLeft, q, chg, pend, retry,
                   sess, net, faults, pool, fsw, gone>>

\* Mutant: the Create case forgets fw.Add.
EventRecvNoWatch ==
    /\ cmd = "scpd"
    /\ phase = "loop"
    /\ q # <<>>
    /\ q' = Tail(q)
    /\ chg' = IF Head(q).op = "write" THEN chg \cup {Head(q).name} ELSE chg
    /\ UNCHANGED <<cmd, phase, local, remote, ldirs, walkLeft, watched, pend,
                   retry, sess, net, faults, pool, fsw, gone>>

\* The select receives an fsnotify event: Create of a directory adds a
\* watch on it, Write of a file records it in chgfiles.
EventRecv ==
    /\ cmd = "scpd"
    /\ phase = "loop"
    /\ q # <<>>
    /\ q' = Tail(q)
    /\ LET e == Head(q) IN
         /\ watched' = IF e.op = "create" THEN watched \cup {e.name} ELSE watched
         /\ chg' = IF e.op = "write" THEN chg \cup {e.name} ELSE chg
    /\ UNCHANGED <<cmd, phase, local, remote, ldirs, walkLeft, pend, retry,
                   sess, net, faults, pool, fsw, gone>>

\* time.After(2s) is a fresh timer on every pass through the select: it
\* fires only when no event is ready.  The callback loop starts.
Timer ==
    /\ cmd = "scpd"
    /\ phase = "loop"
    /\ q = <<>>
    /\ chg # {}
    /\ phase' = "flush"
    /\ pend' = chg
    /\ UNCHANGED <<cmd, local, remote, ldirs, walkLeft, watched, q, chg, retry,
                   sess, net, faults, pool, fsw, gone>>

\* The callback for one recorded file: its first Upload.
CbFirst(f) ==
    /\ cmd = "scpd"
    /\ phase = "flush"
    /\ retry = Nil
    /\ f \in pend
    /\ \/ UploadOk("main", f) /\ pend' = pend \ {f} /\ UNCHANGED retry
       \/ UploadFails("main", f) /\ retry' = f /\ UNCHANGED pend
    /\ UNCHANGED <<cmd, phase, local, ldirs, walkLeft, watched, q, chg, net,
                   pool, fsw, gone>>

\* Cli.Connect returns only once ssh.Dial and sftp.NewClient have
\* succeeded; it calls log.Fatal when either fails.
DialSucceeds == net = "up"

(* After a failed upload: reconnect closes the old session and Connect    *)
(* dials again, log.Fatal when the dial fails; then one more Upload,      *)
(* whose error is only logged.                                             *)
\* Mutant: the retry is left out after the reconnect.
CbRetryNoUpload ==
    /\ cmd = "scpd"
    /\ phase = "flush"
    /\ retry # Nil
    /\ IF ~DialSucceeds
         THEN /\ phase' = "exited"
              /\ UNCHANGED <<remote, sess, faults, pend, retry>>
         ELSE /\ sess' = [sess EXCEPT !["main"] = "ok"]
              /\ pend' = pend \ {retry}
              /\ retry' = Nil
              /\ UNCHANGED <<phase, remote, faults>>
    /\ UNCHANGED <<cmd, local, ldirs, walkLeft, watched, q, chg, net, pool,
                   fsw, gone>>

CbRetry ==
    /\ cmd = "scpd"
    /\ phase = "flush"
    /\ retry # Nil
    /\ IF ~DialSucceeds
         THEN /\ phase' = "exited"
              /\ UNCHANGED <<remote, sess, faults, pend, retry>>
         ELSE /\ LET s == [sess EXCEPT !["main"] = "ok"] IN
                 \/ /\ remote' = [remote EXCEPT ![retry] = local[retry]]
                    /\ sess' = s
                    /\ UNCHANGED faults
                 \/ /\ CanFail
                    /\ remote' = [remote EXCEPT ![retry] = Partial]
                    /\ sess' = [s EXCEPT !["main"] = "broken"]
                    /\ faults' = faults + 1
              /\ pend' = pend \ {retry}
              /\ retry' = Nil
              /\ UNCHANGED phase
    /\ UNCHANGED <<cmd, local, ldirs, walkLeft, watched, q, chg, net, pool,
                   fsw, gone>>

\* Every recorded file has been called back: chgfiles is cleared and the
\* select resumes.
FlushEnd ==
    /\ cmd = "scpd"
    /\ phase = "flush"
    /\ pend = {}
    /\ phase' = "loop"
    /\ chg' = {}
    /\ UNCHANGED <<cmd, local, remote, ldirs, walkLeft, watched, q, pend,
                   retry, sess, net, faults, pool, fsw, gone>>

-----------------------------------------------------------------------------
(* fkme watch (fs_watcher.go 146-262).  After Connect, newFSWatcher's    *)
(* Init walks the tree and adds a watch on every directory; go f.Run and  *)
(* go wait start.  Run turns each fsnotify event into an FSEvent and      *)
(* sends it on the unbuffered f.Events (Op 1 create, 2 write, 3 remove).  *)
(* wait selects on f.Events and a fresh two-second timer; on the timer it *)
(* uploads every file of upfiles with sftpcli's Cli.Upload and clears it. *)
\* FSWatcher.Init: filepath.Walk adds a watch on every directory of the tree
\* (none is under an ignored prefix here).
WatchedDirs == {Root} \cup ldirs

WatchStart ==
    /\ cmd = "watch"
    /\ phase = "walk"
    /\ phase' = "loop"
    /\ watched' = WatchedDirs
    /\ fr' = "sel"
    /\ UNCHANGED <<cmd, local, remote, ldirs, walkLeft, q, chg, pend, retry,
                   sess, net, faults, pool, fev, gone>>

OpCode == [create |-> 1, write |-> 2, remove |-> 3]

\* FSWatcher.Run receives a kernel event.  A created directory is watched
\* (its os.Stat succeeds: directories are never removed here); the FSEvent
\* is then offered on f.Events, and Run blocks until wait takes it.
RunRecv ==
    /\ cmd = "watch"
    /\ fr = "sel"
    /\ q # <<>>
    /\ q' = Tail(q)
    /\ LET e == Head(q) IN
         /\ watched' = IF e.op = "create" THEN watched \cup {e.name} ELSE watched
         /\ fev' = [op |-> OpCode[e.op], name |-> e.name]
    /\ fr' = "send"
    /\ UNCHANGED <<cmd, phase, local, remote, ldirs, walkLeft, chg, pend,
                   retry, sess, net, faults, pool, gone>>

\* wait takes the FSEvent.  For Op 1 and 2 it runs st, _ := os.Stat(p) and
\* st.IsDir(): a directory is skipped, a file goes into upfiles, and a
\* path that no longer exists leaves st nil and the dereference panics,
\* ending the process.  Op 3 is ignored.
WaitRecv ==
    /\ cmd = "watch"
    /\ phase = "loop"
    /\ fr = "send"
    /\ fr' = "sel"
    /\ fev' = Nil
    /\ LET p == fev.name IN
         IF fev.op = 3 \/ p \in Dirs \cup {Root}
           THEN UNCHANGED <<phase, chg>>
         ELSE IF local[p] = 0
           THEN phase' = "exited" /\ UNCHANGED chg
           ELSE chg' = chg \cup {p} /\ UNCHANGED phase
    /\ UNCHANGED <<cmd, local, remote, ldirs, walkLeft, watched, q, pend,
                   retry, sess, net, faults, pool, gone>>

\* The timer case of wait: no FSEvent has come for two seconds.
WaitTimer ==
    /\ cmd = "watch"
    /\ phase = "loop"
    /\ fr # "send"
    /\ q = <<>>
    /\ chg # {}
    /\ phase' = "flush"
    /\ pend' = chg
    /\ UNCHANGED <<cmd, local, remote, ldirs, walkLeft, watched, q, chg,
                   retry, sess, net, faults, pool, fsw, gone>>

(* c.Upload of one file of upfiles (sftpcli.go 133-165): os.Open of a     *)
(* missing file and Sftp.Create on a broken connection are only logged;  *)
(* an io.Copy error is log.Fatal.  There is no reconnect.                 *)
WaitUpload(f) ==
    /\ cmd = "watch"
    /\ phase = "flush"
    /\ f \in pend
    /\ pend' = pend \ {f}
    /\ \/ local[f] = 0 /\ UNCHANGED <<phase, remote, sess, faults>>
       \/ local[f] # 0 /\ UploadOk("main", f) /\ UNCHANGED phase
       \/ local[f] # 0 /\ UploadRefused("main", f) /\ UNCHANGED phase
       \/ local[f] # 0 /\ UploadCut("main", f) /\ phase' = "exited"
    /\ UNCHANGED <<cmd, local, ldirs, walkLeft, watched, q, chg, retry, net,
                   pool, fsw, gone>>

\* upfiles is replaced by an empty map and the select resumes.
WaitFlushEnd ==
    /\ cmd = "watch"
    /\ phase = "flush"
    /\ pend = {}
    /\ phase' = "loop"
    /\ chg' = {}
    /\ UNCHANGED <<cmd, local, remote, ldirs, walkLeft, watched, q, pend,
                   retry, sess, net, faults, pool, fsw, gone>>

(* The main goroutine of Watch reads stdin line by line; "quit", or a     *)
(* read error such as end of input, breaks the loop, Watch returns and    *)
(* the process ends with wait wherever it is.  During a flush that may be *)
(* inside c.Upload of a file of upfiles, after Sftp.Create has truncated  *)
(* the remote copy and before io.Copy has finished it.  Any other line is *)
(* only logged (a step that changes nothing here).                       *)
Quit ==
    /\ cmd = "watch"
    /\ phase \in {"loop", "flush"}
    /\ phase' = "quit"
    /\ \/ UNCHANGED remote
       \/ \E f \in pend : /\ phase = "flush"
                           /\ sess["main"] = "ok"
                           /\ local[f] # 0
                           /\ remote' = [remote EXCEPT ![f] = Partial]
    /\ UNCHANGED <<cmd, local, ldirs, walkLeft, watched, q, chg, pend, retry,
                   sess, net, faults, pool, fsw, gone>>

-----------------------------------------------------------------------------
(* The environment: the user editing the watched tree, and the network.   *)
(* The one-shot commands copy a tree nobody edits meanwhile.               *)
EditTime == cmd \in WatchCmds /\ phase \in {"loop", "flush"}

\* The user writes file f; the kernel queues a Write event if f's
\* directory is watched.
Write(f) ==
    /\ EditTime
    /\ f \notin gone
    /\ FileDir[f] \in {Root} \cup ldirs
    /\ NewDirPause =>
         ~\E i \in 1..Len(q) : q[i] = [op |-> "create", name |-> FileDir[f]]
    /\ Len(q) < MaxEvents
    /\ local[f] < MaxVer
    /\ local' = [local EXCEPT ![f] = local[f] + 1]
    /\ q' = IF FileDir[f] \in watched
              THEN Append(q, [op |-> "write", name |-> f]) ELSE q
    /\ UNCHANGED <<cmd, phase, remote, ldirs, walkLeft, watched, chg, pend,
                   retry, sess, net, faults, pool, fsw, gone>>

\* The user deletes file f (an editor's temporary file, say); the kernel
\* queues a Remove event.  Deletions are modelled for fkme watch only.
Remove(f) ==
    /\ cmd = "watch"
    /\ EditTime
    /\ local[f] # 0
    /\ Len(q) < MaxEvents
    /\ local' = [local EXCEPT ![f] = 0]
    /\ gone' = gone \cup {f}
    /\ q' = IF FileDir[f] \in watched
              THEN Append(q, [op |-> "remove", name |-> f]) ELSE q
    /\ UNCHANGED <<cmd, phase, remote, ldirs, walkLeft, watched, chg, pend,
                   retry, sess, net, faults, pool, fsw>>

\* The user creates subdirectory d; the root's watch reports the Create.
MkDir(d) ==
    /\ EditTime
    /\ d \in Dirs \ ldirs
    /\ Len(q) < MaxEvents
    /\ ldirs' = ldirs \cup {d}
    /\ q' = IF Root \in watched
              THEN Append(q, [op |-> "create", name |-> d]) ELSE q
    /\ UNCHANGED <<cmd, phase, local, remote, walkLeft, watched, chg, pend,
                   retry, sess, net, faults, pool, fsw, gone>>

\* The network fails and every open ssh connection breaks with it.
LinkDown ==
    /\ CanFail
    /\ phase \notin {"done", "exited", "quit"}
    /\ net = "up"
    /\ net' = "down"
    /\ sess' = [c \in Conns |-> IF sess[c] = "ok" THEN "broken" ELSE sess[c]]
    /\ faults' = faults + 1
    /\ UNCHANGED <<cmd, phase, local, remote, ldirs, walkLeft, watched, q, chg,
                   pend, retry, pool, fsw, gone>>

\* The network comes back; broken connections stay broken.
LinkUp ==
    /\ net = "down"
    /\ net' = "up"
    /\ UNCHANGED <<cmd, phase, local, remote, ldirs, walkLeft, watched, q, chg,
                   pend, retry, sess, faults, pool, fsw, gone>>

Next ==
    \/ \E f \in Files : WalkVisit(f)
    \/ \E f \in Files : DownVisit(f)
    \/ WalkDone
    \/ \E f \in Files : PoolSend(f)
    \/ \E i \in Workers : PoolSentinel(i)
    \/ \E i \in Workers : PoolJoin(i)
    \/ \E i \in Workers : WorkerConnect(i)
    \/ \E i \in Workers : WorkerUpload(i)
    \/ \E i \in Workers : WorkerDownload(i)
    \/ WatchAdd
    \/ EventRecv
    \/ Timer
    \/ \E f \in Files : CbFirst(f)
    \/ CbRetry
    \/ FlushEnd
    \/ WatchStart
    \/ RunRecv
    \/ WaitRecv
    \/ WaitTimer
    \/ \E f \in Files : WaitUpload(f)
    \/ WaitFlushEnd
    \/ Quit
    \/ \E f \in Files : Write(f)
    \/ \E f \in Files : Remove(f)
    \/ \E d \in Dirs : MkDir(d)
    \/ LinkDown
    \/ LinkUp

(* Every goroutine step is taken once enabled: the Go scheduler runs a    *)
(* runnable goroutine, and time.After fires once the select has waited    *)
(* two seconds with nothing ready.  The user and the network get none.    *)
Fairness ==
    /\ WF_vars(\E f \in Files : WalkVisit(f))
    /\ WF_vars(\E f \in Files : DownVisit(f))
    /\ WF_vars(WalkDone)
    /\ WF_vars(\E f \in Files : PoolSend(f))
    /\ WF_vars(\E i \in Workers : PoolSentinel(i))
    /\ WF_vars(\E i \in Workers : PoolJoin(i))
    /\ WF_vars(\E i \in Workers : WorkerConnect(i))
    /\ WF_vars(\E i \in Workers : WorkerUpload(i))
    /\ WF_vars(\E i \in Workers : WorkerDownload(i))
    /\ WF_vars(WatchAdd) /\ WF_vars(EventRecv) /\ WF_vars(Timer)
    /\ WF_vars(\E f \in Files : CbFirst(f))
    /\ WF_vars(CbRetry) /\ WF_vars(FlushEnd)
    /\ WF_vars(WatchStart) /\ WF_vars(RunRecv) /\ WF_vars(WaitRecv)
    /\ WF_vars(WaitTimer)
    /\ WF_vars(\E f \in Files : WaitUpload(f))
    /\ WF_vars(WaitFlushEnd)

Spec == Init /\ [][Next]_vars /\ Fairness

-----------------------------------------------------------------------------
\* A file whose copy differs from the source it is taken from.
Stale(f) == Source(f) # 0 /\ remote[f] # local[f]

\* A change the watcher still knows about: a queued Write event, an FSEvent
\* Run is offering, a recorded file before the flush, or a file the running
\* flush has yet to upload.
Tracked(f) ==
    \/ \E i \in 1..Len(q) : q[i] = [op |-> "write", name |-> f]
    \/ fev # Nil /\ fev.name = f /\ fev.op \in {1, 2}
    \/ phase = "loop" /\ f \in chg
    \/ f \in pend

\* Once a watching command runs, every file whose remote copy is out of
\* date is still on its way to an upload: WatchDir's events, chgfiles and
\* the flush loop hand every changed name on, the clear after the
\* callbacks included, and a cut upload is retried after the reconnect.
\* It holds only while the retry succeeds: a second failure drops the
\* change (scp.go:834-836).
ChangeTracked ==
    phase \in {"loop", "flush"} => \A f \in Files : Stale(f) => Tracked(f)

\* Once the user stops editing, the copy eventually matches its source for
\* good, unless the process has exited or the user has quit the watcher:
\* every transfer the tools report as done (Run returning, "done!", the
\* watcher's flush) really happened.
EventuallySynced ==
    <>[](phase \in {"exited", "quit"} \/ \A f \in Files : ~Stale(f))

\* Every one-shot command ends: the walker's end markers and the notify
\* rendezvous of the worker pool never leave anyone waiting.
Terminates ==
    <>(cmd \in WatchCmds \/ phase \in {"done", "exited"})

\* A one-shot scp that returns normally has copied everything: Run exits
\* with status 3 or 4 when the sequential UploadDir or DownloadDir fails
\* (scp.go 797-799, 807-810, 841-844), so a Run that returns, after the
\* pool's "done!" log or not, leaves no copy truncated or missing.
DoneMeansSynced ==
    phase = "done" => \A f \in Files : ~Stale(f)

\* The tools end abnormally (log.Fatal, os.Exit, a panic) only after the
\* network has failed.
ExitsOnlyOnFault ==
    phase = "exited" => faults > 0
=============================================================================
