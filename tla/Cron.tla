-------------------------------- MODULE Cron --------------------------------
(***************************************************************************)
(* fkme cron -c conf.json, the process supervisor of src/cron/cron.go.     *)
(*                                                                         *)
(* Run loads the configuration (downloading it first when -c is an http   *)
(* URL), unpacks the init_tgz archive and runs its init app to completion, *)
(* starts one restart loop per daemon app (startApp, sleep 5 s, forever),  *)
(* registers the crontab apps with gocron, and then runs WatchDir on       *)
(* once_dir: Write events collect file names, and after one second with   *)
(* no event the callback loads each file as an App, removes it and starts *)
(* it.  A file that fails to load is only logged.                          *)
(*                                                                         *)
(* A once-job file is abstracted to its state on disk: absent, partial     *)
(* (created or half written: not valid JSON) or complete.  The archive is  *)
(* a sequence of entries (directory, symlink or regular file), each with a *)
(* name of its own.                                                        *)
(***************************************************************************)
EXTENDS Naturals, Sequences

CONSTANTS
    Daemons,    \* apps without a crontab whose executable exists
    Jobs,       \* apps with a crontab
    OnceFiles,  \* names a job file in once_dir may have
    HasInit,    \* the configuration has an init_tgz section
    InitSrcs,   \* what its src may be: "none" (empty), "local" or "http"
    InitApp,    \* the init_tgz section has an app
    Archive,    \* the entries of the archive, in order
    ConfUrl,    \* -c names an http URL
    MaxStarts,  \* bound on the starts of each app
    MaxEdits,   \* bound on the writers' file operations
    MaxEvents   \* bound on the fsnotify events not yet received

VARIABLES
    cr,         \* Run: "load", "init" (init_tgz unpacking), "initapp" (its app
                \* running), "start", "run", "done", "exited" (log.Fatal, panic)
    dm,         \* daemon -> its loop: "idle", "start", "run", "sleep"
    starts,     \* app -> the times startApp has started it
    inst,       \* crontab app -> its instances running
    disk,       \* once file -> "absent", "partial", "complete"
    how,        \* once file -> "write" or "move": how its content arrived
    evq,        \* fsnotify events not yet received by WatchDir
    chgfiles,   \* the names recorded since the last callback
    ran,        \* once file -> the jobs started from it
    edits,
    src,        \* the src of init_tgz
    tree,       \* regular file of the archive -> what the running
                \* ExtractTarGz has written of it (forgotten once it returns)
    ex          \* ExtractTarGz: the entry Next reads next (0: not running)

cvars == <<cr, dm, starts, inst, disk, how, evq, chgfiles, ran, edits,
           src, tree, ex>>

Apps == Daemons \cup Jobs
Event == [op : {"create", "write"}, name : OnceFiles]
\* The regular files of the archive.  What its directories and symlinks
\* leave on disk is not kept: their errors are only logged or go unnoticed.
\* Nothing in cron reads the unpacked tree after init_tgz, so tree only
\* records the running call.
FileEntries ==
    {Archive[i].name : i \in {j \in DOMAIN Archive : Archive[j].kind = "file"}}
NoneWritten == [n \in FileEntries |-> "absent"]

TypeOK ==
    /\ cr \in {"load", "init", "initapp", "start", "run", "done", "exited"}
    /\ dm \in [Daemons -> {"idle", "start", "run", "sleep"}]
    /\ starts \in [Apps -> 0..MaxStarts]
    /\ inst \in [Jobs -> 0..MaxStarts]
    /\ disk \in [OnceFiles -> {"absent", "partial", "complete"}]
    /\ how \in [OnceFiles -> {"write", "move"}]
    /\ evq \in Seq(Event) /\ Len(evq) <= MaxEvents
    /\ chgfiles \subseteq OnceFiles
    /\ ran \in [OnceFiles -> 0..MaxEdits]
    /\ edits \in 0..MaxEdits
    /\ src \in {"none", "local", "http"}
    /\ tree \in [FileEntries -> {"absent", "partial", "file"}]
    /\ ex \in 0..Len(Archive) + 1

\* once_dir starts empty: files already there would only be watched.
Init ==
    /\ cr = "load"
    /\ dm = [a \in Daemons |-> "idle"]
    /\ starts = [a \in Apps |-> 0]
    /\ inst = [j \in Jobs |-> 0]
    /\ disk = [f \in OnceFiles |-> "absent"]
    /\ how = [f \in OnceFiles |-> "write"]
    /\ evq = <<>> /\ chgfiles = {}
    /\ ran = [f \in OnceFiles |-> 0]
    /\ edits = 0
    /\ src \in InitSrcs
    /\ tree = NoneWritten
    /\ ex = 0

\* LoadConfig: os.Stat, ReadFile or json.Unmarshal fails, or a CronConf.
LoadConfig == {"failed", "ok"}

\* util.DownFile fails: http.Get, a status other than 200, opening the
\* temporary file, or io.Copy.
DownFileFailures == {"get", "status", "open", "copy"}

(* Run: a configuration URL is downloaded to a temporary file first, and  *)
(* a failed download is log.Fatalf.  A missing or malformed file makes it *)
(* log "load failed" and return, except after a download: there           *)
(* `tmpFile, err :=` declares an err of the if-block, the error of        *)
(* LoadConfig is assigned to it, the outer err stays nil, and Run goes on *)
(* to read conf.LogDir of a nil conf, which panics.  Otherwise init_tgz   *)
(* runs first, and without one the apps start at once.                    *)
LoadFailed == IF ConfUrl THEN "exited" ELSE "done"

Load ==
    /\ cr = "load"
    /\ \/ ConfUrl /\ \E why \in DownFileFailures : cr' = "exited"
       \/ \E r \in LoadConfig :
            cr' = IF r = "failed" THEN LoadFailed
                  ELSE IF HasInit THEN "init" ELSE "start"
    /\ UNCHANGED <<dm, starts, inst, disk, how, evq, chgfiles, ran, edits, src,
                   tree, ex>>

\* ExtractTarGz returns an error before its first entry: the target cannot
\* be stat'ed or created, or is not a directory, or gzip.NewReader fails.
ExtractFailures == {"target", "gzip"}

\* What can fail before the first entry: for an http src, DownTgz's
\* http.Get or its status; for a local one, os.Open; then ExtractTarGz.
OpenFailures(s) ==
    ExtractFailures \cup (IF s = "http" THEN {"get", "status"} ELSE {"open"})

\* Where init_tgz goes once the archive is unpacked: its app, if any.
AfterUnpack == IF InitApp THEN "initapp" ELSE "start"

(* init_tgz: an empty src skips the archive; otherwise it is fetched or  *)
(* opened and ExtractTarGz begins, and a failure returns an error before *)
(* the app.  Run ignores that error and goes on to start the apps.       *)
InitOpen ==
    /\ cr = "init"
    /\ ex = 0
    /\ IF src = "none"
         THEN cr' = AfterUnpack /\ UNCHANGED ex
         ELSE \/ \E why \in OpenFailures(src) : cr' = "start" /\ UNCHANGED ex
              \/ ex' = 1 /\ UNCHANGED cr
    /\ UNCHANGED <<dm, starts, inst, disk, how, evq, chgfiles, ran, edits, src,
                   tree>>

(* tarReader.Next fails (a corrupt or truncated stream): the error is    *)
(* only logged, header is nil, and header.Name panics, ending cron.      *)
ExtractPanic ==
    /\ cr = "init"
    /\ ex \in 1..Len(Archive) + 1
    /\ cr' = "exited"
    /\ UNCHANGED <<dm, starts, inst, disk, how, evq, chgfiles, ran, edits, src,
                   tree, ex>>

\* Mutant: an io.Copy error is logged and the loop goes on.
ExtractEntryCopyContinues ==
    /\ cr = "init"
    /\ ex \in 1..Len(Archive)
    /\ LET e == Archive[ex] IN
         IF e.kind # "file"
           THEN ex' = ex + 1 /\ UNCHANGED <<cr, tree>>
           ELSE \/ cr' = "start" /\ ex' = 0 /\ tree' = NoneWritten
                \/ \E c \in {"file", "partial"} :
                     /\ tree' = [tree EXCEPT ![e.name] = c]
                     /\ ex' = ex + 1 /\ UNCHANGED cr
    /\ UNCHANGED <<dm, starts, inst, disk, how, evq, chgfiles, ran, edits, src>>

(* Next returns entry ex.  A directory is made with os.Mkdir, an error   *)
(* other than "exists" only logged; a symlink replaces whatever Stat     *)
(* finds there, and a failed os.Symlink goes unnoticed.  A regular file  *)
(* is opened with O_TRUNC and filled by io.Copy; a failure of either     *)
(* returns the error, and a failed io.Copy leaves the copy cut short.    *)
ExtractEntry ==
    /\ cr = "init"
    /\ ex \in 1..Len(Archive)
    /\ LET e == Archive[ex] IN
         IF e.kind # "file"
           THEN ex' = ex + 1 /\ UNCHANGED <<cr, tree>>
           ELSE \/ cr' = "start" /\ ex' = 0 /\ tree' = NoneWritten
                \/ /\ tree' = [tree EXCEPT ![e.name] = "file"]
                   /\ ex' = ex + 1 /\ UNCHANGED cr
    /\ UNCHANGED <<dm, starts, inst, disk, how, evq, chgfiles, ran, edits, src>>

\* Next reports io.EOF: ExtractTarGz returns nil and init_tgz goes on.
ExtractEnd ==
    /\ cr = "init"
    /\ ex = Len(Archive) + 1
    /\ cr' = AfterUnpack
    /\ ex' = 0 /\ tree' = NoneWritten
    /\ UNCHANGED <<dm, starts, inst, disk, how, evq, chgfiles, ran, edits, src>>

\* The init app: startApp returns when its log files or cmd.Start fail, or
\* once Process.Wait reports that it exited.
InitAppExit ==
    /\ cr = "initapp"
    /\ cr' = "start"
    /\ UNCHANGED <<dm, starts, inst, disk, how, evq, chgfiles, ran, edits, src,
                   tree, ex>>

(* Run starts a goroutine per daemon app (startApp in a loop), registers *)
(* the crontab apps with gocron, and watches once_dir.                    *)
StartApps ==
    /\ cr = "start"
    /\ cr' = "run"
    /\ dm' = [a \in Daemons |-> "start"]
    /\ UNCHANGED <<starts, inst, disk, how, evq, chgfiles, ran, edits, src,
                   tree, ex>>

(* startApp: opening the two log files or cmd.Start may fail, and then it *)
(* returns at once; otherwise it waits for the process.                   *)
DaemonStart(a) ==
    /\ dm[a] = "start"
    /\ starts[a] < MaxStarts
    /\ starts' = [starts EXCEPT ![a] = starts[a] + 1]
    /\ \E r \in {"run", "sleep"} : dm' = [dm EXCEPT ![a] = r]
    /\ UNCHANGED <<cr, inst, disk, how, evq, chgfiles, ran, edits, src, tree,
                   ex>>

\* time.Sleep(5 s) ends and the loop calls startApp again.
DaemonWake(a) ==
    /\ dm[a] = "sleep"
    /\ dm' = [dm EXCEPT ![a] = "start"]
    /\ UNCHANGED <<cr, starts, inst, disk, how, evq, chgfiles, ran, edits, src,
                   tree, ex>>

\* gocron runs the job at its time, in a new goroutine, whether or not the
\* previous run has ended.
JobTick(j) ==
    /\ cr = "run"
    /\ starts[j] < MaxStarts
    /\ starts' = [starts EXCEPT ![j] = starts[j] + 1]
    /\ inst' = [inst EXCEPT ![j] = inst[j] + 1]
    /\ UNCHANGED <<cr, dm, disk, how, evq, chgfiles, ran, edits, src, tree,
                   ex>>

\* Mutant: the name is recorded on the Create event instead of the Write.
RecvOnCreate ==
    /\ cr = "run"
    /\ evq # <<>>
    /\ evq' = Tail(evq)
    /\ chgfiles' = IF Head(evq).op = "create" THEN chgfiles \cup {Head(evq).name} ELSE chgfiles
    /\ UNCHANGED <<cr, dm, starts, inst, disk, how, ran, edits, src, tree, ex>>

\* WatchDir receives an event: a Write records the name, the rest is ignored.
Recv ==
    /\ cr = "run"
    /\ evq # <<>>
    /\ evq' = Tail(evq)
    /\ chgfiles' = IF Head(evq).op = "write" THEN chgfiles \cup {Head(evq).name} ELSE chgfiles
    /\ UNCHANGED <<cr, dm, starts, inst, disk, how, ran, edits, src, tree, ex>>

\* loadOnceFile: os.Stat, ReadFile and json.Unmarshal succeed only on a
\* file whose whole content has landed.
Loads(f) == disk[f] = "complete"

\* The callback of Run: a file that loads is removed and its app started;
\* one that does not is only logged ("retry later").
OnceRun(f) == f \in chgfiles /\ Loads(f)

(* One second without an event: the callback runs for every recorded file *)
(* and chgfiles is emptied, whatever each callback did.                   *)
Timer ==
    /\ cr = "run"
    /\ evq = <<>>
    /\ chgfiles # {}
    /\ disk' = [f \in OnceFiles |-> IF OnceRun(f) THEN "absent" ELSE disk[f]]
    /\ ran' = [f \in OnceFiles |-> IF OnceRun(f) THEN ran[f] + 1 ELSE ran[f]]
    /\ chgfiles' = {}
    /\ UNCHANGED <<cr, dm, starts, inst, how, evq, edits, src, tree, ex>>

-----------------------------------------------------------------------------
(* The environment: processes ending and users dropping job files.        *)

\* A daemon's process exits; Process.Wait returns and the loop sleeps.
DaemonExit(a) ==
    /\ dm[a] = "run"
    /\ dm' = [dm EXCEPT ![a] = "sleep"]
    /\ UNCHANGED <<cr, starts, inst, disk, how, evq, chgfiles, ran, edits, src,
                   tree, ex>>

\* A run of a crontab app ends.
JobExit(j) ==
    /\ inst[j] > 0
    /\ inst' = [inst EXCEPT ![j] = inst[j] - 1]
    /\ UNCHANGED <<cr, dm, starts, disk, how, evq, chgfiles, ran, edits, src,
                   tree, ex>>

WriterCan == cr = "run" /\ edits < MaxEdits /\ Len(evq) < MaxEvents

\* A job file is created in place (open with O_CREAT): an empty file and a
\* Create event.
CreateFile(f) ==
    /\ WriterCan
    /\ disk[f] = "absent"
    /\ disk' = [disk EXCEPT ![f] = "partial"]
    /\ how' = [how EXCEPT ![f] = "write"]
    /\ evq' = Append(evq, [op |-> "create", name |-> f])
    /\ edits' = edits + 1
    /\ UNCHANGED <<cr, dm, starts, inst, chgfiles, ran, src, tree, ex>>

\* Some of the JSON is written, maybe the last of it: a Write event.
WriteFile(f) ==
    /\ WriterCan
    /\ disk[f] = "partial"
    /\ \E d \in {"partial", "complete"} : disk' = [disk EXCEPT ![f] = d]
    /\ evq' = Append(evq, [op |-> "write", name |-> f])
    /\ edits' = edits + 1
    /\ UNCHANGED <<cr, dm, starts, inst, how, chgfiles, ran, src, tree, ex>>

\* A finished job file is renamed into once_dir (mv): inotify reports
\* IN_MOVED_TO, which fsnotify delivers as Create.
MoveIn(f) ==
    /\ WriterCan
    /\ disk[f] = "absent"
    /\ disk' = [disk EXCEPT ![f] = "complete"]
    /\ how' = [how EXCEPT ![f] = "move"]
    /\ evq' = Append(evq, [op |-> "create", name |-> f])
    /\ edits' = edits + 1
    /\ UNCHANGED <<cr, dm, starts, inst, chgfiles, ran, src, tree, ex>>

Next ==
    \/ Load
    \/ InitOpen
    \/ ExtractPanic
    \/ ExtractEntry
    \/ ExtractEnd
    \/ InitAppExit
    \/ StartApps
    \/ \E a \in Daemons : DaemonStart(a)
    \/ \E a \in Daemons : DaemonWake(a)
    \/ \E j \in Jobs : JobTick(j)
    \/ Recv
    \/ Timer
    \/ \E a \in Daemons : DaemonExit(a)
    \/ \E j \in Jobs : JobExit(j)
    \/ \E f \in OnceFiles : CreateFile(f)
    \/ \E f \in OnceFiles : WriteFile(f)
    \/ \E f \in OnceFiles : MoveIn(f)

(* Run's own goroutines run when they can, and time.After(1 s) fires once *)
(* the queue is quiet.  Process exits, gocron's schedule and the users    *)
(* get no fairness.                                                        *)
Fairness ==
    /\ WF_cvars(Load) /\ WF_cvars(InitOpen) /\ WF_cvars(ExtractEntry)
    /\ WF_cvars(ExtractEnd) /\ WF_cvars(StartApps)
    /\ WF_cvars(\E a \in Daemons : DaemonStart(a))
    /\ WF_cvars(\E a \in Daemons : DaemonWake(a))
    /\ WF_cvars(Recv) /\ WF_cvars(Timer)

Spec == Init /\ [][Next]_cvars /\ Fairness

-----------------------------------------------------------------------------
(* A job file written in place into once_dir is eventually run: once its  *)
(* last Write has landed, WatchDir's quiet-second callback loads it,      *)
(* removes it and starts it, even when an earlier callback caught it half *)
(* written and dropped it with "retry later".  (A file renamed in is left *)
(* out: see the README.)                                                  *)
OnceJobRuns ==
    \A f \in OnceFiles :
        (disk[f] = "complete" /\ how[f] = "write") ~> (disk[f] = "absent")

(* init_tgz starts its init app only on a completely unpacked archive:   *)
(* every way of fetching, opening or extracting it failing, io.Copy       *)
(* cutting a file short included, returns before t.App is started.       *)
InitAppOnFullTree ==
    [][cr' = "initapp" /\ src # "none" =>
         \A f \in FileEntries : tree[f] = "file"]_cvars
=============================================================================
