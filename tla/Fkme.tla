-------------------------------- MODULE Fkme --------------------------------
(***************************************************************************)
(* The fkme binary: main (src/main.go) runs the one tool named by its     *)
(* first argument.  This module composes the tools' specifications; each  *)
(* behaviour runs one of them.  The others either sit in a state in which *)
(* none of their actions is enabled (a state their own specification      *)
(* reaches, so every property of theirs holds there), or, for the byte    *)
(* stream and the relay, stay in their initial state because their        *)
(* actions are guarded by the tool.                                       *)
(*                                                                         *)
(*   scp, watch     FileSync   (scp.SCP, Watch)                            *)
(*   ws -p          WsProxy    (serveServer and connCopy) and ByteStream  *)
(*                  (the WS adapter connCopy reads the websocket through) *)
(*   ws -port       SshTunnel  (WSTunnel_M)                                *)
(*   cron           Cron       (cron.Run)                                  *)
(*   pm             PortMap    (util.PM)                                   *)
(*   wsmid          RelayTunnel (WSMidServ: the -m ss relay with the      *)
(*                  -m cs exits and -m cc entrances that reach it)        *)
(***************************************************************************)
EXTENDS Integers, Sequences, FiniteSets

CONSTANTS
    Commands,   \* the command lines fkme may be started with
    Files, Dirs, Root, FileDir, InitDirs, MaxVer, Size, Workers, Cmds,
    FaultyCmds, MaxFaults, MaxEvents, NewDirPause, Nil, Partial,
    Bytes, Chunks, BufSizes, MaxWrites,
    Ports, First, Mode, Slots, TunMaxFaults,
    Daemons, Jobs, OnceFiles, HasInit, MaxStarts, MaxEdits, OnceMaxEvents,
    InitSrcs, InitApp, Archive, ConfUrl,
    PmPorts, PmSlots, DialTries,
    WsConns,
    Exits, ExitSlot, Entrances, EntranceSlot, EntranceTarget, SlotNames,
    Targets, Reachable, S5, MaxConn, MaxRestarts, SerialBits, RelayMaxFaults

\* The tools modelled here, as Dispatch names them.
Tools == {"scp", "watch", "ws -p", "ws -port", "cron", "pm", "wsmid"}

VARIABLES
    tool,
    cmd, phase, local, remote, ldirs, walkLeft, watched, q, chg, pend, retry,
    sess, net, faults, w, wfile, sentinels, notes, fr, fev, gone,
    frames, closed, nw, sent, remain, out, last, rdone,
    tp, cl, bd, cn, cport, hold, sig, tfaults,
    cr, dm, starts, inst, disk, how, evq, chgfiles, ran, edits, src, tree, ex,
    busy, pm, ls, pc, tries, sa, sb, ta, tb,
    s5mode, hd, wsk, tgt, cpa, cpb, closes,
    slots, waitWS, conns, rg, sg, sgEvt, timeoutCounter, rcmd, cmdReq, cmdRep,
    hst, hslot, sdh, sdhK, rc, rcK, eto, nacc, est, lconn, ews, erep,
    xa, inc, xj, xjOwner, tconn, xws, xrep, rfaults

FS  == INSTANCE FileSync
BS  == INSTANCE ByteStream
Tun == INSTANCE SshTunnel WITH MaxFaults <- TunMaxFaults, faults <- tfaults
CR  == INSTANCE Cron WITH MaxEvents <- OnceMaxEvents
PM  == INSTANCE PortMap
WP  == INSTANCE WsProxy
RT  == INSTANCE RelayTunnel WITH MaxFaults <- RelayMaxFaults, cmd <- rcmd,
                                 faults <- rfaults

\* Each tool's variables, as its own module lists them.
fsv  == <<cmd, phase, local, remote, ldirs, walkLeft, watched, q, chg, pend, retry,
          sess, net, faults, w, wfile, sentinels, notes, fr, fev, gone>>
bsv  == <<frames, closed, nw, sent, remain, out, last, rdone>>
tunv == <<tp, cl, bd, cn, cport, hold, sig, tfaults>>
crv  == <<cr, dm, starts, inst, disk, how, evq, chgfiles, ran, edits, src,
          tree, ex>>
pmv  == <<busy, pm, ls, pc, tries, sa, sb, ta, tb>>
wpv  == <<s5mode, hd, wsk, tgt, cpa, cpb, closes>>
rtv  == <<slots, waitWS, conns, rg, sg, sgEvt, timeoutCounter, rcmd, cmdReq,
          cmdRep, hst, hslot, sdh, sdhK, rc, rcK, eto, nacc, est, lconn, ews,
          erep, xa, inc, xj, xjOwner, tconn, xws, xrep, rfaults>>
vars == <<tool, fsv, bsv, tunv, crv, pmv, wpv, rtv>>

\* fkme scp -up that found every file already up to date and returned.
FsIdle ==
    /\ cmd = "scpup" /\ phase = "done"
    /\ ldirs = InitDirs
    /\ local = [f \in Files |-> IF FileDir[f] \in InitDirs \cup {Root} THEN 1 ELSE 0]
    /\ remote = local
    /\ walkLeft = {} /\ watched = {} /\ q = <<>> /\ chg = {} /\ pend = {}
    /\ retry = Nil
    /\ sess = [c \in FS!Conns |-> IF c = "main" THEN "ok" ELSE "none"]
    /\ net = "up" /\ faults = 0
    /\ w = [i \in Workers |-> "none"] /\ wfile = [i \in Workers |-> Nil]
    /\ sentinels = 0 /\ notes = 0 /\ fr = "none" /\ fev = Nil /\ gone = {}

\* WSTunnel_M after SIGINT when no dial had succeeded: bindTunnel returned.
TunIdle ==
    /\ tp = "done" /\ cl = "none" /\ sig = TRUE /\ tfaults = 0
    /\ bd = [p \in Ports |-> "none"]
    /\ cn = [k \in Slots |-> "none"]
    /\ cport = [k \in Slots |-> First]
    /\ hold = [p \in Ports |-> "none"]

\* cron.Run after LoadConfig failed: "load failed" and return.
CronIdle ==
    /\ cr = "done"
    /\ dm = [a \in Daemons |-> "idle"]
    /\ starts = [a \in CR!Apps |-> 0]
    /\ inst = [j \in Jobs |-> 0]
    /\ disk = [f \in OnceFiles |-> "absent"]
    /\ how = [f \in OnceFiles |-> "write"]
    /\ evq = <<>> /\ chgfiles = {} /\ ran = [f \in OnceFiles |-> 0] /\ edits = 0
    /\ src = "none" /\ tree = CR!NoneWritten /\ ex = 0

\* util.PM without a -b item: log.Fatalf("add bind port!!").
PmIdle ==
    /\ busy = {} /\ pm = "exited"
    /\ ls = [p \in PmPorts |-> "none"]
    /\ pc = [k \in PmSlots |-> "none"]
    /\ tries = [k \in PmSlots |-> 0]
    /\ sa = [k \in PmSlots |-> "closed"]
    /\ sb = [k \in PmSlots |-> "none"]
    /\ ta = [k \in PmSlots |-> FALSE] /\ tb = [k \in PmSlots |-> FALSE]

\* No request has reached serveServer's /ws handler.
WpIdle ==
    /\ s5mode = FALSE
    /\ hd = [k \in WsConns |-> "done"]
    /\ wsk = [k \in WsConns |-> "none"] /\ tgt = [k \in WsConns |-> "none"]
    /\ cpa = [k \in WsConns |-> FALSE] /\ cpb = [k \in WsConns |-> FALSE]
    /\ closes = [k \in WsConns |-> 0]

(* ws.Run: -p starts serveServer, else one or more -port items start      *)
(* WSTunnel_M, else it prints "Nothing to do!!!!!" and returns.           *)
WsMode(p, nports) ==
    IF p > 0 THEN "ws -p" ELSE IF nports > 0 THEN "ws -port" ELSE "none"

(* wsmid is three processes: WSMidServ runs the relay for -m ss (or     *)
(* server-server, the default), an exit for -m cs and an entrance for    *)
(* -m cc; any other -m matches no branch and returns.  A deployment that *)
(* has all three roles is modelled; one that lacks a role is "none".     *)
WsMidRole(m) ==
    CASE m \in {"server-server", "ss"} -> "relay"
      [] m \in {"client-server", "cs"} -> "exit"
      [] m \in {"client-client", "cc"} -> "entrance"
      [] OTHER -> "none"

WsMidDeployment(modes) ==
    IF {"relay", "exit", "entrance"} \subseteq {WsMidRole(m) : m \in modes}
      THEN "wsmid" ELSE "none"

(* main: the first argument names the command; an unknown one logs       *)
(* "nothing to do!" and main returns.  Only the commands modelled here   *)
(* are told apart; the others are "none".                                *)
Dispatch(c) ==
    CASE c.name \in {"scp", "watch", "cron", "pm"} -> c.name
      [] c.name = "ws" -> WsMode(c.p, c.ports)
      [] c.name = "wsmid" -> WsMidDeployment(c.modes)
      [] OTHER -> "none"

(* main with the command line c; scp picks its mode from its own flags.  *)
(* A run that starts no modelled tool leaves every component idle.       *)
Init ==
    /\ \E c \in Commands : tool = Dispatch(c)
    /\ IF tool \in {"scp", "watch"}
         THEN FS!Init /\ (cmd = "watch" <=> tool = "watch")
         ELSE FsIdle
    /\ BS!Init
    /\ IF tool = "ws -p" THEN WP!Init ELSE WpIdle
    /\ IF tool = "ws -port" THEN Tun!Init ELSE TunIdle
    /\ IF tool = "cron" THEN CR!Init ELSE CronIdle
    /\ IF tool = "pm" THEN PM!Init ELSE PmIdle
    /\ RT!Init

\* The variables a step of one tool leaves alone.
ofs  == <<tool, bsv, tunv, crv, pmv, wpv, rtv>>
obs  == <<tool, fsv, tunv, crv, pmv, wpv, rtv>>
otun == <<tool, fsv, bsv, crv, pmv, wpv, rtv>>
ocr  == <<tool, fsv, bsv, tunv, pmv, wpv, rtv>>
opm  == <<tool, fsv, bsv, tunv, crv, wpv, rtv>>
owp  == <<tool, fsv, bsv, tunv, crv, pmv, rtv>>
ort  == <<tool, fsv, bsv, tunv, crv, pmv, wpv>>

(* Every step is a step of one tool's specification; listing each action *)
(* of each keeps them apart in TLC's coverage.                            *)
Next ==
    \/ \E f \in Files : FS!WalkVisit(f) /\ UNCHANGED ofs
    \/ \E f \in Files : FS!DownVisit(f) /\ UNCHANGED ofs
    \/ FS!WalkDone /\ UNCHANGED ofs
    \/ \E f \in Files : FS!PoolSend(f) /\ UNCHANGED ofs
    \/ \E i \in Workers : FS!PoolSentinel(i) /\ UNCHANGED ofs
    \/ \E i \in Workers : FS!PoolJoin(i) /\ UNCHANGED ofs
    \/ \E i \in Workers : FS!WorkerConnect(i) /\ UNCHANGED ofs
    \/ \E i \in Workers : FS!WorkerUpload(i) /\ UNCHANGED ofs
    \/ \E i \in Workers : FS!WorkerDownload(i) /\ UNCHANGED ofs
    \/ FS!WatchAdd /\ UNCHANGED ofs
    \/ FS!EventRecv /\ UNCHANGED ofs
    \/ FS!Timer /\ UNCHANGED ofs
    \/ \E f \in Files : FS!CbFirst(f) /\ UNCHANGED ofs
    \/ FS!CbRetry /\ UNCHANGED ofs
    \/ FS!FlushEnd /\ UNCHANGED ofs
    \/ FS!WatchStart /\ UNCHANGED ofs
    \/ FS!RunRecv /\ UNCHANGED ofs
    \/ FS!WaitRecv /\ UNCHANGED ofs
    \/ FS!WaitTimer /\ UNCHANGED ofs
    \/ \E f \in Files : FS!WaitUpload(f) /\ UNCHANGED ofs
    \/ FS!WaitFlushEnd /\ UNCHANGED ofs
    \/ FS!Quit /\ UNCHANGED ofs
    \/ \E f \in Files : FS!Write(f) /\ UNCHANGED ofs
    \/ \E f \in Files : FS!Remove(f) /\ UNCHANGED ofs
    \/ \E d \in Dirs : FS!MkDir(d) /\ UNCHANGED ofs
    \/ FS!LinkDown /\ UNCHANGED ofs
    \/ FS!LinkUp /\ UNCHANGED ofs
    \/ tool = "ws -p" /\ \E p \in Chunks : BS!Write(p) /\ UNCHANGED obs
    \/ tool = "ws -p" /\ BS!WriterClose /\ UNCHANGED obs
    \/ tool = "ws -p" /\ \E k \in BufSizes : BS!ReadRemain(k) /\ UNCHANGED obs
    \/ tool = "ws -p" /\ \E k \in BufSizes : BS!ReadMessage(k) /\ UNCHANGED obs
    \/ tool = "ws -p" /\ \E k \in BufSizes : BS!ReadError(k) /\ UNCHANGED obs
    \/ Tun!Dial /\ UNCHANGED otun
    \/ \E p \in Ports : Tun!Bind(p) /\ UNCHANGED otun
    \/ \E p \in Ports, k \in Slots : Tun!Accept(p, k) /\ UNCHANGED otun
    \/ \E p \in Ports : Tun!BindCancel(p) /\ UNCHANGED otun
    \/ \E k \in Slots : Tun!ConnDial(k) /\ UNCHANGED otun
    \/ \E k \in Slots : Tun!ConnCancel(k) /\ UNCHANGED otun
    \/ Tun!SessionEnd /\ UNCHANGED otun
    \/ Tun!WaitRetry /\ UNCHANGED otun
    \/ Tun!WaitDone /\ UNCHANGED otun
    \/ Tun!Signal /\ UNCHANGED otun
    \/ \E k \in Slots : Tun!ConnClose(k) /\ UNCHANGED otun
    \/ Tun!LinkBreak /\ UNCHANGED otun
    \/ \E p \in Ports : Tun!ServerReap(p) /\ UNCHANGED otun
    \/ CR!Load /\ UNCHANGED ocr
    \/ CR!InitOpen /\ UNCHANGED ocr
    \/ CR!ExtractPanic /\ UNCHANGED ocr
    \/ CR!ExtractEntry /\ UNCHANGED ocr
    \/ CR!ExtractEnd /\ UNCHANGED ocr
    \/ CR!InitAppExit /\ UNCHANGED ocr
    \/ CR!StartApps /\ UNCHANGED ocr
    \/ \E a \in Daemons : CR!DaemonStart(a) /\ UNCHANGED ocr
    \/ \E a \in Daemons : CR!DaemonWake(a) /\ UNCHANGED ocr
    \/ \E j \in Jobs : CR!JobTick(j) /\ UNCHANGED ocr
    \/ CR!Recv /\ UNCHANGED ocr
    \/ CR!Timer /\ UNCHANGED ocr
    \/ \E a \in Daemons : CR!DaemonExit(a) /\ UNCHANGED ocr
    \/ \E j \in Jobs : CR!JobExit(j) /\ UNCHANGED ocr
    \/ \E f \in OnceFiles : CR!CreateFile(f) /\ UNCHANGED ocr
    \/ \E f \in OnceFiles : CR!WriteFile(f) /\ UNCHANGED ocr
    \/ \E f \in OnceFiles : CR!MoveIn(f) /\ UNCHANGED ocr
    \/ \E p \in PmPorts : PM!BindOp(p) /\ UNCHANGED opm
    \/ \E p \in PmPorts : PM!Listen(p) /\ UNCHANGED opm
    \/ \E p \in PmPorts, k \in PmSlots : PM!Accept(p, k) /\ UNCHANGED opm
    \/ \E k \in PmSlots : PM!DialTry(k) /\ UNCHANGED opm
    \/ \E k \in PmSlots : PM!TransAEnd(k) /\ UNCHANGED opm
    \/ \E k \in PmSlots : PM!TransBEnd(k) /\ UNCHANGED opm
    \/ \E k \in PmSlots : PM!ClientHangup(k) /\ UNCHANGED opm
    \/ \E k \in PmSlots : PM!TargetHangup(k) /\ UNCHANGED opm
    \/ \E k \in WsConns : WP!Upgrade(k) /\ UNCHANGED owp
    \/ \E k \in WsConns : WP!Dial(k) /\ UNCHANGED owp
    \/ \E k \in WsConns : WP!S5End(k) /\ UNCHANGED owp
    \/ \E k \in WsConns : WP!CopyAEnd(k) /\ UNCHANGED owp
    \/ \E k \in WsConns : WP!CopyBEnd(k) /\ UNCHANGED owp
    \/ \E k \in WsConns : WP!PeerClose(k) /\ UNCHANGED owp
    \/ \E k \in WsConns : WP!TargetClose(k) /\ UNCHANGED owp
    \/ tool = "wsmid" /\ RT!Program /\ UNCHANGED ort
    \/ tool = "wsmid" /\ RT!Environment /\ UNCHANGED ort

\* The tools' own fairness: the ByteStream adapter assumes none.
Fairness == FS!Fairness /\ Tun!Fairness /\ CR!Fairness /\ PM!Fairness /\ WP!Fairness
            /\ RT!Fairness

Spec == Init /\ [][Next]_vars /\ Fairness

(* The safety part alone.  Each liveness property below says: in a      *)
(* behaviour that runs the tool it is about, that tool's fairness        *)
(* implies its property.  They are checked against SafeSpec; Spec, whose *)
(* Fairness includes every tool's, implies each of them, and TLC weighs  *)
(* only one tool's fairness conditions per property.  In a behaviour     *)
(* that runs another tool the component sits idle and its property says *)
(* nothing.                                                              *)
SafeSpec == Init /\ [][Next]_vars

-----------------------------------------------------------------------------
\* The state of every tool has its type.
TypeOK ==
    /\ tool \in Tools \cup {"none"}
    /\ FS!TypeOK /\ BS!TypeOK /\ Tun!TypeOK /\ CR!TypeOK /\ PM!TypeOK
    /\ WP!TypeOK /\ RT!TypeOK

(* scp -daemon and watch: every out-of-date file is still on its way to   *)
(* an upload through the events, chgfiles and the flush, a cut upload     *)
(* retried once included (FileSync!ChangeTracked).                        *)
ChangeTracked == FS!ChangeTracked

(* scp: a one-shot mode whose Run returns normally has really copied    *)
(* every file (FileSync!DoneMeansSynced).                                 *)
DoneMeansSynced == FS!DoneMeansSynced

(* scp and watch: once the user stops editing, every copy ends equal to   *)
(* its source unless the process exited (FileSync!EventuallySynced).      *)
EventuallySynced == tool \in {"scp", "watch"} /\ FS!Fairness => FS!EventuallySynced

(* Every one-shot scp mode ends, the upload and download worker pools     *)
(* included (FileSync!Terminates).                                        *)
Terminates == tool \in {"scp", "watch"} /\ FS!Fairness => FS!Terminates

(* ws -p: the WS adapter implements a byte stream: each Read hands out at *)
(* most len(p) of the oldest unread bytes, and the end is reported only   *)
(* once every byte written before the close has been read                 *)
(* (ByteStream!ImplementsStream, a refinement of StreamContract).         *)
ImplementsStream == BS!ImplementsStream

(* ws -p: reading the websocket through the WS adapter yields exactly the *)
(* bytes written, in order, over any mix of buffer and message sizes      *)
(* (ByteStream!StreamPreserved).                                          *)
StreamPreserved == BS!StreamPreserved

OnceJobRuns == tool = "cron" /\ CR!Fairness => CR!OnceJobRuns

(* cron: the init app of init_tgz runs only once every regular file of   *)
(* the archive has been written whole (Cron!InitAppOnFullTree).          *)
InitAppOnFullTree == CR!InitAppOnFullTree

(* pm: when either end of a mapped connection hangs up, both sockets are  *)
(* closed and both Trans goroutines end (PortMap!PmCloseBoth).             *)
PmCloseBoth == tool = "pm" /\ PM!Fairness => PM!PmCloseBoth

(* ws -p: when the websocket client or the target of a joined pair hangs  *)
(* up, connCopy's once-close closes both and both copies return           *)
(* (WsProxy!ProxyCloseBoth).                                               *)
ProxyCloseBoth == tool = "ws -p" /\ WP!Fairness => WP!ProxyCloseBoth

(* wsmid: once the relay has paired a session, the close of any of its  *)
(* four connections (local, client-data, server-data, target) eventually *)
(* closes all four and ends the copy loops of the entrance, the relay    *)
(* and the exit (RelayTunnel!ClosePropagation).                           *)
ClosePropagation == tool = "wsmid" /\ RT!Fairness => RT!ClosePropagation

(* wsmid: once an exit's command channel is closed (crash or link       *)
(* failure), the slot goroutine's next request fails and the slot name   *)
(* eventually stops routing to that channel (RelayTunnel!DeadExitDetected).*)
DeadExitDetected == tool = "wsmid" /\ RT!Fairness => RT!DeadExitDetected
=============================================================================
