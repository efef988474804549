---------------------------- MODULE RelayTunnel ----------------------------
(***************************************************************************)
(* The multiplexed relay tunnel of src/ws/ws_tun.go: the relay             *)
(* (SrvServer), the exit agents (CliServer) and the entrance agents        *)
(* (CliClient), each goroutine an actor whose steps interleave.            *)
(*                                                                         *)
(* A session is one TCP connection accepted by an entrance agent; it is   *)
(* named <<entrance, k>> for the k-th accept.  Everything that exists      *)
(* because of that accept is indexed by the session: its local connection, *)
(* its client-data websocket, the relay handler serving it, and the job   *)
(* an exit agent starts when the relay forwards its conn event (the exit   *)
(* itself only sees the serial and the target; the index is the model's).  *)
(* A command channel and the relay goroutine serving it are indexed by the *)
(* exit process incarnation <<exit, restart>>.                             *)
(*                                                                         *)
(* A connection is "none" (not opened), "open" or "closed"; closing either *)
(* end closes it for both.  Writing on a closed connection fails.          *)
(***************************************************************************)
EXTENDS Naturals, FiniteSets, ConcurrentMap

CONSTANTS
  Exits,          \* exit agent processes (wsmid -m client-server)
  ExitSlot,       \* the -slot name each exit registers
  Entrances,      \* entrance agent processes (wsmid -m client-client)
  EntranceSlot,   \* the -slot name each entrance requests
  EntranceTarget, \* the -to addresses each entrance may be started with
  SlotNames,
  Targets,        \* target addresses
  Reachable,      \* the targets net.Dial reaches from the exit agent
  S5,             \* the target "s5": serve the data channel with socks5
  MaxConn,        \* bound: connections each entrance accepts
  MaxRestarts,    \* bound: restarts of each exit by the daemon loop
  SerialBits,     \* width of CliClient.ser_no_seed (uint16 in the code)
  MaxFaults,      \* bound: link failures and exit crashes in a behaviour
  Nil

ASSUME ExitSlot \in [Exits -> SlotNames]
ASSUME EntranceSlot \in [Entrances -> SlotNames]
ASSUME EntranceTarget \in [Entrances -> SUBSET Targets \ {{}}]
ASSUME Reachable \subseteq Targets /\ S5 \in Targets \ Reachable
ASSUME MaxConn \in Nat \ {0} /\ MaxRestarts \in Nat /\ MaxFaults \in Nat /\ SerialBits \in Nat \ {0}

Sessions == Entrances \X (1..MaxConn)
Incs     == Exits \X (0..MaxRestarts)
Serials  == SlotNames \X (0..(2^SerialBits - 1))

ConnState == {"none", "open", "closed"}
Reply     == {"none", "OK", "FAIL"}

\* Requests of the slot goroutine's Req on a command channel.
NoReq      == [kind |-> "none"]
HbReq      == [kind |-> "hb"]
DataReq(s) == [kind |-> "data", s |-> s]

VARIABLES
  slots,          \* SrvServer.slots: slot name -> command channel
  waitWS,         \* SrvServer.waitWS: serial -> waiting client-data session
  conns,          \* SrvServer.conns: serial -> <<job, session>> pair
  rg,             \* registration handler of each command channel
  sg,             \* relay slot goroutine (SrvServer.SrvServer) per channel
  sgEvt,          \* the session whose conn event it is serving
  timeoutCounter, \* its timeout_counter
  cmd,            \* command channel state
  cmdReq,         \* request written by the relay, not yet read by the exit
  cmdRep,         \* reply written by the exit, not yet read by the relay
  hst,            \* relay client-data handler of each session
  hslot,          \* the command channel whose slot.ch it sends on
  eto,            \* the -to address each entrance was started with
  nacc,           \* CliClient.ser_no_seed: accepts so far
  est,            \* entrance CliClient.connCopy of each session
  lconn,          \* the accepted local TCP connection
  ews,            \* the client-data websocket
  erep,           \* reply the relay wrote on it
  xa,             \* exit agent process: CliServer.Serv loop
  inc,            \* its incarnation (restarts so far)
  xj,             \* exit job started for a session's server-data request
  xjOwner,        \* the exit process running it
  tconn,          \* the job's target connection (socks5 session for s5)
  xws,            \* the job's server-data websocket
  xrep,           \* reply the relay wrote on it
  sdh,            \* relay server-data handler of each job
  sdhK,           \* the waiting session it found
  rc,             \* relay SrvServer.connCopy of each job
  rcK,            \* the session it is paired with
  faults          \* link failures and crashes so far (bounded by MaxFaults)

relay    == <<slots, waitWS, conns, rg, sg, sgEvt, timeoutCounter>>
channels == <<cmd, cmdReq, cmdRep>>
handlers == <<hst, hslot, sdh, sdhK, rc, rcK>>
entrance == <<eto, nacc, est, lconn, ews, erep>>
exit     == <<xa, inc, xj, xjOwner, tconn, xws, xrep>>
vars     == <<relay, channels, handlers, entrance, exit, faults>>

\* Variant: a seed that is never incremented, every serial the same.
SerialNoSeed(s) == <<EntranceSlot[s[1]], 0>>

\* ser_no := fmt.Sprintf("%s-%d", slot_name, ser_no_seed), seed += 1 per accept
Serial(s) == <<EntranceSlot[s[1]], s[2] % (2^SerialBits)>>
Target(s) == eto[s[1]]
SlotOf(g) == ExitSlot[g[1]]
Cur(e)    == <<e, inc[e]>>
Close(c)  == IF c = "open" THEN "closed" ELSE c
Live      == {"idle", "conn", "hb"}

TypeOK ==
  /\ DOMAIN slots \subseteq SlotNames /\ \A n \in DOMAIN slots : slots[n] \in Incs
  /\ DOMAIN waitWS \subseteq Serials /\ \A x \in DOMAIN waitWS : waitWS[x] \in Sessions
  /\ DOMAIN conns \subseteq Serials /\ \A x \in DOMAIN conns : conns[x] \in Sessions \X Sessions
  /\ rg \in [Incs -> {"none", "sent", "looked", "ok", "fail"}]
  /\ sg \in [Incs -> {"none", "exited"} \cup Live]
  /\ sgEvt \in [Incs -> Sessions \cup {Nil}]
  /\ timeoutCounter \in [Incs -> 0..3]
  /\ cmd \in [Incs -> ConnState]
  /\ cmdReq \in [Incs -> {NoReq, HbReq} \cup {DataReq(s) : s \in Sessions}]
  /\ cmdRep \in [Incs -> Reply]
  /\ hst \in [Sessions -> {"none", "recv", "blocked", "done"}]
  /\ hslot \in [Sessions -> Incs \cup {Nil}]
  /\ eto \in [Entrances -> Targets]
  /\ nacc \in [Entrances -> 0..MaxConn]
  /\ est \in [Sessions -> {"none", "dial", "req", "copy", "done"}]
  /\ lconn \in [Sessions -> ConnState]
  /\ ews \in [Sessions -> ConnState]
  /\ erep \in [Sessions -> Reply]
  /\ xa \in [Exits -> {"start", "reg", "serve", "s5", "stopped"}]
  /\ inc \in [Exits -> 0..MaxRestarts]
  /\ xj \in [Sessions -> {"none", "dialws", "copy", "done"}]
  /\ xjOwner \in [Sessions -> Exits \cup {Nil}]
  /\ tconn \in [Sessions -> ConnState]
  /\ xws \in [Sessions -> ConnState]
  /\ xrep \in [Sessions -> Reply]
  /\ sdh \in [Sessions -> {"none", "recv", "got", "done"}]
  /\ sdhK \in [Sessions -> Sessions \cup {Nil}]
  /\ rc \in [Sessions -> {"none", "run", "done"}]
  /\ rcK \in [Sessions -> Sessions \cup {Nil}]
  /\ faults \in 0..MaxFaults

Init ==
  /\ slots = EmptyMap /\ waitWS = EmptyMap /\ conns = EmptyMap
  /\ rg = [g \in Incs |-> "none"]
  /\ sg = [g \in Incs |-> "none"]
  /\ sgEvt = [g \in Incs |-> Nil]
  /\ timeoutCounter = [g \in Incs |-> 0]
  /\ cmd = [g \in Incs |-> "none"]
  /\ cmdReq = [g \in Incs |-> NoReq]
  /\ cmdRep = [g \in Incs |-> "none"]
  /\ hst = [s \in Sessions |-> "none"] /\ hslot = [s \in Sessions |-> Nil]
  /\ eto \in {f \in [Entrances -> Targets] : \A c \in Entrances : f[c] \in EntranceTarget[c]}
  /\ nacc = [c \in Entrances |-> 0]
  /\ est = [s \in Sessions |-> "none"]
  /\ lconn = [s \in Sessions |-> "none"]
  /\ ews = [s \in Sessions |-> "none"]
  /\ erep = [s \in Sessions |-> "none"]
  /\ xa = [e \in Exits |-> "start"] /\ inc = [e \in Exits |-> 0]
  /\ xj = [s \in Sessions |-> "none"] /\ xjOwner = [s \in Sessions |-> Nil]
  /\ tconn = [s \in Sessions |-> "none"]
  /\ xws = [s \in Sessions |-> "none"]
  /\ xrep = [s \in Sessions |-> "none"]
  /\ sdh = [s \in Sessions |-> "none"] /\ sdhK = [s \in Sessions |-> Nil]
  /\ rc = [s \in Sessions |-> "none"] /\ rcK = [s \in Sessions |-> Nil]
  /\ faults = 0

-----------------------------------------------------------------------------
(* Exit agent: registration (CliServer.Serv, ws_connect) and its process.  *)

\* The exit process ends (Serv returns, or a panic): the OS closes every
\* socket it holds and the goroutines of its jobs die with it.
ExitProcessEnd(e) ==
  LET mine == {j \in Sessions : xjOwner[j] = e /\ xj[j] \in {"dialws", "copy"}}
  IN /\ xa' = [xa EXCEPT ![e] = "stopped"]
     /\ cmd' = [cmd EXCEPT ![Cur(e)] = Close(@)]
     /\ xj' = [j \in Sessions |-> IF j \in mine THEN "done" ELSE xj[j]]
     /\ tconn' = [j \in Sessions |-> IF j \in mine THEN Close(tconn[j]) ELSE tconn[j]]
     /\ xws' = [j \in Sessions |-> IF j \in mine THEN Close(xws[j]) ELSE xws[j]]

\* ws_connect(ws_addr, "server-server,<slot>"): dial, then Req.
ExitConnect(e) ==
  /\ xa[e] = "start"
  /\ \/ /\ cmd' = [cmd EXCEPT ![Cur(e)] = "open"]
        /\ rg' = [rg EXCEPT ![Cur(e)] = "sent"]
        /\ xa' = [xa EXCEPT ![e] = "reg"]
     \/ /\ xa' = [xa EXCEPT ![e] = "stopped"]   \* dial failed: Serv returns
        /\ UNCHANGED <<cmd, rg>>
  /\ UNCHANGED <<faults, slots, waitWS, conns, sg, sgEvt, timeoutCounter, cmdReq, cmdRep,
                 handlers, entrance, inc, xj, xjOwner, tconn, xws, xrep>>

\* The reply to server-server: res,OK enters the serving loop; anything
\* else, or a read error, makes ws_connect return nil and Serv return.
ExitRegistered(e) ==
  LET g == Cur(e) IN
  /\ xa[e] = "reg"
  /\ \/ /\ rg[g] = "ok"
        /\ xa' = [xa EXCEPT ![e] = "serve"]
        /\ UNCHANGED <<cmd, xj, tconn, xws>>
     \/ /\ \/ rg[g] = "fail"
           \/ rg[g] \in {"sent", "looked"} /\ cmd[g] = "closed"
        /\ ExitProcessEnd(e)
  /\ UNCHANGED <<faults, relay, cmdReq, cmdRep, handlers, entrance, inc, xjOwner, xrep>>

\* main.go daemon mode: the exited child is started again.
ExitRestart(e) ==
  /\ xa[e] = "stopped"
  /\ inc[e] < MaxRestarts
  /\ inc' = [inc EXCEPT ![e] = @ + 1]
  /\ xa' = [xa EXCEPT ![e] = "start"]
  /\ UNCHANGED <<faults, relay, channels, handlers, entrance, xj, xjOwner, tconn, xws, xrep>>

-----------------------------------------------------------------------------
(* Relay: the server-server branch of the /ws handler.                    *)

\* Variant: the slots.Get check left out, every registration accepted.
RegisterLookupNoCheck(g) ==
  /\ rg[g] = "sent"
  /\ rg' = [rg EXCEPT ![g] = "looked"]
  /\ UNCHANGED <<faults, slots, waitWS, conns, sg, sgEvt, timeoutCounter, channels,
                 handlers, entrance, exit>>

\* s.slots.Get(slot); a present name is refused with res,FAIL and closed.
RegisterLookup(g) ==
  /\ rg[g] = "sent"
  /\ \/ /\ Found(slots, SlotOf(g))
        /\ rg' = [rg EXCEPT ![g] = "fail"]
        /\ cmd' = [cmd EXCEPT ![g] = Close(@)]
     \/ /\ ~Found(slots, SlotOf(g))
        /\ rg' = [rg EXCEPT ![g] = "looked"]
        /\ UNCHANGED cmd
  /\ UNCHANGED <<faults, slots, waitWS, conns, sg, sgEvt, timeoutCounter, cmdReq, cmdRep,
                 handlers, entrance, exit>>

\* Write res,OK, then s.slots.Set(slot, ss) and go s.SrvServer(...).
RegisterCommit(g) ==
  /\ rg[g] = "looked"
  /\ \/ /\ cmd[g] = "closed"                    \* write failed: Close, return
        /\ rg' = [rg EXCEPT ![g] = "fail"]
        /\ UNCHANGED <<slots, sg>>
     \/ /\ cmd[g] = "open"
        /\ rg' = [rg EXCEPT ![g] = "ok"]
        /\ slots' = MapSet(slots, SlotOf(g), g)
        /\ sg' = [sg EXCEPT ![g] = "idle"]
  /\ UNCHANGED <<faults, waitWS, conns, sgEvt, timeoutCounter, channels, handlers, entrance, exit>>

-----------------------------------------------------------------------------
(* Relay: the slot goroutine SrvServer.SrvServer of one command channel.  *)

\* Req returned an error: no reply was read and the channel is closed.
Failed(g) == cmdRep[g] = "none" /\ cmd[g] = "closed"

\* The deferred exit: c.Close(); s.slots.Remove(slotname) -- by name.
SlotExit(g) ==
  /\ cmd' = [cmd EXCEPT ![g] = Close(@)]
  /\ slots' = MapRemove(slots, SlotOf(g))
  /\ sg' = [sg EXCEPT ![g] = "exited"]

\* Close and remove the client-data connection waiting under a serial.
DropWaiting(ser) ==
  IF Found(waitWS, ser)
  THEN /\ waitWS' = MapRemove(waitWS, ser)
       /\ ews' = [ews EXCEPT ![waitWS[ser]] = Close(@)]
  ELSE UNCHANGED <<waitWS, ews>>

\* select: msg := <-slot.ch, then c.Req("server-data,<ser>,<target>").
\* The unbuffered send of the client-data handler completes here.
SlotRecv(g, s) ==
  /\ sg[g] = "idle"
  /\ hst[s] = "blocked" /\ hslot[s] = g
  /\ hst' = [hst EXCEPT ![s] = "done"]
  /\ sg' = [sg EXCEPT ![g] = "conn"]
  /\ sgEvt' = [sgEvt EXCEPT ![g] = s]
  /\ cmdReq' = [cmdReq EXCEPT ![g] = IF cmd[g] = "open" THEN DataReq(s) ELSE NoReq]
  /\ UNCHANGED <<faults, slots, waitWS, conns, rg, timeoutCounter, cmd, cmdRep, hslot,
                 sdh, sdhK, rc, rcK, entrance, exit>>

\* The reply to server-data: res,OK resets the counter; any other reply
\* drops the waiting client-data connection; an error also ends the loop.
SlotConnReply(g) ==
  LET s == sgEvt[g] IN
  /\ sg[g] = "conn"
  /\ sgEvt' = [sgEvt EXCEPT ![g] = Nil]
  /\ \/ /\ cmdRep[g] = "OK"
        /\ timeoutCounter' = [timeoutCounter EXCEPT ![g] = 0]
        /\ sg' = [sg EXCEPT ![g] = "idle"]
        /\ cmdRep' = [cmdRep EXCEPT ![g] = "none"]
        /\ UNCHANGED <<slots, waitWS, cmd, ews>>
     \/ /\ cmdRep[g] = "FAIL"
        /\ DropWaiting(Serial(s))
        /\ sg' = [sg EXCEPT ![g] = "idle"]
        /\ cmdRep' = [cmdRep EXCEPT ![g] = "none"]
        /\ UNCHANGED <<slots, timeoutCounter, cmd>>
     \/ /\ Failed(g)
        /\ DropWaiting(Serial(s))
        /\ SlotExit(g)
        /\ UNCHANGED <<timeoutCounter, cmdRep>>
  /\ UNCHANGED <<eto, faults, conns, rg, cmdReq, handlers, nacc, est, lconn, erep, exit>>

\* case <-time.After(10 * time.Second): c.Req("heart-beat").
SlotTimer(g) ==
  /\ sg[g] = "idle"
  /\ sg' = [sg EXCEPT ![g] = "hb"]
  /\ cmdReq' = [cmdReq EXCEPT ![g] = IF cmd[g] = "open" THEN HbReq ELSE NoReq]
  /\ UNCHANGED <<faults, slots, waitWS, conns, rg, sgEvt, timeoutCounter, cmd, cmdRep,
                 handlers, entrance, exit>>

\* Variant: a failed heart-beat Req logged but the loop kept running.
SlotHbReplyIgnoreError(g) ==
  /\ sg[g] = "hb"
  /\ \/ /\ cmdRep[g] # "none"
        /\ cmdRep' = [cmdRep EXCEPT ![g] = "none"]
        /\ timeoutCounter' = [timeoutCounter EXCEPT ![g] = 0]
     \/ /\ Failed(g)
        /\ UNCHANGED <<timeoutCounter, cmdRep>>
  /\ sg' = [sg EXCEPT ![g] = "idle"]
  /\ UNCHANGED <<faults, slots, cmd, waitWS, conns, rg, sgEvt, cmdReq, handlers, entrance, exit>>

\* The heart-beat reply: res,OK resets timeout_counter, another reply
\* increments it and the third in a row ends the loop; an error ends it.
SlotHbReply(g) ==
  /\ sg[g] = "hb"
  /\ \/ /\ cmdRep[g] # "none"
        /\ cmdRep' = [cmdRep EXCEPT ![g] = "none"]
        /\ LET n == IF cmdRep[g] = "OK" THEN 0 ELSE timeoutCounter[g] + 1
           IN /\ timeoutCounter' = [timeoutCounter EXCEPT ![g] = n]
              /\ IF n > 2 THEN SlotExit(g)
                 ELSE /\ sg' = [sg EXCEPT ![g] = "idle"]
                      /\ UNCHANGED <<cmd, slots>>
     \/ /\ Failed(g)
        /\ SlotExit(g)
        /\ UNCHANGED <<timeoutCounter, cmdRep>>
  /\ UNCHANGED <<faults, waitWS, conns, rg, sgEvt, cmdReq, handlers, entrance, exit>>

-----------------------------------------------------------------------------
(* Relay: the client-data and server-data branches of the /ws handler and *)
(* SrvServer.connCopy.                                                     *)

\* client-data,<slot>,<ser>,<target>: an absent slot is answered
\* res,FAIL-1043 and closed; otherwise the connection is stored in waitWS
\* and the handler blocks on slot.ch <- "conn,<ser>,<target>".
ClientDataRoute(s) ==
  LET n == EntranceSlot[s[1]] IN
  /\ hst[s] = "recv"
  /\ \/ /\ ~Found(slots, n)
        /\ erep' = [erep EXCEPT ![s] = IF ews[s] = "open" THEN "FAIL" ELSE @]
        /\ ews' = [ews EXCEPT ![s] = Close(@)]
        /\ hst' = [hst EXCEPT ![s] = "done"]
        /\ UNCHANGED <<waitWS, hslot>>
     \/ /\ Found(slots, n)
        /\ waitWS' = MapSet(waitWS, Serial(s), s)
        /\ hslot' = [hslot EXCEPT ![s] = slots[n]]
        /\ hst' = [hst EXCEPT ![s] = "blocked"]
        /\ UNCHANGED <<erep, ews>>
  /\ UNCHANGED <<eto, faults, slots, conns, rg, sg, sgEvt, timeoutCounter, channels,
                 sdh, sdhK, rc, rcK, nacc, est, lconn, exit>>

\* server-data,<ser>: s.waitWS.Get(ser); an unknown serial is answered
\* res,FAIL-1043 and closed.
ServerDataLookup(j) ==
  /\ sdh[j] = "recv"
  /\ \/ /\ ~Found(waitWS, Serial(j))
        /\ xrep' = [xrep EXCEPT ![j] = IF xws[j] = "open" THEN "FAIL" ELSE @]
        /\ xws' = [xws EXCEPT ![j] = Close(@)]
        /\ sdh' = [sdh EXCEPT ![j] = "done"]
        /\ UNCHANGED sdhK
     \/ /\ Found(waitWS, Serial(j))
        /\ sdh' = [sdh EXCEPT ![j] = "got"]
        /\ sdhK' = [sdhK EXCEPT ![j] = waitWS[Serial(j)]]
        /\ UNCHANGED <<xrep, xws>>
  /\ UNCHANGED <<faults, relay, channels, hst, hslot, rc, rcK, entrance,
                 xa, inc, xj, xjOwner, tconn>>

\* Variant: s.waitWS.Remove(ser) left out of the successful pairing.
ServerDataPairKeepWaiting(j) ==
  LET k == sdhK[j] IN
  /\ sdh[j] = "got" /\ xws[j] = "open" /\ ews[k] = "open"
  /\ sdh' = [sdh EXCEPT ![j] = "done"]
  /\ xrep' = [xrep EXCEPT ![j] = "OK"]
  /\ erep' = [erep EXCEPT ![k] = "OK"]
  /\ conns' = MapSet(conns, Serial(j), <<j, k>>)
  /\ rc' = [rc EXCEPT ![j] = "run"]
  /\ rcK' = [rcK EXCEPT ![j] = k]
  /\ UNCHANGED <<eto, faults, slots, waitWS, rg, sg, sgEvt, timeoutCounter, channels, hst, hslot,
                 sdhK, nacc, est, lconn, ews, xa, inc, xj, xjOwner, tconn, xws>>

\* s.waitWS.Remove(ser); res,OK to the exit side, then to the entrance
\* side; a failed write closes both; otherwise the pair is stored in conns
\* and connCopy starts.
ServerDataPair(j) ==
  LET k == sdhK[j] IN
  /\ sdh[j] = "got"
  /\ waitWS' = MapRemove(waitWS, Serial(j))
  /\ sdh' = [sdh EXCEPT ![j] = "done"]
  /\ \/ /\ xws[j] = "closed"
        /\ ews' = [ews EXCEPT ![k] = Close(@)]
        /\ UNCHANGED <<conns, xws, xrep, erep, rc, rcK>>
     \/ /\ xws[j] = "open" /\ ews[k] # "open"
        /\ xrep' = [xrep EXCEPT ![j] = "OK"]
        /\ xws' = [xws EXCEPT ![j] = "closed"]
        /\ UNCHANGED <<conns, ews, erep, rc, rcK>>
     \/ /\ xws[j] = "open" /\ ews[k] = "open"
        /\ xrep' = [xrep EXCEPT ![j] = "OK"]
        /\ erep' = [erep EXCEPT ![k] = "OK"]
        /\ conns' = MapSet(conns, Serial(j), <<j, k>>)
        /\ rc' = [rc EXCEPT ![j] = "run"]
        /\ rcK' = [rcK EXCEPT ![j] = k]
        /\ UNCHANGED <<ews, xws>>
  /\ UNCHANGED <<eto, faults, slots, rg, sg, sgEvt, timeoutCounter, channels, hst, hslot, sdhK,
                 nacc, est, lconn, xa, inc, xj, xjOwner, tconn>>

\* Variant: the once.Do close that closes only the exit-side connection.
RelayCopyEndKeepEntrance(j) ==
  LET k == rcK[j] IN
  /\ rc[j] = "run"
  /\ xws[j] = "closed" \/ ews[k] = "closed"
  /\ xws' = [xws EXCEPT ![j] = Close(@)]
  /\ conns' = MapRemove(conns, Serial(j))
  /\ rc' = [rc EXCEPT ![j] = "done"]
  /\ UNCHANGED <<faults, slots, waitWS, rg, sg, sgEvt, timeoutCounter, channels,
                 hst, hslot, sdh, sdhK, rcK, entrance, xa, inc, xj, xjOwner, tconn, xrep>>

\* connCopy: the first of the two io.Copy loops to end runs the once.Do
\* close: both connections closed and s.conns.Remove(ser).  The second
\* loop's once.Do changes nothing.
RelayCopyEnd(j) ==
  LET k == rcK[j] IN
  /\ rc[j] = "run"
  /\ xws[j] = "closed" \/ ews[k] = "closed"
  /\ xws' = [xws EXCEPT ![j] = Close(@)]
  /\ ews' = [ews EXCEPT ![k] = Close(@)]
  /\ conns' = MapRemove(conns, Serial(j))
  /\ rc' = [rc EXCEPT ![j] = "done"]
  /\ UNCHANGED <<eto, faults, slots, waitWS, rg, sg, sgEvt, timeoutCounter, channels,
                 hst, hslot, sdh, sdhK, rcK, nacc, est, lconn, erep,
                 xa, inc, xj, xjOwner, tconn, xrep>>

-----------------------------------------------------------------------------
(* Exit agent: the CliServer.Serv loop and CliServer.connCopy.             *)

\* ReadMessage on the command channel, then the reply.  A read or write on
\* a closed channel breaks the loop and Serv returns.
ExitRecv(e) ==
  LET g == Cur(e)
      r == cmdReq[g]
  IN
  /\ xa[e] = "serve"
  /\ \/ /\ cmd[g] = "closed"
        /\ ExitProcessEnd(e)
        /\ UNCHANGED <<cmdReq, cmdRep, xjOwner>>
     \/ /\ cmd[g] = "open" /\ r # NoReq
        /\ cmdReq' = [cmdReq EXCEPT ![g] = NoReq]
        /\ \/ /\ r = HbReq                              \* heart-beat
              /\ cmdRep' = [cmdRep EXCEPT ![g] = "OK"]
              /\ UNCHANGED <<xa, xj, xjOwner, tconn>>
           \/ /\ r # HbReq /\ Target(r.s) = S5          \* res,OK, then ws_connect
              /\ cmdRep' = [cmdRep EXCEPT ![g] = "OK"]
              /\ xa' = [xa EXCEPT ![e] = "s5"]
              /\ xj' = [xj EXCEPT ![r.s] = "dialws"]
              /\ xjOwner' = [xjOwner EXCEPT ![r.s] = e]
              /\ UNCHANGED tconn
           \/ /\ r # HbReq /\ Target(r.s) \notin Reachable \cup {S5}
              /\ cmdRep' = [cmdRep EXCEPT ![g] = "FAIL"] \* net.Dial failed: FAIL-1044
              /\ UNCHANGED <<xa, xj, xjOwner, tconn>>
           \/ /\ r # HbReq /\ Target(r.s) \in Reachable
              /\ cmdRep' = [cmdRep EXCEPT ![g] = "OK"]
              /\ tconn' = [tconn EXCEPT ![r.s] = "open"]
              /\ xj' = [xj EXCEPT ![r.s] = "dialws"]     \* go s.connCopy(cr, ser_no)
              /\ xjOwner' = [xjOwner EXCEPT ![r.s] = e]
              /\ UNCHANGED xa
        /\ UNCHANGED <<cmd, xws>>
  /\ UNCHANGED <<faults, relay, handlers, entrance, inc, xrep>>

\* ws_connect(ws_addr, "server-data,<ser>"): the dial.  For a TCP target a
\* failed dial closes the target connection; for s5 the nil result is
\* dereferenced (ws.c.WriteMessage) and the process panics.
ExitDataDial(j) ==
  /\ xj[j] = "dialws" /\ xws[j] = "none"
  /\ \/ /\ xws' = [xws EXCEPT ![j] = "open"]
        /\ sdh' = [sdh EXCEPT ![j] = "recv"]
        /\ UNCHANGED <<xa, cmd, xj, tconn>>
     \/ /\ Target(j) # S5
        /\ tconn' = [tconn EXCEPT ![j] = Close(@)]
        /\ xj' = [xj EXCEPT ![j] = "done"]
        /\ UNCHANGED <<xa, cmd, xws, sdh>>
     \/ /\ Target(j) = S5
        /\ ExitProcessEnd(xjOwner[j])
        /\ UNCHANGED sdh
  /\ UNCHANGED <<faults, relay, cmdReq, cmdRep, hst, hslot, sdhK, rc, rcK, entrance,
                 inc, xjOwner, xrep>>

\* ws_connect's Req reply: res,OK starts the copy (s5: go s5.ServeConn(ws)
\* and the loop continues); anything else closes it and returns nil.
ExitDataReply(j) ==
  LET refused == xrep[j] = "FAIL" \/ (xrep[j] = "none" /\ xws[j] = "closed") IN
  /\ xj[j] = "dialws" /\ xws[j] # "none"
  /\ \/ /\ xrep[j] = "OK"
        /\ xj' = [xj EXCEPT ![j] = "copy"]
        /\ IF Target(j) = S5
           THEN /\ tconn' = [tconn EXCEPT ![j] = "open"]
                /\ xa' = [xa EXCEPT ![xjOwner[j]] = "serve"]
           ELSE UNCHANGED <<tconn, xa>>
        /\ UNCHANGED <<cmd, xws>>
     \/ /\ refused /\ Target(j) # S5
        /\ xws' = [xws EXCEPT ![j] = Close(@)]
        /\ tconn' = [tconn EXCEPT ![j] = Close(@)]
        /\ xj' = [xj EXCEPT ![j] = "done"]
        /\ UNCHANGED <<xa, cmd>>
     \/ /\ refused /\ Target(j) = S5
        /\ ExitProcessEnd(xjOwner[j])
  /\ UNCHANGED <<faults, relay, cmdReq, cmdRep, handlers, entrance, inc, xjOwner, xrep>>

\* The two io.Copy loops of connCopy (or of the socks5 session): the first
\* to end closes both connections once.
ExitCopyEnd(j) ==
  /\ xj[j] = "copy"
  /\ tconn[j] = "closed" \/ xws[j] = "closed"
  /\ tconn' = [tconn EXCEPT ![j] = Close(@)]
  /\ xws' = [xws EXCEPT ![j] = Close(@)]
  /\ xj' = [xj EXCEPT ![j] = "done"]
  /\ UNCHANGED <<faults, relay, channels, handlers, entrance, xa, inc, xjOwner, xrep>>

-----------------------------------------------------------------------------
(* Entrance agent: CliClient.Serv and CliClient.connCopy.                  *)

\* listener.Accept(); s.ser_no_seed += 1; go s.connCopy(conn, ser_no).
EntranceAccept(c) ==
  LET s == <<c, nacc[c] + 1>> IN
  /\ nacc[c] < MaxConn
  /\ nacc' = [nacc EXCEPT ![c] = @ + 1]
  /\ lconn' = [lconn EXCEPT ![s] = "open"]
  /\ est' = [est EXCEPT ![s] = "dial"]
  /\ UNCHANGED <<eto, faults, relay, channels, handlers, ews, erep, exit>>

\* ws_connect(ws_addr, "client-data,<slot>,<ser>,<target>"): the dial and
\* the request; a failed dial closes the local connection.
EntranceDial(s) ==
  /\ est[s] = "dial"
  /\ \/ /\ ews' = [ews EXCEPT ![s] = "open"]
        /\ hst' = [hst EXCEPT ![s] = "recv"]
        /\ est' = [est EXCEPT ![s] = "req"]
        /\ UNCHANGED lconn
     \/ /\ lconn' = [lconn EXCEPT ![s] = Close(@)]
        /\ est' = [est EXCEPT ![s] = "done"]
        /\ UNCHANGED <<ews, hst>>
  /\ UNCHANGED <<eto, faults, relay, channels, hslot, sdh, sdhK, rc, rcK, nacc, erep, exit>>

\* The reply read by Req: res,OK starts the copy; anything else, or a read
\* error, closes the websocket and the local connection.
EntranceReply(s) ==
  /\ est[s] = "req"
  /\ \/ /\ erep[s] = "OK"
        /\ est' = [est EXCEPT ![s] = "copy"]
        /\ UNCHANGED <<ews, lconn>>
     \/ /\ erep[s] = "FAIL" \/ (erep[s] = "none" /\ ews[s] = "closed")
        /\ ews' = [ews EXCEPT ![s] = Close(@)]
        /\ lconn' = [lconn EXCEPT ![s] = Close(@)]
        /\ est' = [est EXCEPT ![s] = "done"]
  /\ UNCHANGED <<eto, faults, relay, channels, handlers, nacc, erep, exit>>

\* The two io.Copy loops: the first to end closes both once.
EntranceCopyEnd(s) ==
  /\ est[s] = "copy"
  /\ lconn[s] = "closed" \/ ews[s] = "closed"
  /\ lconn' = [lconn EXCEPT ![s] = Close(@)]
  /\ ews' = [ews EXCEPT ![s] = Close(@)]
  /\ est' = [est EXCEPT ![s] = "done"]
  /\ UNCHANGED <<eto, faults, relay, channels, handlers, nacc, erep, exit>>

-----------------------------------------------------------------------------
(* Environment: peers closing, links failing, the exit process killed.    *)

LocalClose(s) ==
  /\ lconn[s] = "open"
  /\ lconn' = [lconn EXCEPT ![s] = "closed"]
  /\ UNCHANGED <<eto, faults, relay, channels, handlers, nacc, est, ews, erep, exit>>

TargetClose(j) ==
  /\ tconn[j] = "open"
  /\ tconn' = [tconn EXCEPT ![j] = "closed"]
  /\ UNCHANGED <<faults, relay, channels, handlers, entrance, xa, inc, xj, xjOwner, xws, xrep>>

EntranceLinkFail(s) ==
  /\ faults < MaxFaults
  /\ faults' = faults + 1
  /\ ews[s] = "open"
  /\ ews' = [ews EXCEPT ![s] = "closed"]
  /\ UNCHANGED <<eto, relay, channels, handlers, nacc, est, lconn, erep, exit>>

ExitLinkFail(j) ==
  /\ faults < MaxFaults
  /\ faults' = faults + 1
  /\ xws[j] = "open"
  /\ xws' = [xws EXCEPT ![j] = "closed"]
  /\ UNCHANGED <<relay, channels, handlers, entrance, xa, inc, xj, xjOwner, tconn, xrep>>

CommandLinkFail(g) ==
  /\ faults < MaxFaults
  /\ faults' = faults + 1
  /\ cmd[g] = "open"
  /\ cmd' = [cmd EXCEPT ![g] = "closed"]
  /\ UNCHANGED <<relay, cmdReq, cmdRep, handlers, entrance, exit>>

ExitCrash(e) ==
  /\ faults < MaxFaults
  /\ faults' = faults + 1
  /\ xa[e] \in {"reg", "serve", "s5"}
  /\ ExitProcessEnd(e)
  /\ UNCHANGED <<relay, cmdReq, cmdRep, handlers, entrance, inc, xjOwner, xrep>>

-----------------------------------------------------------------------------

Environment ==
  \/ \E s \in Sessions : EntranceLinkFail(s) \/ ExitLinkFail(s)
  \/ \E g \in Incs : CommandLinkFail(g)
  \/ \E e \in Exits : ExitCrash(e)

Program ==
  \/ \E e \in Exits : ExitConnect(e) \/ ExitRegistered(e) \/ ExitRestart(e)
                      \/ ExitRecv(e)
  \/ \E g \in Incs : RegisterLookup(g) \/ RegisterCommit(g) \/ SlotConnReply(g)
                     \/ SlotTimer(g) \/ SlotHbReply(g)
  \/ \E g \in Incs, s \in Sessions : SlotRecv(g, s)
  \/ \E s \in Sessions : ClientDataRoute(s) \/ ServerDataLookup(s)
                         \/ ServerDataPair(s) \/ RelayCopyEnd(s)
                         \/ ExitDataDial(s) \/ ExitDataReply(s) \/ ExitCopyEnd(s)
                         \/ EntranceDial(s) \/ EntranceReply(s) \/ EntranceCopyEnd(s)
  \/ \E c \in Entrances : EntranceAccept(c)
  \/ \E s \in Sessions : LocalClose(s) \/ TargetClose(s)

Next == Program \/ Environment

\* Every goroutine that can run is eventually scheduled (weak fairness);
\* time.After fires once the select has waited ten seconds (weak fairness
\* of SlotTimer).
\* The slot goroutine's select picks among ready cases at random, so a
\* blocked sender that is ready whenever the goroutine returns to select
\* is eventually received (strong fairness).  Peers, links, crashes and
\* accepts are the environment's and get no fairness.

Fairness ==
  /\ \A e \in Exits :
       /\ WF_vars(ExitRegistered(e))
       /\ WF_vars(ExitRecv(e))
  /\ \A g \in Incs :
       /\ WF_vars(RegisterLookup(g))
       /\ WF_vars(RegisterCommit(g))
       /\ WF_vars(SlotConnReply(g))
       /\ WF_vars(SlotHbReply(g))
       /\ WF_vars(SlotTimer(g))
       /\ \A s \in Sessions : SF_vars(SlotRecv(g, s))
  /\ \A s \in Sessions :
       /\ WF_vars(ClientDataRoute(s))
       /\ WF_vars(ServerDataLookup(s))
       /\ WF_vars(ServerDataPair(s))
       /\ WF_vars(RelayCopyEnd(s))
       /\ WF_vars(ExitDataDial(s))
       /\ WF_vars(ExitDataReply(s))
       /\ WF_vars(ExitCopyEnd(s))
       /\ WF_vars(EntranceDial(s))
       /\ WF_vars(EntranceReply(s))
       /\ WF_vars(EntranceCopyEnd(s))

Spec == Init /\ [][Next]_vars /\ Fairness

-----------------------------------------------------------------------------
(* Properties.                                                             *)

\* Pairing never cross-wires tunnels: the relay joins the exit-side data
\* channel dialled for a session's conn event (to that session's target)
\* with that same session's client-data channel, never another's.  It
\* rests on serials (slot name and ser_no_seed) being unique among the
\* requests in flight, through CliClient.Serv, the waitWS map and the
\* server-data lookup.
NoCrossWiring ==
  \A j \in Sessions : rc[j] # "none" => rcK[j] = j

\* A serial is never at the same time waiting in waitWS and paired in
\* conns: the server-data branch removes the waiting entry before the
\* pair is stored (spec, section 3, invariant b).
PendingNotPaired ==
  \A x \in DOMAIN waitWS : x \notin DOMAIN conns

\* At most one relay goroutine serves a slot name: a second registration
\* of a name (a restarted exit process whose old command channel the relay
\* has not yet given up, or a second exit with the same -slot) is refused
\* by the server-server branch while the first is live.
RegistrationExclusive ==
  \A g1, g2 \in Incs :
    g1 # g2 /\ SlotOf(g1) = SlotOf(g2) => ~(sg[g1] \in Live /\ sg[g2] \in Live)

\* No client-data handler stays blocked on slot.ch of a slot goroutine that
\* has ended: the spec (section 4.3) says a slot that vanishes after the
\* lookup has its pending handshake cleaned up and the entrance closed.
NoSendToDeadSlot ==
  \A s \in Sessions : hst[s] = "blocked" => sg[hslot[s]] # "exited"

\* Closing propagates through a tunnel: once the relay has paired a
\* session, the end of any of its four connections (local, client-data,
\* server-data, target) eventually closes all four and ends the copy loops
\* of the entrance, the relay and the exit (the once.Do closes of the three
\* connCopy functions; spec, section 3, invariant c).
TunnelDown(j) ==
  LET k == rcK[j] IN
  /\ rc[j] # "none"
  /\ lconn[k] # "open" /\ ews[k] # "open" /\ xws[j] # "open" /\ tconn[j] # "open"
  /\ est[k] = "done" /\ xj[j] = "done" /\ rc[j] = "done"

AnyEndClosed(j) ==
  LET k == rcK[j] IN
  "closed" \in {lconn[k], ews[k], xws[j], tconn[j]}

ClosePropagation ==
  \A j \in Sessions : (rc[j] # "none" /\ AnyEndClosed(j)) ~> TunnelDown(j)

\* A dead command channel is detected: once a command channel is closed
\* (exit crashed, link failed), the slot goroutine's next Req fails and the
\* slot name stops routing to it, so later client-data requests are
\* refused rather than forwarded into a dead channel (spec, section 8).
DeadExitDetected ==
  \A g \in Incs :
    cmd[g] = "closed" ~> ~(Found(slots, SlotOf(g)) /\ slots[SlotOf(g)] = g)

\* A local connection whose tunnel cannot be established is closed by the
\* entrance (spec, section 7): a client-data request the entrance is waiting
\* on in Req is eventually answered, paired or closed, whatever happens to
\* the exit side's conn event, its target dial or its server-data dial.
EntranceAnswered ==
  \A s \in Sessions : est[s] = "req" ~> est[s] \in {"copy", "done"}

\* A serving exit process ends only because its command channel is gone
\* (or it is killed): a failed data channel of one conn event, which the
\* code answers with res,FAIL-1044 in the TCP path, does not take the
\* process and every other tunnel of the slot down with it.
ExitStopsOnlyOnChannelLoss ==
  [][\A e \in Exits :
       (xa[e] \in {"serve", "s5"} /\ xa'[e] = "stopped" /\ faults' = faults)
         => cmd[Cur(e)] = "closed"]_vars
====
