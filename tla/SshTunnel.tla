----------------------------- MODULE SshTunnel -----------------------------
(***************************************************************************)
(* fkme ws -addr URL -port "L;>;R" -port "L;<;R" ...: several port         *)
(* forwardings over one ssh connection (src/ws/ssh_tunnel.go, WSTunnel_M   *)
(* and tunnel.bindTunnel).                                                 *)
(*                                                                         *)
(* bindTunnel loops: dial the ssh server, start one bind goroutine per     *)
(* port but the first, run the first port's bind inline, and when that     *)
(* returns close the client and wait retryInterval (300 s) before dialling *)
(* again.  A bind listens ('>' on the local host, '<' on the server        *)
(* through the ssh connection), accepts until its context is cancelled,   *)
(* and runs dialTunnel per connection.  A bind's context is cancelled when *)
(* the ssh client's Wait returns or the process gets SIGINT.               *)
(*                                                                         *)
(* keepAliveMonitor returns at once: WSTunnel_M leaves keepAlive zero.     *)
(* The server keeps a '<' port of a connection it has not seen close until *)
(* it notices the peer is gone.                                            *)
(***************************************************************************)
EXTENDS Naturals, FiniteSets

CONSTANTS
    Ports,      \* the -port items
    First,      \* ports[0], the one bound inline
    Mode,       \* Ports -> {">", "<"}
    Slots,      \* connections that may be open at once
    MaxFaults   \* bound on dial failures and broken ssh connections

ASSUME First \in Ports /\ Mode \in [Ports -> {">", "<"}]

VARIABLES
    tp,         \* bindTunnel: "dial", "run" (first bind inline), "wait", "done"
    cl,         \* the ssh client: "none", "up", "closed"
    bd,         \* port -> its bind: "none", "listen", "accept", "done"
    cn,         \* slot -> a dialTunnel: "none", "dial", "copy", "done"
    cport,      \* slot -> the port it was accepted on
    hold,       \* port -> the server's listener for it: "none", "live", "stale"
    sig,        \* SIGINT received: the root context is cancelled
    faults

tvars == <<tp, cl, bd, cn, cport, hold, sig, faults>>

TypeOK ==
    /\ tp \in {"dial", "run", "wait", "done"}
    /\ cl \in {"none", "up", "closed"}
    /\ bd \in [Ports -> {"none", "listen", "accept", "done"}]
    /\ cn \in [Slots -> {"none", "dial", "copy", "done"}]
    /\ cport \in [Slots -> Ports]
    /\ hold \in [Ports -> {"none", "live", "stale"}]
    /\ sig \in BOOLEAN
    /\ faults \in 0..MaxFaults

\* WSTunnel_M has parsed the ports and started bindTunnel.
Init ==
    /\ tp = "dial"
    /\ cl = "none"
    /\ bd = [p \in Ports |-> "none"]
    /\ cn = [k \in Slots |-> "none"]
    /\ cport \in [Slots -> Ports]
    /\ hold = [p \in Ports |-> "none"]
    /\ sig = FALSE
    /\ faults = 0

\* bindCtx is done: the goroutine blocked in cl.Wait() has called cancel,
\* or the parent context was cancelled by the signal handler.
Cancelled == sig \/ cl = "closed"

\* Every goroutine of the session has returned.
Settled ==
    /\ \A p \in Ports : bd[p] \in {"none", "done"}
    /\ \A k \in Slots : cn[k] \in {"none", "done"}

(* The inner func of bindTunnel: ssh over the websocket (or ssh.Dial).  A *)
(* failure returns at once; success starts keepAliveMonitor (which       *)
(* returns: no keep-alive is configured) and a bind for every port.       *)
Dial ==
    /\ tp = "dial"
    /\ \/ /\ cl' = "up"
          /\ bd' = [p \in Ports |-> "listen"]
          /\ tp' = "run"
          /\ UNCHANGED faults
       \/ /\ faults < MaxFaults
          /\ faults' = faults + 1
          /\ tp' = "wait"
          /\ UNCHANGED <<cl, bd>>
    /\ UNCHANGED <<cn, cport, hold, sig>>

(* _port.bind: net.Listen for '>', cl.Listen (a tcpip-forward request) for *)
(* '<'.  The server refuses a port it still holds for an earlier          *)
(* connection, and every request on a closed client fails.  A bind error *)
(* returns.                                                               *)
Bind(p) ==
    /\ bd[p] = "listen"
    /\ IF Mode[p] = ">"
         THEN bd' = [bd EXCEPT ![p] = "accept"] /\ UNCHANGED hold
         ELSE IF cl = "up" /\ hold[p] = "none"
         THEN /\ bd' = [bd EXCEPT ![p] = "accept"]
              /\ hold' = [hold EXCEPT ![p] = "live"]
         ELSE bd' = [bd EXCEPT ![p] = "done"] /\ UNCHANGED hold
    /\ UNCHANGED <<tp, cl, cn, cport, sig, faults>>

\* ln.Accept returns a connection; dialTunnel starts on it.
Accept(p, k) ==
    /\ bd[p] = "accept"
    /\ ~Cancelled
    /\ cn[k] \in {"none", "done"}
    /\ cn' = [cn EXCEPT ![k] = "dial"]
    /\ cport' = [cport EXCEPT ![k] = p]
    /\ UNCHANGED <<tp, cl, bd, hold, sig, faults>>

BindCancel(p) ==
    /\ bd[p] = "accept"
    /\ Cancelled
    /\ bd' = [bd EXCEPT ![p] = "done"]
    /\ UNCHANGED <<tp, cl, cn, cport, hold, sig, faults>>

(* dialTunnel's outbound dial: client.Dial through the ssh connection for *)
(* '>', net.Dial on this host for '<'.  The target may refuse; a closed  *)
(* client fails.  On failure the inbound connection is closed by the     *)
(* deferred cancel.                                                       *)
ConnDial(k) ==
    /\ cn[k] = "dial"
    /\ IF Mode[cport[k]] = ">" /\ cl # "up"
         THEN cn' = [cn EXCEPT ![k] = "done"]
         ELSE \E r \in {"copy", "done"} : cn' = [cn EXCEPT ![k] = r]
    /\ UNCHANGED <<tp, cl, bd, cport, hold, sig, faults>>

\* The connection's context is done (a child of bindCtx): both sockets are
\* closed, both io.Copy return, and dialTunnel returns.
ConnCancel(k) ==
    /\ cn[k] = "copy"
    /\ Cancelled
    /\ cn' = [cn EXCEPT ![k] = "done"]
    /\ UNCHANGED <<tp, cl, bd, cport, hold, sig, faults>>

SessionEnd ==
    /\ tp = "run"
    /\ bd[First] = "done"
    /\ cl' = "closed"
    /\ hold' = [p \in Ports |-> IF hold[p] = "live" /\ cl = "up" THEN "none" ELSE hold[p]]
    /\ tp' = "wait"
    /\ UNCHANGED <<bd, cn, cport, sig, faults>>

(* time.After(300 s) fires: bindTunnel dials again.  Five minutes is far  *)
(* longer than the cancelled goroutines take to return, so the timer is   *)
(* taken to fire after they have.                                         *)
WaitRetry ==
    /\ tp = "wait"
    /\ ~sig
    /\ Settled
    /\ tp' = "dial"
    /\ cl' = "none"
    /\ bd' = [p \in Ports |-> "none"]
    /\ UNCHANGED <<cn, cport, hold, sig, faults>>

\* ctx.Done() in the select: bindTunnel returns and wg.Wait() in WSTunnel_M
\* can finish.
WaitDone ==
    /\ tp = "wait"
    /\ sig
    /\ tp' = "done"
    /\ UNCHANGED <<cl, bd, cn, cport, hold, sig, faults>>

-----------------------------------------------------------------------------
(* The environment: the user, the peers, the network and the server.      *)

\* SIGINT or SIGTERM: the signal handler cancels the root context.
Signal ==
    /\ ~sig
    /\ sig' = TRUE
    /\ UNCHANGED <<tp, cl, bd, cn, cport, hold, faults>>

\* A forwarded connection's peer hangs up; the copies end.
ConnClose(k) ==
    /\ cn[k] = "copy"
    /\ cn' = [cn EXCEPT ![k] = "done"]
    /\ UNCHANGED <<tp, cl, bd, cport, hold, sig, faults>>

\* The ssh connection breaks: cl.Wait() returns, and the server has not
\* seen a close, so it keeps the '<' listeners of this connection.
LinkBreak ==
    /\ cl = "up"
    /\ faults < MaxFaults
    /\ faults' = faults + 1
    /\ cl' = "closed"
    /\ hold' = [p \in Ports |-> IF hold[p] = "live" THEN "stale" ELSE hold[p]]
    /\ UNCHANGED <<tp, bd, cn, cport, sig>>

\* The server notices a dead peer (sshd's TCP keep-alive) and frees its port.
ServerReap(p) ==
    /\ hold[p] = "stale"
    /\ hold' = [hold EXCEPT ![p] = "none"]
    /\ UNCHANGED <<tp, cl, bd, cn, cport, sig, faults>>

Next ==
    \/ Dial
    \/ \E p \in Ports : Bind(p)
    \/ \E p \in Ports, k \in Slots : Accept(p, k)
    \/ \E p \in Ports : BindCancel(p)
    \/ \E k \in Slots : ConnDial(k)
    \/ \E k \in Slots : ConnCancel(k)
    \/ SessionEnd
    \/ WaitRetry
    \/ WaitDone
    \/ Signal
    \/ \E k \in Slots : ConnClose(k)
    \/ LinkBreak
    \/ \E p \in Ports : ServerReap(p)

(* Goroutines that can run do run.  The server eventually notices a dead  *)
(* peer: sshd's TCPKeepAlive is on by default.  Clients connecting, peers *)
(* hanging up, the user's signal and link failures get no fairness.       *)
Fairness ==
    /\ WF_tvars(Dial)
    /\ WF_tvars(\E p \in Ports : Bind(p))
    /\ WF_tvars(\E p \in Ports : BindCancel(p))
    /\ WF_tvars(\E k \in Slots : ConnDial(k))
    /\ WF_tvars(\E k \in Slots : ConnCancel(k))
    /\ WF_tvars(SessionEnd)
    /\ WF_tvars(WaitRetry)
    /\ WF_tvars(WaitDone)
    /\ WF_tvars(\E p \in Ports : ServerReap(p))

Spec == Init /\ [][Next]_tvars /\ Fairness

-----------------------------------------------------------------------------
\* Every port is forwarded: the session is up and every bind is accepting.
Served == tp = "run" /\ cl = "up" /\ \A p \in Ports : bd[p] = "accept"

=============================================================================
