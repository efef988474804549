------------------------------- MODULE WsProxy -------------------------------
(***************************************************************************)
(* fkme ws -p PORT -addr DST: the websocket server of src/ws/ws.go        *)
(* (serveServer and connCopy).  Each request on <prefix>/ws is upgraded to *)
(* a websocket; with -addr "" or "s5" it is served as a socks5 connection *)
(* (s5.ServeConn on the WS adapter), otherwise DST is dialled and the two *)
(* are joined by connCopy: one goroutine copies websocket -> target, the  *)
(* other target -> websocket, and the first to finish runs close() once,  *)
(* closing both.                                                           *)
(*                                                                         *)
(* A socket is abstracted to its state: open, at EOF (the peer hung up)   *)
(* or closed by this process.  The ratelimit of 20 upgrades a second only *)
(* delays a handler and is left out.                                      *)
(***************************************************************************)
EXTENDS Naturals

CONSTANT WsConns    \* websocket requests that may arrive

VARIABLES
    s5mode,     \* -addr is "" or "s5": serve socks5 instead of dialling
    hd,         \* request -> its handler: "none", "dial", "s5", "copy", "done"
    wsk,        \* request -> the websocket: "none", "open", "eof", "closed"
    tgt,        \* request -> the target connection cr: "none", "open", "eof", "closed"
    cpa,        \* request -> io.Copy(conn, ws) running
    cpb,        \* request -> io.Copy(ws, conn) running
    closes      \* request -> times close() has run

wvars == <<s5mode, hd, wsk, tgt, cpa, cpb, closes>>

Sock == {"none", "open", "eof", "closed"}

TypeOK ==
    /\ s5mode \in BOOLEAN
    /\ hd \in [WsConns -> {"none", "dial", "s5", "copy", "done"}]
    /\ wsk \in [WsConns -> Sock]
    /\ tgt \in [WsConns -> Sock]
    /\ cpa \in [WsConns -> BOOLEAN]
    /\ cpb \in [WsConns -> BOOLEAN]
    /\ closes \in [WsConns -> 0..1]

\* serveServer has started; socks5.New does not fail on an empty config.
Init ==
    /\ s5mode \in BOOLEAN
    /\ hd = [k \in WsConns |-> "none"]
    /\ wsk = [k \in WsConns |-> "none"]
    /\ tgt = [k \in WsConns |-> "none"]
    /\ cpa = [k \in WsConns |-> FALSE]
    /\ cpb = [k \in WsConns |-> FALSE]
    /\ closes = [k \in WsConns |-> 0]

(* The /ws handler: upgrader.Upgrade fails (the handler returns) or gives *)
(* a websocket, which goes to socks5 or to the dial.                      *)
Upgrade(k) ==
    /\ hd[k] = "none"
    /\ \/ hd' = [hd EXCEPT ![k] = "done"] /\ UNCHANGED wsk
       \/ /\ hd' = [hd EXCEPT ![k] = IF s5mode THEN "s5" ELSE "dial"]
          /\ wsk' = [wsk EXCEPT ![k] = "open"]
    /\ UNCHANGED <<s5mode, tgt, cpa, cpb, closes>>

(* net.Dial(dst_addr): a failure closes the websocket and returns; success *)
(* calls connCopy, which starts both copies, and the handler returns.     *)
Dial(k) ==
    /\ hd[k] = "dial"
    /\ \/ /\ wsk' = [wsk EXCEPT ![k] = "closed"]
          /\ hd' = [hd EXCEPT ![k] = "done"]
          /\ UNCHANGED <<tgt, cpa, cpb>>
       \/ /\ tgt' = [tgt EXCEPT ![k] = "open"]
          /\ cpa' = [cpa EXCEPT ![k] = TRUE]
          /\ cpb' = [cpb EXCEPT ![k] = TRUE]
          /\ hd' = [hd EXCEPT ![k] = "copy"]
          /\ UNCHANGED wsk
    /\ UNCHANGED <<s5mode, closes>>

\* s5.ServeConn returns (the socks5 session is over, for whatever reason)
\* and its deferred conn.Close closes the websocket.
S5End(k) ==
    /\ hd[k] = "s5"
    /\ wsk' = [wsk EXCEPT ![k] = "closed"]
    /\ hd' = [hd EXCEPT ![k] = "done"]
    /\ UNCHANGED <<s5mode, tgt, cpa, cpb, closes>>

\* Mutant: close() closes the target but not the websocket.
CloseOnceConnOnly(k) ==
    IF closes[k] = 0
      THEN /\ tgt' = [tgt EXCEPT ![k] = "closed"]
           /\ closes' = [closes EXCEPT ![k] = 1]
           /\ UNCHANGED wsk
      ELSE UNCHANGED <<tgt, wsk, closes>>

\* close() of connCopy: conn.Close(), w.Close(), _add(-1); once.Do runs it
\* for the first goroutine that finishes only.
CloseOnce(k) ==
    IF closes[k] = 0
      THEN /\ tgt' = [tgt EXCEPT ![k] = "closed"]
           /\ wsk' = [wsk EXCEPT ![k] = "closed"]
           /\ closes' = [closes EXCEPT ![k] = 1]
      ELSE UNCHANGED <<tgt, wsk, closes>>

(* io.Copy(conn, ws) returns when reading the websocket fails: the peer   *)
(* closed it or close() did.  A write to a target that hung up fails only *)
(* when data comes, so that alone does not end it.                        *)
CopyAEnd(k) ==
    /\ cpa[k]
    /\ wsk[k] # "open"
    /\ cpa' = [cpa EXCEPT ![k] = FALSE]
    /\ CloseOnce(k)
    /\ UNCHANGED <<s5mode, hd, cpb>>

\* io.Copy(ws, conn) returns when reading the target fails.
CopyBEnd(k) ==
    /\ cpb[k]
    /\ tgt[k] # "open"
    /\ cpb' = [cpb EXCEPT ![k] = FALSE]
    /\ CloseOnce(k)
    /\ UNCHANGED <<s5mode, hd, cpa>>

-----------------------------------------------------------------------------
\* The websocket client hangs up.
PeerClose(k) ==
    /\ wsk[k] = "open"
    /\ wsk' = [wsk EXCEPT ![k] = "eof"]
    /\ UNCHANGED <<s5mode, hd, tgt, cpa, cpb, closes>>

\* The target hangs up.
TargetClose(k) ==
    /\ tgt[k] = "open"
    /\ tgt' = [tgt EXCEPT ![k] = "eof"]
    /\ UNCHANGED <<s5mode, hd, wsk, cpa, cpb, closes>>

Next ==
    \/ \E k \in WsConns : Upgrade(k)
    \/ \E k \in WsConns : Dial(k)
    \/ \E k \in WsConns : S5End(k)
    \/ \E k \in WsConns : CopyAEnd(k)
    \/ \E k \in WsConns : CopyBEnd(k)
    \/ \E k \in WsConns : PeerClose(k)
    \/ \E k \in WsConns : TargetClose(k)

\* The server's goroutines run when they can; clients, targets and the
\* socks5 sessions get no fairness.
Fairness ==
    /\ WF_wvars(\E k \in WsConns : Dial(k))
    /\ WF_wvars(\E k \in WsConns : CopyAEnd(k))
    /\ WF_wvars(\E k \in WsConns : CopyBEnd(k))

Spec == Init /\ [][Next]_wvars /\ Fairness

-----------------------------------------------------------------------------
(* When either end of a joined pair hangs up, connCopy closes both the    *)
(* websocket and the target, and both copy goroutines return: the first   *)
(* to finish runs close(), whose w.Close or conn.Close ends the other's   *)
(* read.                                                                   *)
ProxyCloseBoth ==
    \A k \in WsConns :
        (hd[k] = "copy" /\ (wsk[k] = "eof" \/ tgt[k] = "eof"))
            ~> (wsk[k] = "closed" /\ tgt[k] = "closed" /\ ~cpa[k] /\ ~cpb[k])
=============================================================================
