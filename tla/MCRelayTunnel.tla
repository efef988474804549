--------------------------- MODULE MCRelayTunnel ---------------------------
(***************************************************************************)
(* Instantiates RelayTunnel for TLC.  x1, x2 are exit agents, c1, c2       *)
(* entrance agents, n1, n2 slot names, t1 a reachable target, t2 a target  *)
(* nothing listens on, s5 the socks5 target; all are model values given   *)
(* in the .cfg files.                                                      *)
(***************************************************************************)
EXTENDS RelayTunnel

CONSTANTS x1, x2, c1, c2, n1, n2, t1, t2

\* One exit per slot name, one entrance per slot: the deployment of the
\* usage notes (fkme wsmid -m cs -slot dd / -m cc -slot dd).
OneExit      == x1 :> n1
OneEntrance  == c1 :> n1
\* Two exit processes started with the same -slot.
TwoExitsSameSlot == (x1 :> n1) @@ (x2 :> n1)
\* Two entrance processes started with the same -slot.
TwoEntrancesSameSlot == (c1 :> n1) @@ (c2 :> n1)

\* The -to an entrance is started with: a reachable TCP target, a target
\* nothing listens on, or s5 (socks5 served by the exit).
AnyTarget   == c1 :> {t1, t2, S5}
TcpTarget   == c1 :> {t1}
SocksTarget == c1 :> {S5}
BothTcp     == (c1 :> {t1}) @@ (c2 :> {t1})
====
