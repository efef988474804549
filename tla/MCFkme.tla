------------------------------- MODULE MCFkme -------------------------------
(***************************************************************************)
(* Instantiates Fkme for TLC.  scp and watch: files f1, f2 in the synced  *)
(* root and f3 in a subdirectory d1, pool workers w1, w2.  ws -port: ports *)
(* p1 (the first, reverse) and p2 (forward), connection slots k1, k2.     *)
(* cron: daemon a1, crontab app j1, once-job files o1, o2, an init       *)
(* archive of directory e1, file e2 and symlink e3.  pm: ports m1,       *)
(* m2 and connection slot s1.  ws -p: websocket request q1.  wsmid: exit *)
(* x1 and entrance c1 of slot n1, targets t1 (listening) and t2 (not).   *)
(***************************************************************************)
EXTENDS Fkme, TLC

CONSTANTS f1, f2, f3, d1, root, w1, w2, p1, p2, k1, k2, a1, j1, o1, o2,
          m1, m2, s1, q1, x1, c1, n1, t1, t2, e1, e2, e3

\* fkme with every modelled command, ws with -p, with -port items and with
\* neither, wsmid started with -m ss, cs and cc and with only ss and cs,
\* and a command that is not modelled.
AllCommands ==
    {[name |-> n, p |-> 0, ports |-> 0, modes |-> {}] :
        n \in {"scp", "watch", "cron", "pm", "w"}}
    \cup {[name |-> "ws", p |-> 8899, ports |-> 0, modes |-> {}],
          [name |-> "ws", p |-> 0, ports |-> 2, modes |-> {}],
          [name |-> "ws", p |-> 0, ports |-> 0, modes |-> {}],
          [name |-> "wsmid", p |-> 0, ports |-> 0, modes |-> {"ss", "cs", "cc"}],
          [name |-> "wsmid", p |-> 0, ports |-> 0,
           modes |-> {"server-server", "client-server"}]}

\* fkme ws -addr URL -port ... -port ...
TunnelCommand == {[name |-> "ws", p |-> 0, ports |-> 2, modes |-> {}]}

\* wsmid: one exit and one entrance on slot n1; the entrance's -to is a
\* reachable TCP target.
RelayExit     == x1 :> n1
RelayEntrance == c1 :> n1
RelayTarget   == c1 :> {t1}

\* init.tgz holding a directory, a regular file and a symlink, in that order.
InitArchive == <<[kind |-> "dir", name |-> e1], [kind |-> "file", name |-> e2],
                 [kind |-> "link", name |-> e3]>>

TwoRootOneSub == (f1 :> root) @@ (f2 :> root) @@ (f3 :> d1)

\* Every version has its own size.
DistinctSizes == [v \in 1..MaxVer |-> v]

\* The empty write, a one-byte write, and longer writes whose bytes differ,
\* so that a shifted cut is visible.
StreamChunks == {<<>>, <<0>>, <<0, 1>>, <<1, 0, 0>>}

\* -port "...;<;..." first, then "...;>;...".
ReverseFirst == (p1 :> "<") @@ (p2 :> ">")

\* -port "...;>;..." first, then "...;<;...".
ReverseSecond == (p1 :> ">") @@ (p2 :> "<")
====
