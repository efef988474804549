------------------------------- MODULE PortMap -------------------------------
(***************************************************************************)
(* fkme pm -b "listen;host:port" ...: the port mapper of src/util/pm.go.   *)
(*                                                                         *)
(* PM calls bindOp for each -b item, which starts a Listen goroutine per  *)
(* new port, then sleeps forever (Serv.Run).  Listen exits the whole      *)
(* process when net.Listen fails; otherwise each accepted connection gets *)
(* a goroutine that dials the target up to ten times (5 s apart), closes  *)
(* the connection if all fail, and else starts Trans(conn, conn1) and     *)
(* Trans(conn1, conn).  Trans copies until a read or write fails and then *)
(* closes only its destination (defer conn2.Close()).                     *)
(*                                                                         *)
(* A socket is abstracted to its state: open, at EOF (the peer hung up)   *)
(* or closed by this process.                                             *)
(***************************************************************************)
EXTENDS Naturals

CONSTANTS
    PmPorts,    \* the listen ports of the -b items
    PmSlots,    \* connections that may be open at once
    DialTries   \* the dial loop's bound: 10

VARIABLES
    busy,       \* the ports another process already listens on
    pm,         \* PM: "bind", "run", "exited" (os.Exit)
    ls,         \* port -> Listen: "none", "start", "accept"
    pc,         \* slot -> "none", "dial", "up", "failed"
    tries,      \* slot -> dial attempts made
    sa,         \* slot -> conn, the accepted socket: "open", "eof", "closed"
    sb,         \* slot -> conn1, the target socket: "none", "open", "eof", "closed"
    ta,         \* slot -> Trans(conn, conn1) running
    tb          \* slot -> Trans(conn1, conn) running

pvars == <<busy, pm, ls, pc, tries, sa, sb, ta, tb>>

Sock == {"open", "eof", "closed"}

TypeOK ==
    /\ busy \subseteq PmPorts
    /\ pm \in {"bind", "run", "exited"}
    /\ ls \in [PmPorts -> {"none", "start", "accept"}]
    /\ pc \in [PmSlots -> {"none", "dial", "up", "failed"}]
    /\ tries \in [PmSlots -> 0..DialTries]
    /\ sa \in [PmSlots -> Sock]
    /\ sb \in [PmSlots -> Sock \cup {"none"}]
    /\ ta \in [PmSlots -> BOOLEAN]
    /\ tb \in [PmSlots -> BOOLEAN]

Init ==
    /\ busy \in SUBSET PmPorts
    /\ pm = "bind"
    /\ ls = [p \in PmPorts |-> "none"]
    /\ pc = [k \in PmSlots |-> "none"]
    /\ tries = [k \in PmSlots |-> 0]
    /\ sa = [k \in PmSlots |-> "closed"]
    /\ sb = [k \in PmSlots |-> "none"]
    /\ ta = [k \in PmSlots |-> FALSE]
    /\ tb = [k \in PmSlots |-> FALSE]

Alive == pm # "exited"

(* The loop of PM: bindOp on a port not yet in serv.ports adds it and     *)
(* starts its Listen goroutine; after the last item PM sleeps in Run.      *)
BindOp(p) ==
    /\ pm = "bind"
    /\ ls[p] = "none"
    /\ ls' = [ls EXCEPT ![p] = "start"]
    /\ pm' = IF \A q \in PmPorts \ {p} : ls[q] # "none" THEN "run" ELSE "bind"
    /\ UNCHANGED <<busy, pc, tries, sa, sb, ta, tb>>

(* Listen: net.Listen fails on a port in use and os.Exit(1) ends the      *)
(* process, every mapping and connection with it.                         *)
Listen(p) ==
    /\ Alive
    /\ ls[p] = "start"
    /\ IF p \in busy
         THEN /\ pm' = "exited"
              /\ sa' = [k \in PmSlots |-> "closed"]
              /\ sb' = [k \in PmSlots |-> IF sb[k] = "none" THEN "none" ELSE "closed"]
              /\ ta' = [k \in PmSlots |-> FALSE]
              /\ tb' = [k \in PmSlots |-> FALSE]
              /\ UNCHANGED ls
         ELSE /\ ls' = [ls EXCEPT ![p] = "accept"]
              /\ UNCHANGED <<pm, sa, sb, ta, tb>>
    /\ UNCHANGED <<busy, pc, tries>>

\* Accept returns a connection and its dialling goroutine starts.
Accept(p, k) ==
    /\ Alive
    /\ ls[p] = "accept"
    /\ pc[k] \in {"none", "up", "failed"}
    /\ sa[k] = "closed" /\ sb[k] \in {"none", "closed"}
    /\ ~ta[k] /\ ~tb[k]
    /\ pc' = [pc EXCEPT ![k] = "dial"]
    /\ tries' = [tries EXCEPT ![k] = 0]
    /\ sa' = [sa EXCEPT ![k] = "open"]
    /\ sb' = [sb EXCEPT ![k] = "none"]
    /\ UNCHANGED <<busy, pm, ls, ta, tb>>

(* One net.Dial to the target.  Success starts both Trans goroutines; a   *)
(* failure sleeps 5 s and tries again, and the tenth closes conn.         *)
DialTry(k) ==
    /\ Alive
    /\ pc[k] = "dial"
    /\ \/ /\ pc' = [pc EXCEPT ![k] = "up"]
          /\ sb' = [sb EXCEPT ![k] = "open"]
          /\ ta' = [ta EXCEPT ![k] = TRUE]
          /\ tb' = [tb EXCEPT ![k] = TRUE]
          /\ UNCHANGED <<tries, sa>>
       \/ /\ tries' = [tries EXCEPT ![k] = tries[k] + 1]
          /\ IF tries[k] + 1 = DialTries
               THEN /\ pc' = [pc EXCEPT ![k] = "failed"]
                    /\ sa' = [sa EXCEPT ![k] = "closed"]
               ELSE UNCHANGED <<pc, sa>>
          /\ UNCHANGED <<sb, ta, tb>>
    /\ UNCHANGED <<busy, pm, ls>>

\* Mutant: Trans closes its source (defer conn1.Close()) instead.
TransEndCloseSrc(k) ==
    /\ Alive
    /\ ta[k]
    /\ sa[k] # "open"
    /\ ta' = [ta EXCEPT ![k] = FALSE]
    /\ sa' = [sa EXCEPT ![k] = "closed"]
    /\ UNCHANGED <<busy, pm, ls, pc, tries, sb, tb>>

(* Trans(conn, conn1) ends when reading conn fails (EOF, or conn closed   *)
(* by the other Trans) and closes conn1.  A write to a hung-up conn1      *)
(* fails only if data arrives, so that alone does not end it.             *)
TransAEnd(k) ==
    /\ Alive
    /\ ta[k]
    /\ sa[k] # "open"
    /\ ta' = [ta EXCEPT ![k] = FALSE]
    /\ sb' = [sb EXCEPT ![k] = "closed"]
    /\ UNCHANGED <<busy, pm, ls, pc, tries, sa, tb>>

\* Trans(conn1, conn) ends when reading conn1 fails and closes conn.
TransBEnd(k) ==
    /\ Alive
    /\ tb[k]
    /\ sb[k] # "open"
    /\ tb' = [tb EXCEPT ![k] = FALSE]
    /\ sa' = [sa EXCEPT ![k] = "closed"]
    /\ UNCHANGED <<busy, pm, ls, pc, tries, sb, ta>>

-----------------------------------------------------------------------------
\* The local client hangs up.
ClientHangup(k) ==
    /\ Alive
    /\ sa[k] = "open"
    /\ sa' = [sa EXCEPT ![k] = "eof"]
    /\ UNCHANGED <<busy, pm, ls, pc, tries, sb, ta, tb>>

\* The target hangs up.
TargetHangup(k) ==
    /\ Alive
    /\ sb[k] = "open"
    /\ sb' = [sb EXCEPT ![k] = "eof"]
    /\ UNCHANGED <<busy, pm, ls, pc, tries, sa, ta, tb>>

Next ==
    \/ \E p \in PmPorts : BindOp(p)
    \/ \E p \in PmPorts : Listen(p)
    \/ \E p \in PmPorts, k \in PmSlots : Accept(p, k)
    \/ \E k \in PmSlots : DialTry(k)
    \/ \E k \in PmSlots : TransAEnd(k)
    \/ \E k \in PmSlots : TransBEnd(k)
    \/ \E k \in PmSlots : ClientHangup(k)
    \/ \E k \in PmSlots : TargetHangup(k)

\* pm's goroutines run when they can; clients and targets get no fairness.
Fairness ==
    /\ WF_pvars(\E p \in PmPorts : BindOp(p))
    /\ WF_pvars(\E p \in PmPorts : Listen(p))
    /\ WF_pvars(\E k \in PmSlots : DialTry(k))
    /\ WF_pvars(\E k \in PmSlots : TransAEnd(k))
    /\ WF_pvars(\E k \in PmSlots : TransBEnd(k))

Spec == Init /\ [][Next]_pvars /\ Fairness

-----------------------------------------------------------------------------
(* When either end of a mapped connection hangs up, pm eventually closes  *)
(* both its sockets and both Trans goroutines end, although each Trans    *)
(* closes only its destination: the close travels through the other one. *)
PmCloseBoth ==
    \A k \in PmSlots :
        (pc[k] = "up" /\ (sa[k] = "eof" \/ sb[k] = "eof"))
            ~> (pm = "exited" \/ (sa[k] = "closed" /\ sb[k] = "closed" /\ ~ta[k] /\ ~tb[k]))
=============================================================================
