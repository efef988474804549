----------------------------- MODULE ByteStream -----------------------------
(***************************************************************************)
(* The byte-stream adapter WSConn of src/ws/ws_tun.go (lines 64-124; its   *)
(* twin WS in src/ws/ws.go 47-104 is the same code).  A websocket carries  *)
(* messages; the adapter offers the io.Reader/io.Writer of a stream.       *)
(*                                                                         *)
(* Write(p) sends p as one binary message.  Read(p) serves the saved       *)
(* remainder of an earlier message if there is one, otherwise reads the    *)
(* next message; a message longer than p is cut at len(p) and the rest is  *)
(* saved in ws.remain.  The peer writes and then closes; once the frames   *)
(* before the close are read, ReadMessage fails and Read returns -1.       *)
(*                                                                         *)
(* Bytes are abstracted to the small set Bytes; a message is a sequence of *)
(* them, so a lost, repeated or reordered byte shows in the sequences.     *)
(***************************************************************************)
EXTENDS Naturals, Integers, Sequences, SequencesExt

CONSTANTS
    Bytes,      \* the values a byte may take
    Chunks,     \* the buffers the writer passes to Write
    BufSizes,   \* the len(p) the reader passes to Read
    MaxWrites,  \* bound on the number of Write calls
    Nil         \* ws.remain == nil

VARIABLES
    frames,     \* the messages sent and not yet read by ReadMessage
    closed,     \* the writer has closed the websocket
    nw,         \* Write calls made (bounded by MaxWrites)
    sent,       \* every byte passed to a successful Write, in order
    remain,     \* ws.remain
    out,        \* every byte Read has copied into the caller's buffers
    last,       \* the result of the latest Read: n and len(p)
    rdone       \* the reader has seen an error and stopped (io.Copy)

vars == <<frames, closed, nw, sent, remain, out, last, rdone>>

TypeOK ==
    /\ frames \in Seq(Seq(Bytes))
    /\ closed \in BOOLEAN
    /\ nw \in 0..MaxWrites
    /\ sent \in Seq(Bytes)
    /\ remain \in (Seq(Bytes) \ {<<>>}) \cup {Nil}   \* never an empty non-nil slice
    /\ out \in Seq(Bytes)
    /\ last \in [n : Int, cap : Nat]
    /\ rdone \in BOOLEAN

Init ==
    /\ frames = <<>>
    /\ closed = FALSE
    /\ nw = 0
    /\ sent = <<>>
    /\ remain = Nil
    /\ out = <<>>
    /\ last = [n |-> 0, cap |-> 0]
    /\ rdone = FALSE

\* Write(p): WriteMessage(BinaryMessage, p); on a closed websocket it fails
\* and nothing is sent.
Write(p) ==
    /\ nw < MaxWrites
    /\ nw' = nw + 1
    /\ IF closed
         THEN UNCHANGED <<frames, sent>>
         ELSE /\ frames' = Append(frames, p)
              /\ sent' = sent \o p
    /\ UNCHANGED <<closed, remain, out, last, rdone>>

\* The peer closes the websocket after the frames it has sent.
WriterClose ==
    /\ ~closed
    /\ closed' = TRUE
    /\ UNCHANGED <<frames, nw, sent, remain, out, last, rdone>>

\* Mutant: the remainder keeps the byte already returned (message[len(p)-1:]).
ServeOverlap(m, k) ==
    IF Len(m) <= k
      THEN /\ remain' = Nil
           /\ out' = out \o m
           /\ last' = [n |-> Len(m), cap |-> k]
      ELSE /\ remain' = SubSeq(m, k, Len(m))
           /\ out' = out \o SubSeq(m, 1, k)
           /\ last' = [n |-> k, cap |-> k]

\* Mutant: a message exactly len(p) long is taken for a longer one.
ServeStrict(m, k) ==
    IF Len(m) < k
      THEN /\ remain' = Nil
           /\ out' = out \o m
           /\ last' = [n |-> Len(m), cap |-> k]
      ELSE /\ remain' = SubSeq(m, k + 1, Len(m))
           /\ out' = out \o SubSeq(m, 1, k)
           /\ last' = [n |-> k, cap |-> k]

\* The tail of Read: copy(p, message); a message longer than p leaves
\* message[len(p):] in ws.remain, a shorter one clears it.
Serve(m, k) ==
    IF Len(m) <= k
      THEN /\ remain' = Nil
           /\ out' = out \o m
           /\ last' = [n |-> Len(m), cap |-> k]
      ELSE /\ remain' = SubSeq(m, k + 1, Len(m))
           /\ out' = out \o SubSeq(m, 1, k)
           /\ last' = [n |-> k, cap |-> k]

\* Read(p) with ws.remain != nil: the remainder is served first.
ReadRemain(k) ==
    /\ ~rdone
    /\ remain # Nil
    /\ Serve(remain, k)
    /\ UNCHANGED <<frames, closed, nw, sent, rdone>>

\* Read(p) with ws.remain == nil: ws.c.ReadMessage() returns the next frame.
ReadMessage(k) ==
    /\ ~rdone
    /\ remain = Nil
    /\ frames # <<>>
    /\ frames' = Tail(frames)
    /\ Serve(Head(frames), k)
    /\ UNCHANGED <<closed, nw, sent, rdone>>

\* Mutant: Read asks the websocket for a message before it looks at the
\* saved remainder, so a close is reported while bytes are still saved.
ReadErrorPending(k) ==
    /\ ~rdone
    /\ frames = <<>>
    /\ closed
    /\ last' = [n |-> -1, cap |-> k]
    /\ rdone' = TRUE
    /\ UNCHANGED <<frames, closed, nw, sent, remain, out>>

\* ReadMessage fails once the frames before the close are consumed: Read
\* returns -1 and the error; the caller (io.Copy) stops.
ReadError(k) ==
    /\ ~rdone
    /\ remain = Nil
    /\ frames = <<>>
    /\ closed
    /\ last' = [n |-> -1, cap |-> k]
    /\ rdone' = TRUE
    /\ UNCHANGED <<frames, closed, nw, sent, remain, out>>

Next ==
    \/ \E p \in Chunks : Write(p)
    \/ WriterClose
    \/ \E k \in BufSizes : ReadRemain(k)
    \/ \E k \in BufSizes : ReadMessage(k)
    \/ \E k \in BufSizes : ReadError(k)

Spec == Init /\ [][Next]_vars

-----------------------------------------------------------------------------
\* The bytes sent and not yet handed to the reader: the saved remainder,
\* then the frames still queued.
Pending == (IF remain = Nil THEN <<>> ELSE remain) \o FlattenSeq(frames)

\* Read, over any mix of buffer sizes and message sizes, hands the caller
\* exactly the bytes given to Write, in order, with no gap or repeat
\* (spec section 3.1: partial reads drain the remainder first).
StreamPreserved == out \o Pending = sent

\* Every Read returns a count n with 0 <= n <= len(p), as io.Reader
\* requires and spec section 3.1 states ("returns up to len(buf) bytes").
ReadCountInRange == last.n \in 0..last.cap

\* The adapter seen as a stream: the bytes not yet read are Pending, the
\* bytes read are out, and the reader's end is rdone.
Stream == INSTANCE StreamContract WITH buf <- Pending, got <- out, done <- rdone

\* WSConn implements the stream contract: every Write, close and Read of
\* the adapter is a step of StreamContract (or changes none of its state),
\* so a Read never hands out more than len(p) bytes, never hands out bytes
\* out of order, and reports the end only when nothing is saved or queued.
ImplementsStream == Stream!Spec
=============================================================================
