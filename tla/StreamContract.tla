--------------------------- MODULE StreamContract ---------------------------
(***************************************************************************)
(* What a byte stream promises its users (io.Writer and io.Reader, and    *)
(* spec section 4.1 for the adapter): the writer appends bytes until it    *)
(* closes; each read hands the reader a non-empty prefix of the bytes not  *)
(* yet read, at most as long as the reader's buffer; a read reports the    *)
(* end of the stream only once every byte written before the close has    *)
(* been read, and the reader stops there.                                  *)
(*                                                                         *)
(* A read that returns no bytes and no error is a step that changes       *)
(* nothing here (a stuttering step).                                      *)
(***************************************************************************)
EXTENDS Naturals, Sequences, SequencesExt

CONSTANTS
    Bytes,      \* the values a byte may take
    BufSizes    \* the buffer lengths readers pass to Read

VARIABLES
    buf,        \* the bytes written and not yet read
    got,        \* the bytes read so far
    closed,     \* the writer has closed the stream
    done        \* a read has reported the end of the stream

svars == <<buf, got, closed, done>>

Init ==
    /\ buf = <<>>
    /\ got = <<>>
    /\ closed = FALSE
    /\ done = FALSE

\* The writer appends bytes at the end of the stream.
Write ==
    /\ ~closed
    /\ buf' \in Seq(Bytes)
    /\ IsPrefix(buf, buf')
    /\ UNCHANGED <<got, closed, done>>

Close ==
    /\ ~closed
    /\ closed' = TRUE
    /\ UNCHANGED <<buf, got, done>>

\* A read into a buffer of k bytes takes n of the oldest bytes, 1 <= n <= k.
Read ==
    /\ ~done
    /\ \E k \in BufSizes, n \in 1..Len(buf) :
         /\ n <= k
         /\ got' = got \o SubSeq(buf, 1, n)
         /\ buf' = SubSeq(buf, n + 1, Len(buf))
    /\ UNCHANGED <<closed, done>>

\* The end of the stream: closed and drained.
ReadEnd ==
    /\ ~done
    /\ closed
    /\ buf = <<>>
    /\ done' = TRUE
    /\ UNCHANGED <<buf, got, closed>>

Next == Write \/ Close \/ Read \/ ReadEnd

Spec == Init /\ [][Next]_svars
=============================================================================
