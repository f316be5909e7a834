---------------------------- MODULE TokenBuffer ----------------------------
(* The bridge between the worker that samples tokens and the HTTP thread    *)
(* that streams them: src/src/server/jobs/token_buffer.hpp.  One buffer is  *)
(* a record, each operator is the body of one critical section of the       *)
(* class.  Pieces are whatever the caller puts in.                          *)
EXTENDS Sequences

TokenBuffers(Pieces) ==
    [pieces : Seq(Pieces), done : BOOLEAN, cancelled : BOOLEAN]

EmptyBuffer == [pieces |-> <<>>, done |-> FALSE, cancelled |-> FALSE]

(* A piece that arrives after the end of the stream is dropped. *)
PushPiece(b, piece) ==
    IF b.cancelled \/ b.done
    THEN b
    ELSE [b EXCEPT !.pieces = Append(b.pieces, piece)]

SetDone(b) == [b EXCEPT !.done = TRUE]

(* The pieces that are already in the buffer stay readable. *)
CancelBuffer(b) == [b EXCEPT !.cancelled = TRUE, !.done = TRUE]

(* The predicate wait_pull sleeps on. *)
Pullable(b) == b.pieces # <<>> \/ b.done \/ b.cancelled

AtEof(b) == Pullable(b) /\ b.pieces = <<>>

DropFront(b) == [b EXCEPT !.pieces = Tail(b.pieces)]
=============================================================================
