----------------------------- MODULE ConnWriter -----------------------------
(***************************************************************************)
(* The write task of a forwarded connection, which the server runs towards *)
(* each external user and the client towards each internal service.  Both  *)
(* put a tokio BufWriter in front of the socket and flush it when their    *)
(* channel is drained.  The session modules take such a task for a queue;  *)
(* this one has the bytes.                                                 *)
(***************************************************************************)
EXTENDS Integers, Sequences, SequencesExt

CONSTANTS
    ConnCap,   \* slots of the channel (256)
    BufCap     \* capacity of the BufWriter (8192 bytes)

ASSUME ConnWriterAssumption == ConnCap \in Nat \ {0} /\ BufCap \in Nat \ {0}

VARIABLES
    rx,        \* chunks in the channel
    writer,    \* "recv", "write", "flush", "last" (flush after the loop) or "done"
    data,      \* what write_all has still to write of the current chunk
    buf,       \* contents of the BufWriter
    broke,     \* the loop was left by a write error
    broken,    \* the peer has reset the connection
    out        \* bytes the socket has taken

writerVars == <<rx, writer, data, buf, broke, broken, out>>

WriterInit ==
    /\ rx = <<>> /\ writer = "recv" /\ data = <<>> /\ buf = <<>>
    /\ broke = FALSE /\ broken = FALSE /\ out = <<>>

(* The buffer never grows past its capacity, so a task whose peer is gone  *)
(* notices it after at most BufCap bytes although it ignores flush errors. *)
WriterTypeOK ==
    /\ rx \in Seq(Seq(Nat)) /\ Len(rx) <= ConnCap
    /\ writer \in {"recv", "write", "flush", "last", "done"}
    /\ data \in Seq(Nat) /\ out \in Seq(Nat)
    /\ buf \in Seq(Nat) /\ Len(buf) <= BufCap
    /\ broke \in BOOLEAN /\ broken \in BOOLEAN

-----------------------------------------------------------------------------
(* sender.send(chunk).await returning Ok: the receiver lives as long as    *)
(* the task, also during its last flush.                                   *)
ConnSend(chunk) ==
    /\ writer # "done"
    /\ Len(rx) < ConnCap
    /\ rx' = Append(rx, chunk)
    /\ UNCHANGED <<writer, data, buf, broke, broken, out>>

PeerResets ==
    /\ ~broken
    /\ broken' = TRUE
    /\ UNCHANGED <<rx, writer, data, buf, broke, out>>

Recv ==
    /\ writer = "recv" /\ rx # <<>>
    /\ data' = Head(rx)
    /\ rx' = Tail(rx)
    /\ writer' = "write"
    /\ UNCHANGED <<buf, broke, broken, out>>

(* Seeded fault: the flush is left to the next chunk. *)
AfterWriteNoFlush(rest) == IF rest # <<>> THEN "write" ELSE "recv"

(* Once write_all has returned: if rx.is_empty() { flush }. *)
AfterWrite(rest) ==
    IF rest # <<>> THEN "write" ELSE IF rx = <<>> THEN "flush" ELSE "recv"

(* Seeded fault: the buffer grows instead of being flushed. *)
FitsAlways == Len(data) < BufCap

(* BufWriter::poll_write keeps what fits next to what it holds. *)
Fits == Len(buf) + Len(data) <= BufCap /\ Len(data) < BufCap

WriteToBuffer ==
    /\ writer = "write" /\ Fits
    /\ buf' = buf \o data
    /\ data' = <<>>
    /\ writer' = AfterWrite(<<>>)
    /\ UNCHANGED <<rx, broke, broken, out>>

(* Seeded fault: a large chunk does not wait for what is buffered. *)
GoesThroughAtOnce == ~Fits /\ Len(data) >= BufCap

(* Otherwise it empties the buffer first, and a chunk as large as the      *)
(* buffer then goes to the socket directly.                                *)
GoesThrough == ~Fits /\ buf = <<>>

WriteToSocket ==
    /\ writer = "write" /\ GoesThrough /\ ~broken
    /\ \E n \in 1..Len(data) :
          LET rest == SubSeq(data, n + 1, Len(data))
          IN  /\ out' = out \o SubSeq(data, 1, n)
              /\ data' = rest
              /\ writer' = AfterWrite(rest)
    /\ UNCHANGED <<rx, buf, broke, broken>>

(* The buffer is emptied in writes of any length: within write_all, by     *)
(* flush() after a chunk, or by the flush after the loop.                  *)
DrainBuffer ==
    /\ ~broken /\ buf # <<>>
    /\ writer \in {"flush", "last"} \/ (writer = "write" /\ ~Fits /\ ~GoesThrough)
    /\ \E n \in 1..Len(buf) :
          /\ out' = out \o SubSeq(buf, 1, n)
          /\ buf' = SubSeq(buf, n + 1, Len(buf))
    /\ UNCHANGED <<rx, writer, data, broke, broken>>

(* let _ = flush(): complete, or an error that is ignored. *)
FlushReturns ==
    /\ writer = "flush"
    /\ buf = <<>> \/ broken
    /\ writer' = "recv"
    /\ UNCHANGED <<rx, data, buf, broke, broken, out>>

(* write_all fails: the rest of the chunk is lost and the loop is left. *)
WriteFails ==
    /\ writer = "write" /\ ~Fits /\ broken
    /\ writer' = "last"
    /\ broke' = TRUE
    /\ data' = <<>>
    /\ UNCHANGED <<rx, buf, broken, out>>

(* Seeded fault: the task holds a Sender of its own channel. *)
RecvNoneHeld(sender) == FALSE

(* recv() yields None: the channel is empty and nobody has a Sender. *)
RecvNone(sender) ==
    /\ writer = "recv" /\ rx = <<>> /\ ~sender
    /\ writer' = "last"
    /\ UNCHANGED <<rx, data, buf, broke, broken, out>>

(* The flush after the loop has returned. *)
WriterEnds ==
    /\ writer = "last"
    /\ buf = <<>> \/ broken
    /\ writer' = "done"
    /\ UNCHANGED <<rx, data, buf, broke, broken, out>>

WriterStep(sender) ==
    \/ Recv \/ WriteToBuffer \/ WriteToSocket \/ DrainBuffer \/ FlushReturns
    \/ WriteFails \/ RecvNone(sender) \/ WriterEnds

-----------------------------------------------------------------------------
(* The bytes the peer can still get of those the task has been given. *)
Pending ==
    IF writer = "done" THEN <<>> ELSE IF broke THEN buf ELSE buf \o data \o FlattenSeq(rx)

(* Nothing is held back: a task that waits for the next chunk has given    *)
(* all earlier ones to the socket ("still keeping latency low when there's *)
(* no queued data").                                                       *)
IdleIsFlushed == writer = "recv" /\ rx = <<>> /\ ~broken => buf = <<>>
=============================================================================
