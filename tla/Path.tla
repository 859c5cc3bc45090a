-------------------------------- MODULE Path --------------------------------
(***************************************************************************)
(* The way of a service's answer, byte by byte: from the read task of the  *)
(* internal connection through the client's write task and the session's   *)
(* stream (Transport) to the main loop of the server, which hands each     *)
(* chunk to the write task of the external user (ConnWriter).  The other   *)
(* direction is built of the same parts.  One connection is followed; what *)
(* connections do to one another is the subject of Tunnel.                 *)
(***************************************************************************)
EXTENDS Transport, ConnWriter

VARIABLES
    reader,    \* main loop: "run", "route" (in sender.send), "ended" or "quit"
    held,      \* data of the frame in sender.send
    sender     \* the routing table has a Sender for the user

vars == <<transportVars, writerVars, reader, held, sender>>

Init == TransportInit /\ WriterInit /\ reader = "run" /\ held = <<>> /\ sender = TRUE

(* A Sender is alive: the one in the table or its clone in the main loop. *)
SenderLives == sender \/ reader = "route"

(* A Data frame is decoded and its route looked up; without one its data   *)
(* is dropped.                                                             *)
Read ==
    /\ reader = "run" /\ NextDecodes
    /\ \/ sender /\ reader' = "route" /\ held' = Head(wire).block.frame
       \/ ~sender /\ UNCHANGED <<reader, held>>
    /\ UNCHANGED <<writerVars, sender>>

(* sender.send(data).await returns, with Ok or because the task is gone. *)
Route ==
    /\ reader = "route" /\ ConnSend(held)
    /\ reader' = "run" /\ held' = <<>>
    /\ UNCHANGED <<transportVars, sender>>

RouteError ==
    /\ reader = "route" /\ writer = "done"
    /\ reader' = "run" /\ held' = <<>>
    /\ UNCHANGED <<transportVars, writerVars, sender>>

(* The loop is left at the end of the stream or at an undecodable frame.   *)
(* The user's routing table stays, held by the user's read task.           *)
ReadEnds ==
    /\ reader = "run" /\ NextFails
    /\ reader' = "ended"
    /\ UNCHANGED <<transportVars, writerVars, held, sender>>

ReaderStep == Read \/ Route \/ RouteError \/ ReadEnds

(* Keepalive timeout. *)
ReaderQuits ==
    /\ reader = "run" /\ wire = <<>>
    /\ reader' = "quit"
    /\ UNCHANGED <<transportVars, writerVars, held, sender>>

(* The read task of the user ends: routing_cleanup.remove(&cid). *)
DropSender ==
    /\ sender
    /\ sender' = FALSE
    /\ UNCHANGED <<transportVars, writerVars, reader, held>>

ClientSide ==
    /\ (\E n \in Sizes : Send(n)) \/ DropSenders \/ TaskStep \/ TaskFails
    /\ UNCHANGED <<writerVars, reader, held, sender>>

UserSide ==
    /\ PeerResets \/ WriterStep(SenderLives)
    /\ UNCHANGED <<transportVars, reader, held, sender>>

Next == ClientSide \/ UserSide \/ ReaderStep \/ ReaderQuits \/ DropSender

(* Both write tasks and the main loop are polled, and a user who does not  *)
(* read goes away at last.  Nobody has to send, to fail or to leave.       *)
Spec ==
    /\ Init /\ [][Next]_vars
    /\ WF_vars(TaskStep /\ ClientSide)
    /\ WF_vars(WriterStep(SenderLives) /\ UserSide)
    /\ WF_vars(ReaderStep)

-----------------------------------------------------------------------------
TypeOK ==
    /\ sent \in 0..MaxBytes /\ Len(chan) <= ChanCap /\ Len(wire) <= WireCap
    /\ task \in {"recv", "send", "done"} /\ counter \in Nat
    /\ WriterTypeOK
    /\ reader \in {"run", "route", "ended", "quit"}
    /\ held \in Seq(1..MaxBytes) /\ sender \in BOOLEAN

FirstBytes(n) == [i \in 1..n |-> i]

(* The user gets a prefix of the answer, whatever fails on the way, and a  *)
(* reader whose session has another key gets nothing: tag check, FIFO      *)
(* channels, and the BufWriter that is emptied before it is bypassed.      *)
PrefixArrives ==
    /\ out = FirstBytes(Len(out))
    /\ peerKey # "k" => out = <<>>

(* An orderly end loses nothing.  When the main loop sees the end of a     *)
(* stream whose write task has neither failed nor been aborted, all that   *)
(* was accepted is with a user who is still there or on its way to him;    *)
(* and the user's write task flushes what was routed before the route went *)
(* before it ends.                                                         *)
OrderlyEndIsComplete ==
    /\ reader = "ended" /\ ~failed /\ peerKey = "k" /\ sender /\ ~broken
           => out \o Pending = FirstBytes(sent)
    /\ writer = "done" /\ ~broken => rx = <<>> /\ buf = <<>>

(* The stretch of the answer that can still arrive. *)
Open == sender /\ reader \in {"run", "route"} /\ writer # "done" /\ ~broke

OnTheWay ==
    Pending \o (IF reader = "route" /\ writer # "done" /\ ~broke THEN held ELSE <<>>)
            \o (IF Open THEN Travelling ELSE <<>>)

P == INSTANCE Pipe WITH
        Cap <- MaxBytes, q <- OnTheWay,
        writer <- IF Open /\ task # "done" THEN "run" ELSE "done"

(* Two channels, two tasks, a loop, two buffers and a stream implement the *)
(* one queue the module Tunnel takes them for: bytes leave it at its head  *)
(* only, and what an end of any of them loses is its tail.                 *)
PathIsPipe == P!PipeSpec

(* Every accepted byte reaches the user, unless the client's task fails,   *)
(* the session times out or the user goes.                                 *)
BytesArrive ==
    \A n \in 1..MaxBytes :
        sent >= n ~> \/ Len(out) >= n
                     \/ failed \/ broken \/ ~sender \/ reader = "quit" \/ peerKey # "k"

(* "the write task drains shortly after (its rx channel closes)": it ends  *)
(* once the user's read task has removed the route.                        *)
TaskDrains == ~sender ~> writer = "done"
=============================================================================
