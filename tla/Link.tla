-------------------------------- MODULE Link --------------------------------
(***************************************************************************)
(* The transport between the two run_proxy functions of one session, after *)
(* the handshake.  Each direction is one FIFO: the 256-slot mpsc channel   *)
(* of coalesce::spawn_write_task, the write task that encodes and sends    *)
(* each frame, and the TCP stream the other side decodes from.  LinkCap is *)
(* the number of frames the whole pipe holds before a sender has to wait.  *)
(*                                                                         *)
(* A write task is "run" until it ends; then its receiver is dropped, so   *)
(* every later send returns an error, and its write half is dropped, so    *)
(* the peer reads the remaining frames and then end of stream.             *)
(***************************************************************************)
EXTENDS Frames

CONSTANTS
    LinkCap,  \* frames in flight in one direction before send().await waits
    ConnCap,  \* slots of the per-connection channels (mpsc::channel(256))
    Faults    \* what the environment may do

(* "cut": the network silently stops delivering.  "timeout": a read loop   *)
(* may see no frame for KEEPALIVE_TIMEOUT.  "bind": bind may fail although *)
(* this session does not hold the port.  "dial": the internal service may  *)
(* refuse a connection.  "extclose" / "svcclose": the external user / the  *)
(* internal service may close or reset a connection.  "ping": the          *)
(* heartbeat interval may elapse.                                          *)
FaultKinds == {"cut", "timeout", "bind", "dial", "extclose", "svcclose", "ping"}

ASSUME LinkAssumption ==
    /\ LinkCap \in Nat \ {0}
    /\ ConnCap \in Nat \ {0}
    /\ Faults \subseteq FaultKinds

VARIABLES
    s2c,      \* frames from the server's tx_channel to the client's reader
    c2s,      \* frames from the client's tx_to_server to the server's reader
    swriter,  \* write task of the server: "run" or "done"
    cwriter,  \* write task of the client: "run" or "done"
    sreader,  \* the server still holds its read half
    creader,  \* the client still holds its read half
    cut       \* the network has stopped delivering in both directions

linkVars == <<s2c, c2s, swriter, cwriter, sreader, creader, cut>>

LinkTypeOK ==
    /\ s2c \in Seq(Frame)
    /\ c2s \in Seq(Frame)
    /\ Len(s2c) <= LinkCap
    /\ Len(c2s) <= LinkCap
    /\ swriter \in {"run", "done"}
    /\ cwriter \in {"run", "done"}
    /\ sreader \in BOOLEAN
    /\ creader \in BOOLEAN
    /\ cut \in BOOLEAN

LinkInit ==
    /\ s2c = <<>>
    /\ c2s = <<>>
    /\ swriter = "run"
    /\ cwriter = "run"
    /\ sreader = TRUE
    /\ creader = TRUE
    /\ cut = FALSE

(* Seeded fault: an unbounded channel. *)
ToClientUnbounded(f) ==
    /\ swriter = "run"
    /\ s2c' = Append(s2c, f)
    /\ UNCHANGED <<c2s, swriter, cwriter, sreader, creader, cut>>

(* Seeded fault: the channel outlives the task that empties it. *)
ToClientAfterEnd(f) ==
    /\ Len(s2c) < LinkCap
    /\ s2c' = Append(s2c, f)
    /\ UNCHANGED <<c2s, swriter, cwriter, sreader, creader, cut>>

(* tx_channel.send(f).await returning Ok, on the server. *)
ToClient(f) ==
    /\ swriter = "run"
    /\ Len(s2c) < LinkCap
    /\ s2c' = Append(s2c, f)
    /\ UNCHANGED <<c2s, swriter, cwriter, sreader, creader, cut>>

(* Seeded fault: an unbounded channel. *)
ToServerUnbounded(f) ==
    /\ cwriter = "run"
    /\ c2s' = Append(c2s, f)
    /\ UNCHANGED <<s2c, swriter, cwriter, sreader, creader, cut>>

(* tx_to_server.send(f).await returning Ok, on the client. *)
ToServer(f) ==
    /\ cwriter = "run"
    /\ Len(c2s) < LinkCap
    /\ c2s' = Append(c2s, f)
    /\ UNCHANGED <<s2c, swriter, cwriter, sreader, creader, cut>>

(* reader.next() yields a frame of the given type, which is consumed. *)
ServerReads(type) ==
    /\ ~cut
    /\ c2s # <<>>
    /\ Head(c2s).type = type
    /\ c2s' = Tail(c2s)
    /\ UNCHANGED <<s2c, swriter, cwriter, sreader, creader, cut>>

ClientReads(type) ==
    /\ ~cut
    /\ s2c # <<>>
    /\ Head(s2c).type = type
    /\ s2c' = Tail(s2c)
    /\ UNCHANGED <<c2s, swriter, cwriter, sreader, creader, cut>>

(* reader.next() yields None or an I/O error: the peer's write half is     *)
(* gone and everything it wrote has been read.  A frame that does not      *)
(* decode ends the session the same way.                                   *)
ServerReadsEnd ==
    /\ ~cut
    /\ \/ c2s = <<>> /\ cwriter = "done"
       \/ c2s # <<>> /\ Head(c2s) = Undecodable

ClientReadsEnd ==
    /\ ~cut
    /\ \/ s2c = <<>> /\ swriter = "done"
       \/ s2c # <<>> /\ Head(s2c) = Undecodable

(* Seeded fault: no keepalive on the server. *)
ServerNeverSilent == FALSE

(* reader.next() has nothing to yield; only then can the biased select!    *)
(* take its timeout branch.                                                *)
ServerSilent == "timeout" \in Faults /\ (cut \/ c2s = <<>>)

ClientSilent == "timeout" \in Faults /\ (cut \/ s2c = <<>>)

(* A side has closed its socket once both halves are dropped. *)
ServerClosed == swriter = "done" /\ ~sreader

ClientClosed == cwriter = "done" /\ ~creader

(* writer.send fails in the server's write task: the peer has reset the    *)
(* connection or the kernel has given up retransmitting.  What was queued  *)
(* is lost.                                                                *)
ServerWriteFails ==
    /\ swriter = "run"
    /\ s2c # <<>>
    /\ ClientClosed \/ cut
    /\ swriter' = "done"
    /\ s2c' = <<>>
    /\ UNCHANGED <<c2s, cwriter, sreader, creader, cut>>

ClientWriteFails ==
    /\ cwriter = "run"
    /\ c2s # <<>>
    /\ ServerClosed \/ cut
    /\ cwriter' = "done"
    /\ c2s' = <<>>
    /\ UNCHANGED <<s2c, swriter, sreader, creader, cut>>

NetworkCut ==
    /\ "cut" \in Faults
    /\ ~cut
    /\ cut' = TRUE
    /\ UNCHANGED <<s2c, c2s, swriter, cwriter, sreader, creader>>
=============================================================================
