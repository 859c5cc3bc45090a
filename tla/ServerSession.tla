---------------------------- MODULE ServerSession ----------------------------
(***************************************************************************)
(* One session on the server: run_proxy (rfrp_server/src/run_proxy.rs)     *)
(* after the handshake, one handle_reg_frame task per registered proxy and *)
(* the read and write task of every external connection                    *)
(* (rfrp_proto/src/frame_handle.rs), with the external users as their      *)
(* environment.                                                            *)
(*                                                                         *)
(* A step runs a task from one await to the next.  The main loop is        *)
(* "read" at the select!, "reply", "pong" or "route" while it waits in the *)
(* send().await of a frame it is handling, and "ended" once run_proxy has  *)
(* returned.                                                               *)
(***************************************************************************)
EXTENDS Link

CONSTANT MaxExternal  \* MAX_CONCURRENT_EXTERNAL_CONNS (1024)

ASSUME ServerAssumption == MaxExternal \in Nat \ {0}

VARIABLES
    smain,           \* where the main loop is
    spend,           \* the frame whose send the main loop waits for
    next_proxy_id,
    proxy_routing,   \* proxies in the outer map
    cached_routing,  \* proxy whose table is cached, or NoProxy
    listener,        \* state of each proxy's handle_reg_frame task
    lentry,          \* the entry each of those tasks was spawned with
    next_conn_id,
    routing,         \* keys in the inner tables
    eread,           \* read task of each external connection
    ewrite,          \* write task of each external connection
    to_remote,       \* channel between the main loop and that write task
    echunk,          \* chunks the read task has taken from the socket
    eclosed,         \* the external user has closed or reset
    eout             \* chunks written to the external user

sMainVars   == <<smain, spend, next_proxy_id, proxy_routing, cached_routing>>
listenVars  == <<listener, lentry, next_conn_id>>
extVars     == <<routing, eread, ewrite, to_remote, echunk, eclosed, eout>>
serverVars  == <<sMainVars, listenVars, extVars>>

NoFrame == [type |-> "None"]

ServerTypeOK ==
    /\ smain \in {"read", "reply", "pong", "route", "ended"}
    /\ spend \in Frame \cup {NoFrame}
    /\ smain = "reply" => spend \in RegisterAckFrames
    /\ smain = "pong" => spend \in ControlFrames
    /\ smain = "route" => spend \in DataFrames
    /\ next_proxy_id \in 0..MaxProxies
    /\ proxy_routing \subseteq ProxyId
    /\ cached_routing \in ProxyId \cup {NoProxy}
    /\ listener \in [ProxyId -> {"none", "spawned", "ack", "reject", "accept",
                                 "permit", "dead"}]
    /\ lentry \in [ProxyId -> Entry \cup {0}]
    /\ \A p \in ProxyId : listener[p] # "none" => lentry[p] \in Entry
    /\ next_conn_id \in [ProxyId -> 0..MaxConns]
    /\ routing \subseteq Key
    /\ eread \in [Key -> {"none", "wait", "read", "send", "done"}]
    /\ ewrite \in [Key -> {"none", "run", "done"}]
    /\ to_remote \in [Key -> Seq(Payload)]
    /\ echunk \in [Key -> 0..MaxChunks]
    /\ \A c \in Key : eread[c] = "send" => echunk[c] > 0
    /\ eclosed \in [Key -> BOOLEAN]
    /\ eout \in [Key -> Seq(Payload)]

ServerInit ==
    /\ smain = "read"
    /\ spend = NoFrame
    /\ next_proxy_id = 0
    /\ proxy_routing = {}
    /\ cached_routing = NoProxy
    /\ listener = [p \in ProxyId |-> "none"]
    /\ lentry = [p \in ProxyId |-> 0]
    /\ next_conn_id = [p \in ProxyId |-> 0]
    /\ routing = {}
    /\ eread = [c \in Key |-> "none"]
    /\ ewrite = [c \in Key |-> "none"]
    /\ to_remote = [c \in Key |-> <<>>]
    /\ echunk = [c \in Key |-> 0]
    /\ eclosed = [c \in Key |-> FALSE]
    /\ eout = [c \in Key |-> <<>>]

-----------------------------------------------------------------------------
(* The main loop.                                                          *)

SRegister ==
    /\ smain = "read"
    /\ ServerReads("Register")
    /\ next_proxy_id < MaxProxies
    /\ next_proxy_id' = next_proxy_id + 1
    /\ proxy_routing' = proxy_routing \cup {next_proxy_id}
    /\ listener' = [listener EXCEPT ![next_proxy_id] = "spawned"]
    /\ lentry' = [lentry EXCEPT ![next_proxy_id] = Head(c2s).client]
    /\ UNCHANGED <<smain, spend, cached_routing, next_conn_id, extVars>>

(* Seeded fault: a registration above the limit is dropped. *)
SRegisterOverLimitSilent ==
    /\ smain = "read"
    /\ ServerReads("Register")
    /\ next_proxy_id >= MaxProxies
    /\ UNCHANGED serverVars

(* proxy_tasks has one handle per assigned id, so next_proxy_id is its     *)
(* length: a registration above the limit is answered with a rejection.    *)
SRegisterOverLimit ==
    /\ smain = "read"
    /\ ServerReads("Register")
    /\ next_proxy_id >= MaxProxies
    /\ smain' = "reply"
    /\ spend' = new_reg_ack_frame(Head(c2s).client, FALSE, 0)
    /\ UNCHANGED <<next_proxy_id, proxy_routing, cached_routing, listenVars, extVars>>

SPing ==
    /\ smain = "read"
    /\ ServerReads("Control")
    /\ Head(c2s).command = "ping"
    /\ smain' = "pong"
    /\ spend' = new_pong_frame
    /\ UNCHANGED <<next_proxy_id, proxy_routing, cached_routing, listenVars, extVars>>

(* A pong, an unknown command or a RegisterAck is logged and ignored. *)
SIgnore ==
    /\ smain = "read"
    /\ \/ ServerReads("RegisterAck")
       \/ ServerReads("Control") /\ Head(c2s).command # "ping"
    /\ UNCHANGED serverVars

(* Seeded faults: the cached table is used without comparing its proxy_id; *)
(* a table that is not cached is not looked up.                            *)
RoutingTableStale(pid) ==
    IF cached_routing # NoProxy THEN cached_routing
    ELSE IF pid \in proxy_routing THEN pid
    ELSE NoProxy

RoutingTableCachedOnly(pid) == IF cached_routing = pid THEN cached_routing ELSE NoProxy

(* The table a Data frame is looked up in: the cached one if it is for the *)
(* frame's proxy, else the one in the outer map, else none.                *)
RoutingTable(pid) ==
    IF cached_routing = pid THEN cached_routing
    ELSE IF pid \in proxy_routing THEN pid
    ELSE NoProxy

(* The lookup clones the sender and leaves the map; the send is a later    *)
(* step, by which time the connection may be gone.                         *)
SData ==
    /\ smain = "read"
    /\ ServerReads("Data")
    /\ LET key   == Head(c2s).key
           table == RoutingTable(key[1])
       IN  /\ cached_routing' = IF table = NoProxy THEN cached_routing ELSE key[1]
           /\ IF table # NoProxy /\ <<table, key[2]>> \in routing
              THEN smain' = "route" /\ spend' = new_data_frame(Head(c2s).data, <<table, key[2]>>)
              ELSE UNCHANGED <<smain, spend>>
    /\ UNCHANGED <<next_proxy_id, proxy_routing, listenVars, extVars>>

(* The receiver of to_remote lives in the write task, or in the listener   *)
(* task until the connection has its permit.                               *)
SRoute ==
    /\ smain = "route"
    /\ ewrite[spend.key] # "done"
    /\ Len(to_remote[spend.key]) < ConnCap
    /\ to_remote' = [to_remote EXCEPT ![spend.key] = Append(@, spend.data)]
    /\ smain' = "read"
    /\ spend' = NoFrame
    /\ UNCHANGED <<next_proxy_id, proxy_routing, cached_routing, listenVars,
                   routing, eread, ewrite, echunk, eclosed, eout, linkVars>>

SRouteError ==
    /\ smain = "route"
    /\ ewrite[spend.key] = "done"
    /\ smain' = "read"
    /\ spend' = NoFrame
    /\ UNCHANGED <<next_proxy_id, proxy_routing, cached_routing, listenVars,
                   extVars, linkVars>>

(* The rejection above the limit and the pong; an error of the first is    *)
(* ignored, an error of the second leaves the loop (SStop).                *)
SSend ==
    /\ smain \in {"reply", "pong"}
    /\ \/ ToClient(spend)
       \/ smain = "reply" /\ swriter = "done" /\ UNCHANGED linkVars
    /\ smain' = "read"
    /\ spend' = NoFrame
    /\ UNCHANGED <<next_proxy_id, proxy_routing, cached_routing, listenVars, extVars>>

(* Seeded fault: the error of the pong's send is ignored. *)
LoopLeftOnReadOnly == smain = "read" /\ (ServerReadsEnd \/ ServerSilent)

(* The loop is left on end of stream, on a frame that does not decode, on  *)
(* a keepalive timeout and when a pong cannot be sent.                     *)
LoopLeft ==
    \/ smain = "read" /\ (ServerReadsEnd \/ ServerSilent)
    \/ smain = "pong" /\ swriter = "done"

(* Every listener task is aborted (LAbort) and the outer map cleared; the  *)
(* tasks of the external connections and the write task are left running.  *)
SStop ==
    /\ LoopLeft
    /\ smain' = "ended"
    /\ spend' = NoFrame
    /\ proxy_routing' = {}
    /\ cached_routing' = NoProxy
    /\ sreader' = FALSE
    /\ UNCHANGED <<next_proxy_id, listenVars, extVars,
                   s2c, c2s, swriter, cwriter, creader, cut>>

(* Seeded fault: the write task has a clone of tx_channel itself. *)
TxChannelHeldByTask == TRUE

(* The write task gets no more frames when the last clone of tx_channel is *)
(* dropped: the main loop's, the listeners' and those of the external read *)
(* tasks.  It still writes what is queued: s2c holds that together with    *)
(* what is in the stream, and the client sees the end only after both.     *)
TxChannelHeld ==
    \/ smain # "ended"
    \/ \E p \in ProxyId : listener[p] \notin {"none", "dead"}
    \/ \E c \in Key : eread[c] \in {"read", "send"}

SWriterEnds ==
    /\ swriter = "run"
    /\ ~TxChannelHeld
    /\ swriter' = "done"
    /\ UNCHANGED <<serverVars, s2c, c2s, cwriter, sreader, creader, cut>>

SWriterFails == ServerWriteFails /\ UNCHANGED serverVars

-----------------------------------------------------------------------------
(* handle_reg_frame: one task per registered proxy.                        *)

HoldsPort(p) == listener[p] \in {"ack", "accept", "permit"}

PortTaken(p) ==
    \E q \in ProxyId : HoldsPort(q) /\ BindPort[lentry[q]] = BindPort[lentry[p]]

LBind(p) ==
    /\ listener[p] = "spawned"
    /\ BindPort[lentry[p]] >= 1024
    /\ ~PortTaken(p)
    /\ listener' = [listener EXCEPT ![p] = "ack"]
    /\ UNCHANGED <<lentry, next_conn_id, sMainVars, extVars, linkVars>>

LBindFails(p) ==
    /\ listener[p] = "spawned"
    /\ BindPort[lentry[p]] < 1024 \/ PortTaken(p) \/ "bind" \in Faults
    /\ listener' = [listener EXCEPT ![p] = "reject"]
    /\ UNCHANGED <<lentry, next_conn_id, sMainVars, extVars, linkVars>>

(* An error of this send is only logged: the task goes on to accept. *)
LAck(p) ==
    /\ listener[p] = "ack"
    /\ \/ ToClient(new_reg_ack_frame(lentry[p], TRUE, p))
       \/ swriter = "done" /\ UNCHANGED linkVars
    /\ listener' = [listener EXCEPT ![p] = "accept"]
    /\ UNCHANGED <<lentry, next_conn_id, sMainVars, extVars>>

(* Seeded fault: a failed bind is confirmed. *)
LRejectConfirms(p) ==
    /\ listener[p] = "reject"
    /\ ToClient(new_reg_ack_frame(lentry[p], TRUE, p))
    /\ listener' = [listener EXCEPT ![p] = "dead"]
    /\ UNCHANGED <<lentry, next_conn_id, sMainVars, extVars>>

LReject(p) ==
    /\ listener[p] = "reject"
    /\ \/ ToClient(new_reg_ack_frame(lentry[p], FALSE, 0))
       \/ swriter = "done" /\ UNCHANGED linkVars
    /\ listener' = [listener EXCEPT ![p] = "dead"]
    /\ UNCHANGED <<lentry, next_conn_id, sMainVars, extVars>>

(* The connection is in the routing table before it has a permit. *)
LAccept(p) ==
    LET c == <<p, next_conn_id[p]>> IN
    /\ listener[p] = "accept"
    /\ next_conn_id[p] < MaxConns
    /\ next_conn_id' = [next_conn_id EXCEPT ![p] = @ + 1]
    /\ routing' = routing \cup {c}
    /\ eread' = [eread EXCEPT ![c] = "wait"]
    /\ listener' = [listener EXCEPT ![p] = "permit"]
    /\ UNCHANGED <<lentry, ewrite, to_remote, echunk, eclosed, eout, sMainVars, linkVars>>

(* The read task holds the permit for as long as it runs. *)
Permits(p) ==
    MaxExternal - Cardinality({c \in Key : c[1] = p /\ eread[c] \in {"read", "send"}})

LPermit(p) ==
    LET c == <<p, next_conn_id[p] - 1>> IN
    /\ listener[p] = "permit"
    /\ Permits(p) > 0
    /\ eread' = [eread EXCEPT ![c] = "read"]
    /\ ewrite' = [ewrite EXCEPT ![c] = "run"]
    /\ listener' = [listener EXCEPT ![p] = "accept"]
    /\ UNCHANGED <<lentry, next_conn_id, routing, to_remote, echunk, eclosed, eout,
                   sMainVars, linkVars>>

(* Seeded fault: a listener that already accepts is not aborted. *)
AbortedWhileRegistering(p) == listener[p] \in {"spawned", "ack", "reject"}

(* proxy_tasks holds the handle of every task spawned; abort on one that   *)
(* has returned does nothing.                                              *)
Aborted(p) == listener[p] \notin {"none", "dead"}

(* The abort takes effect at an await of the task; the listening socket    *)
(* and a connection that waits for its permit are dropped with it.         *)
LAbort(p) ==
    LET c == <<p, next_conn_id[p] - 1>>
        waiting == listener[p] = "permit"
    IN
    /\ smain = "ended"
    /\ Aborted(p)
    /\ listener' = [listener EXCEPT ![p] = "dead"]
    /\ eread' = IF waiting THEN [eread EXCEPT ![c] = "done"] ELSE eread
    /\ ewrite' = IF waiting THEN [ewrite EXCEPT ![c] = "done"] ELSE ewrite
    /\ UNCHANGED <<lentry, next_conn_id, routing, to_remote, echunk, eclosed, eout,
                   sMainVars, linkVars>>

-----------------------------------------------------------------------------
(* The read task of an external connection.                                *)

ERead(c) ==
    /\ eread[c] = "read"
    /\ ~eclosed[c]
    /\ echunk[c] < MaxChunks
    /\ echunk' = [echunk EXCEPT ![c] = @ + 1]
    /\ eread' = [eread EXCEPT ![c] = "send"]
    /\ UNCHANGED <<routing, ewrite, to_remote, eclosed, eout, sMainVars,
                   listenVars, linkVars>>

ExternalChunk(c) == [key |-> c, inst |-> NoInst, n |-> echunk[c]]

(* Seeded fault: the chunk stays in the buffer and is sent again. *)
ESendKeepsChunk(c) ==
    /\ eread[c] = "send"
    /\ ToClient(new_data_frame(ExternalChunk(c), c))
    /\ UNCHANGED <<extVars, sMainVars, listenVars>>

ESend(c) ==
    /\ eread[c] = "send"
    /\ ToClient(new_data_frame(ExternalChunk(c), c))
    /\ eread' = [eread EXCEPT ![c] = "read"]
    /\ UNCHANGED <<routing, ewrite, to_remote, echunk, eclosed, eout, sMainVars, listenVars>>

(* Seeded fault: the route is not removed. *)
EReadEndsKeepsRoute(c) ==
    /\ \/ eread[c] = "read" /\ eclosed[c]
       \/ eread[c] = "send" /\ swriter = "done"
    /\ eread' = [eread EXCEPT ![c] = "done"]
    /\ UNCHANGED <<routing, ewrite, to_remote, echunk, eclosed, eout, sMainVars,
                   listenVars, linkVars>>

(* End of stream, a read error, or a tx_channel that is closed. *)
EReadEnds(c) ==
    /\ \/ eread[c] = "read" /\ eclosed[c]
       \/ eread[c] = "send" /\ swriter = "done"
    /\ eread' = [eread EXCEPT ![c] = "done"]
    /\ routing' = routing \ {c}
    /\ UNCHANGED <<ewrite, to_remote, echunk, eclosed, eout, sMainVars,
                   listenVars, linkVars>>

(* The write task of an external connection. *)
EWrite(c) ==
    /\ ewrite[c] = "run"
    /\ to_remote[c] # <<>>
    /\ eout' = [eout EXCEPT ![c] = Append(@, Head(to_remote[c]))]
    /\ to_remote' = [to_remote EXCEPT ![c] = Tail(@)]
    /\ UNCHANGED <<routing, eread, ewrite, echunk, eclosed, sMainVars,
                   listenVars, linkVars>>

(* The task ends on a write error, and when its channel is drained and no  *)
(* sender is left: neither in the routing table nor in the main loop.      *)
EWriteEnds(c) ==
    /\ ewrite[c] = "run"
    /\ \/ to_remote[c] # <<>> /\ eclosed[c]
       \/ /\ to_remote[c] = <<>>
          /\ c \notin routing
          /\ ~(smain = "route" /\ spend.key = c)
    /\ ewrite' = [ewrite EXCEPT ![c] = "done"]
    /\ to_remote' = [to_remote EXCEPT ![c] = <<>>]
    /\ UNCHANGED <<routing, eread, echunk, eclosed, eout, sMainVars,
                   listenVars, linkVars>>

(* The external user closes its side or resets the connection.  After a    *)
(* half-close it may still read, so a later write may succeed or fail.     *)
EClose(c) ==
    /\ "extclose" \in Faults
    /\ eread[c] \in {"wait", "read", "send"}
    /\ ~eclosed[c]
    /\ eclosed' = [eclosed EXCEPT ![c] = TRUE]
    /\ UNCHANGED <<routing, eread, ewrite, to_remote, echunk, eout, sMainVars,
                   listenVars, linkVars>>

-----------------------------------------------------------------------------
(* The steps of each task, apart from what its environment decides: when a *)
(* user connects, sends or closes.                                         *)
MainLoopStep ==
    \/ SRegister \/ SRegisterOverLimit \/ SPing \/ SIgnore \/ SData
    \/ SRoute \/ SRouteError \/ SSend \/ SStop

ServerWriterStep == SWriterEnds \/ SWriterFails

ListenerStep(p) ==
    LBind(p) \/ LBindFails(p) \/ LAck(p) \/ LReject(p) \/ LPermit(p) \/ LAbort(p)

ExternalReadStep(c)  == ESend(c) \/ EReadEnds(c)
ExternalWriteStep(c) == EWrite(c) \/ EWriteEnds(c)

ServerNext ==
    \/ MainLoopStep
    \/ ServerWriterStep
    \/ \E p \in ProxyId : ListenerStep(p) \/ LAccept(p)
    \/ \E c \in Key : \/ ExternalReadStep(c) \/ ExternalWriteStep(c)
                       \/ ERead(c) \/ EClose(c)

-----------------------------------------------------------------------------
(* While the session is up a user has a route exactly as long as its read  *)
(* task lives or waits for its permit: no route is left behind, and no     *)
(* answer lacks one before the user has closed.  A user who has only shut  *)
(* down its sending side loses the route with the read task, although it   *)
(* could still read.                                                       *)
RouteWhileReading ==
    smain # "ended" => routing = {c \in Key : eread[c] \in {"wait", "read", "send"}}
=============================================================================
