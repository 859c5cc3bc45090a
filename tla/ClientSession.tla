---------------------------- MODULE ClientSession ----------------------------
(***************************************************************************)
(* One session on the client: run_proxy (rfrp_client/src/run_proxy.rs)     *)
(* after the handshake, and the read and write task of every connection    *)
(* get_or_create_internal_conn opens, with the internal services as their  *)
(* environment.                                                            *)
(*                                                                         *)
(* A step runs a task from one await to the next.  The main task is at     *)
(* "register" and "await" in phase 1, at "read" in the select! of phase 2, *)
(* at "connect" and "deliver" while it waits for the service or for room   *)
(* in its channel, and "ended" once run_proxy has returned.                *)
(***************************************************************************)
EXTENDS Link

(* An echo service takes the next chunk only once the client has taken the *)
(* answer to the previous one; any other service always takes what it is   *)
(* sent and answers when it likes.                                         *)
CONSTANT Echo

ASSUME ClientAssumption == Echo \in BOOLEAN

VARIABLES
    cmain,          \* where the main task is
    cpend,          \* the Data frame it is forwarding
    csender,        \* the sender it delivers that frame with, or NoInst
    creg,           \* the entry of client_proxy it registers
    proxy_configs,  \* entry recorded for each proxy_id, 0 for none
    proxy_conns,    \* connection in the map for each key, NoInst for none
    cached_conns,   \* proxy whose map is cached, or NoProxy
    ninst,          \* connections opened so far
    ikey,           \* key each connection was opened for
    ient,           \* entry whose service each connection goes to
    iread,          \* read task of each connection
    iwrite,         \* write task of each connection
    to_internal,    \* channel between the main task and that write task
    ichunk,         \* chunks the read task has taken from the service
    iclosed,        \* the service has closed or reset the connection
    igot            \* chunks the service has received

cMainVars  == <<cmain, cpend, csender, creg, proxy_configs, cached_conns>>
instVars   == <<ninst, ikey, ient, iread, iwrite, to_internal, ichunk, iclosed, igot>>
clientVars == <<cMainVars, proxy_conns, instVars>>

NoData == [type |-> "None"]

ClientTypeOK ==
    /\ cmain \in {"register", "await", "read", "connect", "deliver", "ended"}
    /\ cpend \in DataFrames \cup {NoData}
    /\ cmain \in {"connect", "deliver"} => cpend \in DataFrames
    /\ csender \in 0..MaxInst
    /\ cmain = "deliver" => csender \in Inst
    /\ creg \in Entry
    /\ proxy_configs \in [ProxyId -> Entry \cup {0}]
    /\ proxy_conns \in [Key -> 0..MaxInst]
    /\ cached_conns \in ProxyId \cup {NoProxy}
    /\ ninst \in 0..MaxInst
    /\ ikey \in [Inst -> Key \cup {<<>>}]
    /\ ient \in [Inst -> Entry \cup {0}]
    /\ iread \in [Inst -> {"none", "read", "send", "done"}]
    /\ iwrite \in [Inst -> {"none", "run", "done"}]
    /\ \A k \in Inst : iread[k] # "none" => ikey[k] \in Key
    /\ to_internal \in [Inst -> Seq(Payload)]
    /\ ichunk \in [Inst -> 0..MaxChunks]
    /\ \A k \in Inst : iread[k] = "send" => ichunk[k] > 0
    /\ iclosed \in [Inst -> BOOLEAN]
    /\ igot \in [Inst -> Seq(Payload)]

ClientInit ==
    /\ cmain = "register"
    /\ cpend = NoData
    /\ csender = NoInst
    /\ creg = 1
    /\ proxy_configs = [p \in ProxyId |-> 0]
    /\ proxy_conns = [c \in Key |-> NoInst]
    /\ cached_conns = NoProxy
    /\ ninst = 0
    /\ ikey = [k \in Inst |-> <<>>]
    /\ ient = [k \in Inst |-> 0]
    /\ iread = [k \in Inst |-> "none"]
    /\ iwrite = [k \in Inst |-> "none"]
    /\ to_internal = [k \in Inst |-> <<>>]
    /\ ichunk = [k \in Inst |-> 0]
    /\ iclosed = [k \in Inst |-> FALSE]
    /\ igot = [k \in Inst |-> <<>>]

-----------------------------------------------------------------------------
(* Phase 1: one Register, one answer, then the next entry.                 *)

CRegister ==
    /\ cmain = "register"
    /\ ToServer(RegisterFrame(creg))
    /\ cmain' = "await"
    /\ UNCHANGED <<cpend, csender, creg, proxy_configs, cached_conns,
                   proxy_conns, instVars>>

(* The entry recorded is the one being registered, whatever the answer     *)
(* says it is about.                                                       *)
CRegistered ==
    /\ cmain = "await"
    /\ ClientReads("RegisterAck")
    /\ Head(s2c).success
    /\ proxy_configs' = [proxy_configs EXCEPT ![Head(s2c).proxy_id] = creg]
    /\ IF creg < ProxyCount
       THEN cmain' = "register" /\ creg' = creg + 1
       ELSE cmain' = "read" /\ UNCHANGED creg
    /\ UNCHANGED <<cpend, csender, cached_conns, proxy_conns, instVars>>

(* A rejection, and any frame that is not a RegisterAck. *)
UnwantedAnswer ==
    /\ ~cut
    /\ s2c # <<>>
    /\ ~(Head(s2c).type = "RegisterAck" /\ Head(s2c).success)

(* Every early return of phase 1.  tx_to_server is dropped, so the write   *)
(* task sends what is queued and ends.                                     *)
CReturn ==
    /\ \/ cmain = "register" /\ cwriter = "done"
       \/ cmain = "await" /\ (UnwantedAnswer \/ ClientReadsEnd \/ ClientSilent)
    /\ cmain' = "ended"
    /\ cwriter' = "done"
    /\ creader' = FALSE
    /\ UNCHANGED <<cpend, csender, creg, proxy_configs, cached_conns,
                   proxy_conns, instVars, s2c, c2s, swriter, sreader, cut>>

-----------------------------------------------------------------------------
(* Phase 2: the forwarding loop.                                           *)

(* Seeded fault: the cached map is used without comparing its proxy_id. *)
ConnTableStale(pid) == IF cached_conns # NoProxy THEN cached_conns ELSE pid

(* The map of a proxy: the cached one if it is for that proxy, else the    *)
(* one in the outer map, which is created when it is missing.              *)
ConnTable(pid) == IF cached_conns = pid THEN cached_conns ELSE pid

(* Seeded fault: data for an unknown proxy_id is forwarded. *)
AnyProxy(pid) == TRUE

Registered(pid) == proxy_configs[pid] # 0

(* The fast path of get_or_create_internal_conn clones the sender; the     *)
(* send is a later step.                                                   *)
CData ==
    /\ cmain = "read"
    /\ ClientReads("Data")
    /\ LET key  == Head(s2c).key
           conn == proxy_conns[<<ConnTable(key[1]), key[2]>>]
       IN  IF Registered(key[1])
           THEN /\ cached_conns' = key[1]
                /\ cpend' = Head(s2c)
                /\ csender' = conn
                /\ cmain' = IF conn = NoInst THEN "connect" ELSE "deliver"
           ELSE UNCHANGED <<cmain, cpend, csender, cached_conns>>
    /\ UNCHANGED <<creg, proxy_configs, proxy_conns, instVars>>

(* The slow path.  The Occupied arm of entry() is never taken, which       *)
(* ConnectIsVacant states.                                                 *)
CConnect ==
    LET k == ninst + 1 IN
    /\ cmain = "connect"
    /\ ninst < MaxInst
    /\ ninst' = k
    /\ proxy_conns' = [proxy_conns EXCEPT ![cpend.key] = k]
    /\ ikey' = [ikey EXCEPT ![k] = cpend.key]
    /\ ient' = [ient EXCEPT ![k] = proxy_configs[cpend.key[1]]]
    /\ iread' = [iread EXCEPT ![k] = "read"]
    /\ iwrite' = [iwrite EXCEPT ![k] = "run"]
    /\ csender' = k
    /\ cmain' = "deliver"
    /\ UNCHANGED <<cpend, creg, proxy_configs, cached_conns, to_internal,
                   ichunk, iclosed, igot, linkVars>>

(* The chunk is dropped and the loop goes on. *)
CConnectFails ==
    /\ cmain = "connect"
    /\ "dial" \in Faults
    /\ cmain' = "read"
    /\ cpend' = NoData
    /\ UNCHANGED <<csender, creg, proxy_configs, cached_conns, proxy_conns,
                   instVars, linkVars>>

(* Seeded fault: try_send, which drops the chunk when the channel is full. *)
CDeliverOrDrop ==
    /\ cmain = "deliver"
    /\ iwrite[csender] = "run"
    /\ to_internal' = IF Len(to_internal[csender]) < ConnCap
                      THEN [to_internal EXCEPT ![csender] = Append(@, cpend.data)]
                      ELSE to_internal
    /\ cmain' = "read"
    /\ cpend' = NoData
    /\ csender' = NoInst
    /\ UNCHANGED <<creg, proxy_configs, cached_conns, proxy_conns, ninst, ikey,
                   ient, iread, iwrite, ichunk, iclosed, igot, linkVars>>

CDeliver ==
    /\ cmain = "deliver"
    /\ iwrite[csender] = "run"
    /\ Len(to_internal[csender]) < ConnCap
    /\ to_internal' = [to_internal EXCEPT ![csender] = Append(@, cpend.data)]
    /\ cmain' = "read"
    /\ cpend' = NoData
    /\ csender' = NoInst
    /\ UNCHANGED <<creg, proxy_configs, cached_conns, proxy_conns, ninst, ikey,
                   ient, iread, iwrite, ichunk, iclosed, igot, linkVars>>

(* The receiver is gone: the chunk is dropped and the entry removed. *)
CDeliverError ==
    /\ cmain = "deliver"
    /\ iwrite[csender] = "done"
    /\ proxy_conns' = [proxy_conns EXCEPT ![cpend.key] = NoInst]
    /\ cmain' = "read"
    /\ cpend' = NoData
    /\ csender' = NoInst
    /\ UNCHANGED <<creg, proxy_configs, cached_conns, instVars, linkVars>>

(* A Control, Register or RegisterAck frame is logged and ignored. *)
CIgnore ==
    /\ cmain = "read"
    /\ ClientReads("Control") \/ ClientReads("Register") \/ ClientReads("RegisterAck")
    /\ UNCHANGED clientVars

(* The heartbeat task, which runs during phase 2. *)
CPing ==
    /\ "ping" \in Faults
    /\ cmain \in {"read", "connect", "deliver"}
    /\ ToServer(new_ping_frame)
    /\ UNCHANGED clientVars

(* The loop is left on end of stream, on a frame that does not decode and  *)
(* on a keepalive timeout.  The write task is aborted: of the frames in    *)
(* the pipe only those it had already written reach the server.  The tasks *)
(* of the internal connections are left running.                           *)
CStop ==
    /\ cmain = "read"
    /\ ClientReadsEnd \/ ClientSilent
    /\ cmain' = "ended"
    /\ cwriter' = "done"
    /\ \E written \in 0..Len(c2s) : c2s' = SubSeq(c2s, 1, written)
    /\ creader' = FALSE
    /\ cached_conns' = NoProxy
    /\ UNCHANGED <<cpend, csender, creg, proxy_configs, proxy_conns, instVars,
                   s2c, swriter, sreader, cut>>

CWriterFails == ClientWriteFails /\ UNCHANGED clientVars

-----------------------------------------------------------------------------
(* The read task of a connection to an internal service.                   *)

SvcHasReply(k) == ichunk[k] < (IF Echo THEN Len(igot[k]) ELSE MaxChunks)

IRead(k) ==
    /\ iread[k] = "read"
    /\ ~iclosed[k]
    /\ ichunk[k] < MaxChunks
    /\ SvcHasReply(k)
    /\ ichunk' = [ichunk EXCEPT ![k] = @ + 1]
    /\ iread' = [iread EXCEPT ![k] = "send"]
    /\ UNCHANGED <<ninst, ikey, ient, iwrite, to_internal, iclosed, igot,
                   proxy_conns, cMainVars, linkVars>>

ServiceChunk(k) == [key |-> ikey[k], inst |-> k, n |-> ichunk[k]]

ISend(k) ==
    /\ iread[k] = "send"
    /\ ToServer(new_data_frame(ServiceChunk(k), ikey[k]))
    /\ iread' = [iread EXCEPT ![k] = "read"]
    /\ UNCHANGED <<ninst, ikey, ient, iwrite, to_internal, ichunk, iclosed,
                   igot, proxy_conns, cMainVars>>

(* Seeded fault: the entry is not removed. *)
IReadEndsKeepsEntry(k) ==
    /\ \/ iread[k] = "read" /\ iclosed[k]
       \/ iread[k] = "send" /\ cwriter = "done"
    /\ iread' = [iread EXCEPT ![k] = "done"]
    /\ UNCHANGED <<ninst, ikey, ient, iwrite, to_internal, ichunk, iclosed,
                   igot, proxy_conns, cMainVars, linkVars>>

(* End of stream, a read error, or a tx_to_server that is closed.  The     *)
(* clean-up removes whatever the map holds for conn_id.                    *)
IReadEnds(k) ==
    /\ \/ iread[k] = "read" /\ iclosed[k]
       \/ iread[k] = "send" /\ cwriter = "done"
    /\ iread' = [iread EXCEPT ![k] = "done"]
    /\ proxy_conns' = [proxy_conns EXCEPT ![ikey[k]] = NoInst]
    /\ UNCHANGED <<ninst, ikey, ient, iwrite, to_internal, ichunk, iclosed,
                   igot, cMainVars, linkVars>>

(* The write task of a connection to an internal service.  Bytes written   *)
(* to a connection the service has closed may still be accepted by the     *)
(* kernel; nobody receives them.                                           *)
SvcTakes(k) == Echo => iclosed[k] \/ ichunk[k] = Len(igot[k])

IWrite(k) ==
    /\ iwrite[k] = "run"
    /\ to_internal[k] # <<>>
    /\ SvcTakes(k)
    /\ igot' = IF iclosed[k] THEN igot
               ELSE [igot EXCEPT ![k] = Append(@, Head(to_internal[k]))]
    /\ to_internal' = [to_internal EXCEPT ![k] = Tail(@)]
    /\ UNCHANGED <<ninst, ikey, ient, iread, iwrite, ichunk, iclosed,
                   proxy_conns, cMainVars, linkVars>>

(* The task ends on a write error, and when its channel is drained and no  *)
(* sender is left: neither in the map nor in the main task.                *)
IWriteEnds(k) ==
    /\ iwrite[k] = "run"
    /\ \/ to_internal[k] # <<>> /\ iclosed[k]
       \/ to_internal[k] = <<>> /\ proxy_conns[ikey[k]] # k /\ csender # k
    /\ iwrite' = [iwrite EXCEPT ![k] = "done"]
    /\ to_internal' = [to_internal EXCEPT ![k] = <<>>]
    /\ UNCHANGED <<ninst, ikey, ient, iread, ichunk, iclosed, igot,
                   proxy_conns, cMainVars, linkVars>>

IClose(k) ==
    /\ "svcclose" \in Faults
    /\ iread[k] \in {"read", "send"}
    /\ ~iclosed[k]
    /\ iclosed' = [iclosed EXCEPT ![k] = TRUE]
    /\ UNCHANGED <<ninst, ikey, ient, iread, iwrite, to_internal, ichunk, igot,
                   proxy_conns, cMainVars, linkVars>>

-----------------------------------------------------------------------------
(* The steps of each task, apart from what its environment decides: when   *)
(* the heartbeat fires and when a service answers or closes.               *)
ClientMainStep ==
    \/ CRegister \/ CRegistered \/ CReturn
    \/ CData \/ CConnect \/ CConnectFails \/ CDeliver \/ CDeliverError
    \/ CIgnore \/ CStop

InternalReadStep(k)  == ISend(k) \/ IReadEnds(k)
InternalWriteStep(k) == IWrite(k) \/ IWriteEnds(k)

ClientNext ==
    \/ ClientMainStep
    \/ CWriterFails
    \/ CPing
    \/ \E k \in Inst : \/ InternalReadStep(k) \/ InternalWriteStep(k)
                        \/ IRead(k) \/ IClose(k)

-----------------------------------------------------------------------------
(* An entry of the client's maps belongs to a connection opened for that   *)
(* key whose read task is alive, so that somebody will remove it.          *)
EntryHasReader ==
    \A c \in Key : LET k == proxy_conns[c] IN
        k # NoInst => ikey[k] = c /\ iread[k] \in {"read", "send"}

(* When the client dials a service the map has no entry for the key: the   *)
(* branch "if another task beat us here, use theirs" is dead code.         *)
ConnectIsVacant == cmain = "connect" => proxy_conns[cpend.key] = NoInst

(* A connection is only ever opened for a proxy the client has registered, *)
(* and to the service of the entry recorded for it.                        *)
DialsRegisteredOnly ==
    \A k \in Inst : iread[k] # "none" =>
        ient[k] # 0 /\ ient[k] = proxy_configs[ikey[k][1]]
=============================================================================
