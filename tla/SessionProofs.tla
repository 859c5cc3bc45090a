--------------------------- MODULE SessionProofs ----------------------------
(***************************************************************************)
(* The lemmas the proofs about whole specifications share: what frames,    *)
(* queues and the link are, that every step of the server session and of   *)
(* the client session keeps its types, and how the client's maps relate to *)
(* its connections.  They speak of single steps, so they serve the tunnel  *)
(* and either session on its own against any peer.                         *)
(***************************************************************************)
EXTENDS ServerSession, ClientSession, TLAPS

(* Taking the head off a non-empty queue leaves a shorter queue. *)
LEMMA DequeueType ==
    ASSUME NEW S, NEW q \in Seq(S), q # <<>>
    PROVE  /\ Head(q) \in S
           /\ Tail(q) \in Seq(S)
           /\ Len(Tail(q)) = Len(q) - 1
           /\ Len(q) > 0
  OBVIOUS

(* Appending to a queue. *)
LEMMA EnqueueType ==
    ASSUME NEW S, NEW q \in Seq(S), NEW x \in S
    PROVE  /\ Append(q, x) \in Seq(S)
           /\ Len(Append(q, x)) = Len(q) + 1
  OBVIOUS

(* The type field of a frame decides which fields it has. *)
LEMMA FrameKinds ==
    ASSUME NEW f \in Frame
    PROVE  /\ f.type = "Register" => f \in RegisterFrames
           /\ f.type = "RegisterAck" => f \in RegisterAckFrames
           /\ f.type = "Control" => f \in ControlFrames
           /\ f.type = "Data" => f \in DataFrames
  BY DEF Frame, RegisterFrames, RegisterAckFrames, ControlFrames, DataFrames, Undecodable

(* The constructors of frame_types.rs build frames. *)
LEMMA ConstructorsType ==
    /\ \A e \in Entry : RegisterFrame(e) \in Frame
    /\ \A e \in Entry, s \in BOOLEAN, p \in ProxyId : new_reg_ack_frame(e, s, p) \in Frame
    /\ new_ping_frame \in Frame
    /\ new_pong_frame \in Frame
    /\ \A d \in Payload, c \in Key : new_data_frame(d, c) \in Frame
  BY DEF Frame, RegisterFrames, RegisterAckFrames, ControlFrames, DataFrames,
         RegisterFrame, new_reg_ack_frame, new_ping_frame, new_pong_frame, new_data_frame

(* Every operation of the link keeps its type. *)
LEMMA LinkOps ==
    ASSUME LinkTypeOK
    PROVE  /\ \A f \in Frame : ToClient(f) => LinkTypeOK'
           /\ \A f \in Frame : ToServer(f) => LinkTypeOK'
           /\ \A t : ServerReads(t) => LinkTypeOK' /\ c2s # <<>> /\ Head(c2s) \in Frame
                                       /\ Head(c2s).type = t
           /\ \A t : ClientReads(t) => LinkTypeOK' /\ s2c # <<>> /\ Head(s2c) \in Frame
                                       /\ Head(s2c).type = t
           /\ ServerWriteFails => LinkTypeOK'
           /\ ClientWriteFails => LinkTypeOK'
           /\ NetworkCut => LinkTypeOK'
           /\ UNCHANGED linkVars => LinkTypeOK'
<1> USE LinkAssumption
<1>1. \A f \in Frame : ToClient(f) => LinkTypeOK'
  BY EnqueueType DEF ToClient, LinkTypeOK
<1>2. \A f \in Frame : ToServer(f) => LinkTypeOK'
  BY EnqueueType DEF ToServer, LinkTypeOK
<1>3. \A t : ServerReads(t) => LinkTypeOK' /\ c2s # <<>> /\ Head(c2s) \in Frame
                                /\ Head(c2s).type = t
  BY DequeueType DEF ServerReads, LinkTypeOK
<1>4. \A t : ClientReads(t) => LinkTypeOK' /\ s2c # <<>> /\ Head(s2c) \in Frame
                                /\ Head(s2c).type = t
  BY DequeueType DEF ClientReads, LinkTypeOK
<1>5. ServerWriteFails => LinkTypeOK'
  BY DEF ServerWriteFails, LinkTypeOK
<1>6. ClientWriteFails => LinkTypeOK'
  BY DEF ClientWriteFails, LinkTypeOK
<1>7. NetworkCut => LinkTypeOK'
  BY DEF NetworkCut, LinkTypeOK
<1>8. UNCHANGED linkVars => LinkTypeOK'
  BY DEF linkVars, LinkTypeOK
<1> QED BY <1>1, <1>2, <1>3, <1>4, <1>5, <1>6, <1>7, <1>8

-----------------------------------------------------------------------------
(* Every step of the server session keeps its types.                       *)

(* A rejection carries proxy_id 0, which is in range. *)
LEMMA ZeroProxy == 0 \in ProxyId
  BY FramesAssumption DEF ProxyId

(* The payload of a chunk read from a user. *)
LEMMA ExternalChunkType ==
    ASSUME ServerTypeOK, NEW c \in Key, eread[c] = "send"
    PROVE  ExternalChunk(c) \in Payload
  BY FramesAssumption DEF ExternalChunk, Payload, ServerTypeOK, NoInst

(* The main loop and the write task. *)
LEMMA MainLoopType ==
    ASSUME LinkTypeOK, ServerTypeOK, MainLoopStep \/ ServerWriterStep
    PROVE  LinkTypeOK' /\ ServerTypeOK'
<1> USE FramesAssumption DEF sMainVars, listenVars, extVars, serverVars
<1>1. CASE SRegister
  <2>1. LinkTypeOK' /\ Head(c2s) \in RegisterFrames
    BY <1>1, LinkOps, FrameKinds DEF SRegister
  <2>2. next_proxy_id \in ProxyId /\ Head(c2s).client \in Entry
    BY <1>1, <2>1 DEF SRegister, ServerTypeOK, ProxyId, RegisterFrames
  <2>3. /\ proxy_routing' \subseteq ProxyId
        /\ next_proxy_id' \in 0..MaxProxies
    BY <1>1, <2>2 DEF SRegister, ServerTypeOK, ProxyId
  <2>4. /\ listener' = [listener EXCEPT ![next_proxy_id] = "spawned"]
        /\ lentry' = [lentry EXCEPT ![next_proxy_id] = Head(c2s).client]
        /\ UNCHANGED <<smain, spend, cached_routing, next_conn_id, extVars>>
    BY <1>1 DEF SRegister
  <2>5. /\ listener' \in [ProxyId -> {"none", "spawned", "ack", "reject", "accept",
                                      "permit", "dead"}]
        /\ lentry' \in [ProxyId -> Entry \cup {0}]
    BY <2>2, <2>4 DEF ServerTypeOK
  <2>6. \A p \in ProxyId : listener'[p] # "none" => lentry'[p] \in Entry
    BY <2>2, <2>4 DEF ServerTypeOK
  <2> QED BY <2>1, <2>3, <2>4, <2>5, <2>6 DEF ServerTypeOK
<1>2. CASE SRegisterOverLimit
  <2>1. LinkTypeOK' /\ Head(c2s) \in RegisterFrames
    BY <1>2, LinkOps, FrameKinds DEF SRegisterOverLimit
  <2>2. new_reg_ack_frame(Head(c2s).client, FALSE, 0) \in RegisterAckFrames
    BY <2>1, ZeroProxy DEF RegisterFrames, RegisterAckFrames, new_reg_ack_frame
  <2> QED BY <1>2, <2>1, <2>2 DEF SRegisterOverLimit, ServerTypeOK, Frame
<1>3. CASE SPing
  <2>1. new_pong_frame \in ControlFrames
    BY DEF new_pong_frame, ControlFrames
  <2> QED BY <1>3, <2>1, LinkOps DEF SPing, ServerTypeOK, Frame
<1>4. CASE SIgnore
  BY <1>4, LinkOps DEF SIgnore, ServerTypeOK
<1>5. CASE SData
  <2>1. LinkTypeOK' /\ Head(c2s) \in DataFrames
    BY <1>5, LinkOps, FrameKinds DEF SData
  <2> DEFINE key == Head(c2s).key
             table == RoutingTable(key[1])
  <2>2. key \in Key /\ key[1] \in ProxyId /\ key[2] \in ConnId
    BY <2>1 DEF DataFrames, Key
  <2>3. table # NoProxy => table \in ProxyId
    BY <2>2 DEF RoutingTable, ServerTypeOK
  <2>4. table # NoProxy => new_data_frame(Head(c2s).data, <<table, key[2]>>) \in DataFrames
    BY <2>1, <2>2, <2>3 DEF DataFrames, Key, new_data_frame
  <2> HIDE DEF table
  <2>5. DataFrames \subseteq Frame
    BY DEF Frame
  <2> QED BY <1>5, <2>1, <2>2, <2>4, <2>5 DEF SData, ServerTypeOK, table
<1>6. CASE SRoute
  <2>1. spend \in DataFrames /\ spend.key \in Key /\ spend.data \in Payload
    BY <1>6 DEF SRoute, ServerTypeOK, DataFrames
  <2>2. Append(to_remote[spend.key], spend.data) \in Seq(Payload)
    BY <2>1, EnqueueType DEF ServerTypeOK
  <2> QED BY <1>6, <2>1, <2>2, LinkOps DEF SRoute, ServerTypeOK
<1>7. CASE SRouteError
  BY <1>7, LinkOps DEF SRouteError, ServerTypeOK
<1>8. CASE SSend
  <2>1. spend \in Frame
    BY <1>8 DEF SSend, ServerTypeOK, Frame
  <2> QED BY <1>8, <2>1, LinkOps DEF SSend, ServerTypeOK
<1>9. CASE SStop
  BY <1>9 DEF SStop, ServerTypeOK, LinkTypeOK
<1>10. CASE SWriterEnds
  BY <1>10 DEF SWriterEnds, ServerTypeOK, LinkTypeOK
<1>11. CASE SWriterFails
  BY <1>11, LinkOps DEF SWriterFails, ServerTypeOK
<1> QED BY <1>1, <1>2, <1>3, <1>4, <1>5, <1>6, <1>7, <1>8, <1>9, <1>10, <1>11
        DEF MainLoopStep, ServerWriterStep

(* The listener tasks. *)
LEMMA ListenerType ==
    ASSUME LinkTypeOK, ServerTypeOK, NEW p \in ProxyId, ListenerStep(p) \/ LAccept(p)
    PROVE  LinkTypeOK' /\ ServerTypeOK'
<1> USE FramesAssumption DEF sMainVars, listenVars, extVars, serverVars
<1>1. CASE LBind(p)
  BY <1>1, LinkOps DEF LBind, ServerTypeOK
<1>2. CASE LBindFails(p)
  BY <1>2, LinkOps DEF LBindFails, ServerTypeOK
<1>3. CASE LAck(p)
  <2>1. new_reg_ack_frame(lentry[p], TRUE, p) \in Frame
    BY <1>3, ConstructorsType DEF LAck, ServerTypeOK
  <2> QED BY <1>3, <2>1, LinkOps DEF LAck, ServerTypeOK
<1>4. CASE LReject(p)
  <2>1. new_reg_ack_frame(lentry[p], FALSE, 0) \in Frame
    BY <1>4, ZeroProxy, ConstructorsType DEF LReject, ServerTypeOK
  <2> QED BY <1>4, <2>1, LinkOps DEF LReject, ServerTypeOK
<1>5. CASE LAccept(p)
  <2> DEFINE c == <<p, next_conn_id[p]>>
  <2>1. c \in Key
    BY <1>5 DEF LAccept, ServerTypeOK, Key, ConnId
  <2>2. /\ listener' = [listener EXCEPT ![p] = "permit"]
        /\ next_conn_id' = [next_conn_id EXCEPT ![p] = next_conn_id[p] + 1]
        /\ next_conn_id[p] < MaxConns
        /\ routing' = routing \cup {c}
        /\ eread' = [eread EXCEPT ![c] = "wait"]
        /\ listener[p] = "accept"
        /\ UNCHANGED <<lentry, ewrite, to_remote, echunk, eclosed, eout, sMainVars, linkVars>>
    BY <1>5 DEF LAccept
  <2> HIDE DEF c
  <2>3. /\ listener' \in [ProxyId -> {"none", "spawned", "ack", "reject", "accept",
                                      "permit", "dead"}]
        /\ \A q \in ProxyId : listener'[q] # "none" => lentry'[q] \in Entry
    BY <2>2 DEF ServerTypeOK
  <2>4. next_conn_id' \in [ProxyId -> 0..MaxConns]
    BY <2>2 DEF ServerTypeOK
  <2>5. /\ eread' \in [Key -> {"none", "wait", "read", "send", "done"}]
        /\ \A d \in Key : eread'[d] = "send" => echunk'[d] > 0
        /\ routing' \subseteq Key
    BY <2>1, <2>2 DEF ServerTypeOK
  <2>6. LinkTypeOK'
    BY <2>2, LinkOps
  <2> QED BY <2>2, <2>3, <2>4, <2>5, <2>6 DEF ServerTypeOK
<1>6. CASE LPermit(p)
  <2> DEFINE c == <<p, next_conn_id[p] - 1>>
  <2>1. /\ listener' = [listener EXCEPT ![p] = "accept"]
        /\ listener[p] = "permit"
        /\ eread' = [eread EXCEPT ![c] = "read"]
        /\ ewrite' = [ewrite EXCEPT ![c] = "run"]
        /\ UNCHANGED <<lentry, next_conn_id, routing, to_remote, echunk, eclosed, eout,
                       sMainVars, linkVars>>
    BY <1>6 DEF LPermit
  <2> HIDE DEF c
  <2> QED BY <2>1, LinkOps DEF ServerTypeOK
<1>7. CASE LAbort(p)
  <2> DEFINE c == <<p, next_conn_id[p] - 1>>
  <2>1. /\ listener' = [listener EXCEPT ![p] = "dead"]
        /\ listener[p] # "none"
        /\ eread' = eread \/ eread' = [eread EXCEPT ![c] = "done"]
        /\ ewrite' = ewrite \/ ewrite' = [ewrite EXCEPT ![c] = "done"]
        /\ UNCHANGED <<lentry, next_conn_id, routing, to_remote, echunk, eclosed, eout,
                       sMainVars, linkVars>>
    BY <1>7 DEF LAbort, Aborted
  <2> HIDE DEF c
  <2>2. LinkTypeOK'
    BY <2>1, LinkOps
  <2>3. /\ eread' \in [Key -> {"none", "wait", "read", "send", "done"}]
        /\ \A d \in Key : eread'[d] = "send" => eread[d] = "send"
    <3>1. CASE eread' = eread
      BY <3>1 DEF ServerTypeOK
    <3>2. CASE eread' = [eread EXCEPT ![c] = "done"]
      BY <3>2 DEF ServerTypeOK
    <3> QED BY <2>1, <3>1, <3>2
  <2>4. ewrite' \in [Key -> {"none", "run", "done"}]
    <3>1. ewrite \in [Key -> {"none", "run", "done"}]
      BY DEF ServerTypeOK
    <3> QED BY <2>1, <3>1
  <2>5. /\ listener' \in [ProxyId -> {"none", "spawned", "ack", "reject", "accept",
                                      "permit", "dead"}]
        /\ \A q \in ProxyId : listener'[q] # "none" => lentry[q] \in Entry
    BY <2>1 DEF ServerTypeOK
  <2> QED BY <2>1, <2>2, <2>3, <2>4, <2>5 DEF ServerTypeOK
<1> QED BY <1>1, <1>2, <1>3, <1>4, <1>5, <1>6, <1>7 DEF ListenerStep

(* The tasks of an external connection. *)
LEMMA ExternalType ==
    ASSUME LinkTypeOK, ServerTypeOK, NEW c \in Key,
           ExternalReadStep(c) \/ ExternalWriteStep(c) \/ ERead(c) \/ EClose(c)
    PROVE  LinkTypeOK' /\ ServerTypeOK'
<1> USE FramesAssumption DEF sMainVars, listenVars, extVars, serverVars
<1>1. CASE ERead(c)
  <2>1. LinkTypeOK'
    BY <1>1, LinkOps DEF ERead
  <2> QED BY <1>1, <2>1, SMTT(30) DEF ERead, ServerTypeOK
<1>2. CASE ESend(c)
  <2>1. new_data_frame(ExternalChunk(c), c) \in Frame
    BY <1>2, ExternalChunkType, ConstructorsType DEF ESend
  <2> QED BY <1>2, <2>1, LinkOps DEF ESend, ServerTypeOK
<1>3. CASE EReadEnds(c)
  BY <1>3, LinkOps DEF EReadEnds, ServerTypeOK
<1>4. CASE EWrite(c)
  <2>1. Head(to_remote[c]) \in Payload /\ Tail(to_remote[c]) \in Seq(Payload)
    BY <1>4, DequeueType DEF EWrite, ServerTypeOK
  <2>2. Append(eout[c], Head(to_remote[c])) \in Seq(Payload)
    BY <2>1, EnqueueType DEF ServerTypeOK
  <2> QED BY <1>4, <2>1, <2>2, LinkOps DEF EWrite, ServerTypeOK
<1>5. CASE EWriteEnds(c)
  BY <1>5, LinkOps DEF EWriteEnds, ServerTypeOK
<1>6. CASE EClose(c)
  BY <1>6, LinkOps DEF EClose, ServerTypeOK
<1> QED BY <1>1, <1>2, <1>3, <1>4, <1>5, <1>6 DEF ExternalReadStep, ExternalWriteStep

(* Every step of the server session. *)
LEMMA ServerNextType ==
    ASSUME LinkTypeOK, ServerTypeOK, ServerNext
    PROVE  LinkTypeOK' /\ ServerTypeOK'
  BY MainLoopType, ListenerType, ExternalType DEF ServerNext

-----------------------------------------------------------------------------
(* Every step of the client session keeps its types.                       *)

(* The payload of a chunk read from a service. *)
LEMMA ServiceChunkType ==
    ASSUME ClientTypeOK, NEW k \in Inst, iread[k] = "send"
    PROVE  ServiceChunk(k) \in Payload
  BY FramesAssumption DEF ServiceChunk, Payload, ClientTypeOK, Inst

(* "No connection" is a value the maps may hold. *)
LEMMA NoInstInRange == NoInst \in 0..MaxInst
  BY FramesAssumption DEF NoInst

(* The main task, the heartbeat and the write task. *)
LEMMA ClientMainType ==
    ASSUME LinkTypeOK, ClientTypeOK, ClientMainStep \/ CPing \/ CWriterFails
    PROVE  LinkTypeOK' /\ ClientTypeOK'
<1> USE FramesAssumption DEF cMainVars, instVars, clientVars
<1>1. CASE CRegister
  <2>1. RegisterFrame(creg) \in Frame
    BY ConstructorsType DEF ClientTypeOK
  <2> QED BY <1>1, <2>1, LinkOps DEF CRegister, ClientTypeOK
<1>2. CASE CRegistered
  <2>1. LinkTypeOK' /\ Head(s2c) \in RegisterAckFrames
    BY <1>2, LinkOps, FrameKinds DEF CRegistered
  <2>2. Head(s2c).proxy_id \in ProxyId
    BY <2>1 DEF RegisterAckFrames
  <2>3. creg < ProxyCount => creg + 1 \in Entry
    BY DEF ClientTypeOK, Entry
  <2> QED BY <1>2, <2>1, <2>2, <2>3 DEF CRegistered, ClientTypeOK
<1>3. CASE CReturn
  BY <1>3 DEF CReturn, ClientTypeOK, LinkTypeOK
<1>4. CASE CData
  <2>1. LinkTypeOK' /\ Head(s2c) \in DataFrames
    BY <1>4, LinkOps, FrameKinds DEF CData
  <2> DEFINE key  == Head(s2c).key
             conn == proxy_conns[<<ConnTable(key[1]), key[2]>>]
  <2>2. key \in Key /\ key[1] \in ProxyId /\ key[2] \in ConnId
    BY <2>1 DEF DataFrames, Key
  <2>3. ConnTable(key[1]) = key[1]
    BY DEF ConnTable
  <2>4. conn \in 0..MaxInst
    BY <2>2, <2>3 DEF ClientTypeOK, Key
  <2>5. conn # NoInst => conn \in Inst
    BY <2>4 DEF NoInst, Inst
  <2>6. \/ UNCHANGED <<cmain, cpend, csender, cached_conns>>
        \/ /\ cached_conns' = key[1]
           /\ cpend' = Head(s2c)
           /\ csender' = conn
           /\ cmain' = IF conn = NoInst THEN "connect" ELSE "deliver"
    BY <1>4 DEF CData
  <2>7. UNCHANGED <<creg, proxy_configs, proxy_conns, instVars>>
    BY <1>4 DEF CData
  <2> HIDE DEF key, conn
  <2> QED BY <2>1, <2>2, <2>4, <2>5, <2>6, <2>7 DEF ClientTypeOK
<1>5. CASE CConnect
  <2>1. ninst + 1 \in Inst /\ ninst + 1 \in 0..MaxInst
    BY <1>5 DEF CConnect, ClientTypeOK, Inst
  <2>2. cpend.key \in Key /\ cpend.key[1] \in ProxyId
    BY <1>5 DEF CConnect, ClientTypeOK, DataFrames, Key
  <2>3. proxy_configs[cpend.key[1]] \in Entry \cup {0}
    BY <2>2 DEF ClientTypeOK
  <2> QED BY <1>5, <2>1, <2>2, <2>3, LinkOps DEF CConnect, ClientTypeOK
<1>6. CASE CConnectFails
  BY <1>6, LinkOps DEF CConnectFails, ClientTypeOK
<1>7. CASE CDeliver
  <2>1. csender \in Inst /\ cpend.data \in Payload
    BY <1>7 DEF CDeliver, ClientTypeOK, DataFrames
  <2>2. Append(to_internal[csender], cpend.data) \in Seq(Payload)
    BY <2>1, EnqueueType DEF ClientTypeOK
  <2>3. to_internal' \in [Inst -> Seq(Payload)]
    BY <1>7, <2>1, <2>2 DEF CDeliver, ClientTypeOK
  <2>4. csender' \in 0..MaxInst
    BY <1>7, NoInstInRange DEF CDeliver
  <2> QED BY <1>7, <2>3, <2>4, LinkOps DEF CDeliver, ClientTypeOK
<1>8. CASE CDeliverError
  <2>1. proxy_conns' \in [Key -> 0..MaxInst] /\ csender' \in 0..MaxInst
    BY <1>8, NoInstInRange DEF CDeliverError, ClientTypeOK
  <2> QED BY <1>8, <2>1, LinkOps DEF CDeliverError, ClientTypeOK
<1>9. CASE CIgnore
  BY <1>9, LinkOps DEF CIgnore, ClientTypeOK
<1>10. CASE CStop
  <2>1. PICK written \in 0..Len(c2s) : c2s' = SubSeq(c2s, 1, written)
    BY <1>10 DEF CStop
  <2>2. c2s' \in Seq(Frame) /\ Len(c2s') <= LinkCap
    BY <2>1, LinkAssumption DEF LinkTypeOK
  <2> QED BY <1>10, <2>2 DEF CStop, ClientTypeOK, LinkTypeOK
<1>11. CASE CPing
  BY <1>11, LinkOps, ConstructorsType DEF CPing, ClientTypeOK
<1>12. CASE CWriterFails
  BY <1>12, LinkOps DEF CWriterFails, ClientTypeOK
<1> QED BY <1>1, <1>2, <1>3, <1>4, <1>5, <1>6, <1>7, <1>8, <1>9, <1>10, <1>11, <1>12
        DEF ClientMainStep

(* The tasks of an internal connection. *)
LEMMA InternalType ==
    ASSUME LinkTypeOK, ClientTypeOK, NEW k \in Inst,
           InternalReadStep(k) \/ InternalWriteStep(k) \/ IRead(k) \/ IClose(k)
    PROVE  LinkTypeOK' /\ ClientTypeOK'
<1> USE FramesAssumption DEF cMainVars, instVars, clientVars
<1>1. CASE IRead(k)
  BY <1>1, LinkOps DEF IRead, ClientTypeOK
<1>2. CASE ISend(k)
  <2>1. new_data_frame(ServiceChunk(k), ikey[k]) \in Frame
    BY <1>2, ServiceChunkType, ConstructorsType DEF ISend, ClientTypeOK
  <2> QED BY <1>2, <2>1, LinkOps DEF ISend, ClientTypeOK
<1>3. CASE IReadEnds(k)
  BY <1>3, LinkOps DEF IReadEnds, ClientTypeOK, NoInst
<1>4. CASE IWrite(k)
  <2>1. Head(to_internal[k]) \in Payload /\ Tail(to_internal[k]) \in Seq(Payload)
    BY <1>4, DequeueType DEF IWrite, ClientTypeOK
  <2>2. Append(igot[k], Head(to_internal[k])) \in Seq(Payload)
    BY <2>1, EnqueueType DEF ClientTypeOK
  <2> QED BY <1>4, <2>1, <2>2, LinkOps DEF IWrite, ClientTypeOK
<1>5. CASE IWriteEnds(k)
  BY <1>5, LinkOps DEF IWriteEnds, ClientTypeOK
<1>6. CASE IClose(k)
  BY <1>6, LinkOps DEF IClose, ClientTypeOK
<1> QED BY <1>1, <1>2, <1>3, <1>4, <1>5, <1>6 DEF InternalReadStep, InternalWriteStep

(* Every step of the client session. *)
LEMMA ClientNextType ==
    ASSUME LinkTypeOK, ClientTypeOK, ClientNext
    PROVE  LinkTypeOK' /\ ClientTypeOK'
  BY ClientMainType, InternalType DEF ClientNext

-----------------------------------------------------------------------------
(* The inductive invariant behind EntryHasReader and ConnectIsVacant.      *)
(* Connections are numbered in opening order; nothing is known of one that *)
(* is not open; the entry of a key, and the sender in the main task's      *)
(* hand, belong to the newest connection of that key.                      *)
ClientMaps ==
    /\ EntryHasReader
    /\ ConnectIsVacant
    /\ \A k \in Inst : iread[k] # "none" <=> k <= ninst
    /\ \A k \in Inst : k > ninst =>
          ikey[k] = <<>> /\ to_internal[k] = <<>> /\ igot[k] = <<>>
    /\ \A c \in Key, j \in Inst :
          proxy_conns[c] # NoInst /\ ikey[j] = c => j <= proxy_conns[c]
    /\ cmain = "deliver" =>
          /\ csender <= ninst
          /\ ikey[csender] = cpend.key
          /\ \A j \in Inst : ikey[j] = cpend.key => j <= csender

(* A key is a pair, so the key of an unopened connection is none. *)
LEMMA KeyIsPair == <<>> \notin Key
  BY DEF Key

(* No map has an entry at the start. *)
LEMMA InitMaps == ClientInit => ClientMaps
  BY FramesAssumption, KeyIsPair
     DEF ClientInit, ClientMaps, EntryHasReader, ConnectIsVacant, NoInst, Inst

(* Looking up a Data frame's connection. *)
LEMMA MapsData ==
    ASSUME LinkTypeOK, ClientTypeOK, ClientMaps, CData
    PROVE  ClientMaps'
<1> DEFINE key  == Head(s2c).key
           conn == proxy_conns[key]
<1>1. Head(s2c) \in DataFrames
  BY LinkOps, FrameKinds DEF CData
<1>2. key \in Key /\ key = <<key[1], key[2]>>
  BY <1>1 DEF DataFrames, Key
<1>3. <<ConnTable(key[1]), key[2]>> = key
  BY <1>2 DEF ConnTable
<1>4. \/ UNCHANGED <<cmain, cpend, csender>>
      \/ /\ cpend' = Head(s2c)
         /\ csender' = conn
         /\ cmain' = IF conn = NoInst THEN "connect" ELSE "deliver"
  <2>1. CASE Registered(key[1])
    <3> HIDE DEF key
    <3>1. /\ cpend' = Head(s2c)
          /\ csender' = proxy_conns[<<ConnTable(key[1]), key[2]>>]
          /\ cmain' = IF proxy_conns[<<ConnTable(key[1]), key[2]>>] = NoInst
                      THEN "connect" ELSE "deliver"
      BY <2>1, Zenon DEF CData, key
    <3> QED BY <1>3, <3>1, Zenon
  <2>2. CASE ~Registered(key[1])
    BY <2>2 DEF CData
  <2> QED BY <2>1, <2>2
<1>5. cmain = "read" /\ UNCHANGED <<proxy_conns, instVars>>
  BY DEF CData
<1>6. conn # NoInst => conn \in Inst /\ ikey[conn] = key /\ conn <= ninst
  <2> SUFFICES ASSUME conn # NoInst
               PROVE  conn \in Inst /\ ikey[conn] = key /\ conn <= ninst
    OBVIOUS
  <2>1. conn \in Inst
    BY <1>2, FramesAssumption DEF ClientTypeOK, NoInst, Inst
  <2>2. ikey[conn] = key /\ iread[conn] \in {"read", "send"}
    BY <1>2 DEF ClientMaps, EntryHasReader
  <2>3. conn <= ninst
    BY <2>1, <2>2 DEF ClientMaps
  <2> QED BY <2>1, <2>2, <2>3
<1>7. CASE UNCHANGED <<cmain, cpend, csender>>
  BY <1>5, <1>7 DEF ClientMaps, EntryHasReader, ConnectIsVacant, instVars
<1>8. CASE /\ cpend' = Head(s2c)
           /\ csender' = conn
           /\ cmain' = IF conn = NoInst THEN "connect" ELSE "deliver"
  <2> HIDE DEF conn
  <2>1. cpend'.key = key
    BY <1>8
  <2> HIDE DEF key
  <2>2. ConnectIsVacant'
    BY <1>5, <1>8, <2>1 DEF ConnectIsVacant, conn
  <2>3. (cmain = "deliver" =>
          /\ csender <= ninst
          /\ ikey[csender] = cpend.key
          /\ \A j \in Inst : ikey[j] = cpend.key => j <= csender)'
    BY <1>2, <1>5, <1>6, <1>8, <2>1 DEF ClientMaps, instVars, conn
  <2> QED BY <1>5, <2>2, <2>3 DEF ClientMaps, EntryHasReader, instVars
<1> QED BY <1>4, <1>7, <1>8

(* Opening a connection. *)
LEMMA MapsConnect ==
    ASSUME ClientTypeOK, ClientMaps, CConnect
    PROVE  ClientMaps'
<1> DEFINE k == ninst + 1
<1>1. k \in Inst /\ ninst \in Nat /\ k # NoInst
  BY FramesAssumption DEF CConnect, ClientTypeOK, Inst, NoInst
<1>2. cpend.key \in Key /\ cpend' = cpend
  BY DEF CConnect, ClientTypeOK, DataFrames
<1>3. /\ ninst' = k
      /\ proxy_conns' = [proxy_conns EXCEPT ![cpend.key] = k]
      /\ ikey' = [ikey EXCEPT ![k] = cpend.key]
      /\ iread' = [iread EXCEPT ![k] = "read"]
      /\ csender' = k /\ cmain' = "deliver"
      /\ UNCHANGED <<to_internal, igot>>
  BY DEF CConnect
<1>4. ikey[k] = <<>> /\ iread[k] = "none"
  BY <1>1 DEF ClientMaps, ClientTypeOK
<1>5. \A c \in Key : proxy_conns[c] # k
  BY <1>1, <1>4 DEF ClientMaps, EntryHasReader
<1>6. EntryHasReader'
  BY <1>1, <1>2, <1>3, <1>5 DEF ClientMaps, EntryHasReader, ClientTypeOK, Inst, NoInst
<1>7. ConnectIsVacant'
  BY <1>3 DEF ConnectIsVacant
<1>8. \A j \in Inst : iread'[j] # "none" <=> j <= ninst'
  BY <1>1, <1>3 DEF ClientMaps, ClientTypeOK, Inst
<1>9. \A j \in Inst : j > ninst' =>
          ikey'[j] = <<>> /\ to_internal'[j] = <<>> /\ igot'[j] = <<>>
  BY <1>1, <1>3 DEF ClientMaps, ClientTypeOK, Inst
<1>10. \A j \in Inst : ikey'[j] \in Key => j <= k
  BY <1>1, <1>3, <1>9, KeyIsPair DEF Inst
<1>11. \A c \in Key, j \in Inst :
          proxy_conns'[c] # NoInst /\ ikey'[j] = c => j <= proxy_conns'[c]
  BY <1>1, <1>2, <1>3, <1>10 DEF ClientMaps, ClientTypeOK
<1> QED BY <1>1, <1>2, <1>3, <1>6, <1>7, <1>8, <1>9, <1>10, <1>11 DEF ClientMaps, ClientTypeOK

(* Every other step of the client only removes entries. *)
LEMMA MapsStep ==
    ASSUME LinkTypeOK, ClientTypeOK, ClientMaps, ClientNext
    PROVE  ClientMaps'
<1> USE FramesAssumption
    DEF cMainVars, instVars, clientVars, ClientMaps, EntryHasReader, ConnectIsVacant
<1>1. CASE CRegister \/ CRegistered \/ CReturn \/ CStop
  BY <1>1 DEF CRegister, CRegistered, CReturn, CStop
<1>2. CASE CIgnore \/ CPing \/ CWriterFails
  BY <1>2 DEF CIgnore, CPing, CWriterFails
<1>3. CASE CConnectFails
  BY <1>3 DEF CConnectFails
<1>4. CASE CDeliver
  <2>1. csender \in Inst /\ csender <= ninst
    BY <1>4 DEF CDeliver, ClientTypeOK
  <2>2. \A k \in Inst : k # csender => to_internal'[k] = to_internal[k]
    <3>1. /\ to_internal \in [Inst -> Seq(Payload)]
          /\ \E d : to_internal' = [to_internal EXCEPT ![csender] = d]
      BY <1>4 DEF CDeliver, ClientTypeOK
    <3> QED BY <3>1
  <2>3. /\ cmain' = "read" /\ csender' = NoInst
        /\ UNCHANGED <<proxy_conns, ninst, ikey, iread, igot>>
    BY <1>4 DEF CDeliver
  <2>4. EntryHasReader' /\ ConnectIsVacant'
    BY <2>3
  <2>5. \A k \in Inst : k > ninst =>
           ikey[k] = <<>> /\ to_internal'[k] = <<>> /\ igot[k] = <<>>
    <3> SUFFICES ASSUME NEW k \in Inst, k > ninst PROVE to_internal'[k] = <<>>
      OBVIOUS
    <3>1. k # csender /\ to_internal[k] = <<>>
      BY <2>1 DEF Inst, ClientTypeOK
    <3> QED BY <2>2, <3>1, Zenon
  <2> QED BY <2>3, <2>4, <2>5
<1>5. CASE CDeliverError
  <2>1. /\ proxy_conns' = [proxy_conns EXCEPT ![cpend.key] = NoInst]
        /\ cmain' = "read" /\ UNCHANGED instVars
    BY <1>5 DEF CDeliverError
  <2>2. \A c \in Key : proxy_conns'[c] \in {proxy_conns[c], NoInst}
    BY <2>1 DEF ClientTypeOK
  <2>3. EntryHasReader' /\ ConnectIsVacant'
    BY <2>1, <2>2
  <2>4. \A c \in Key, j \in Inst :
           proxy_conns'[c] # NoInst /\ ikey[j] = c => j <= proxy_conns'[c]
    BY <2>2, Zenon
  <2> QED BY <2>1, <2>3, <2>4
<1>6. CASE CData
  BY <1>6, MapsData
<1>7. CASE CConnect
  BY <1>7, MapsConnect
<1>8. ASSUME NEW k \in Inst, IRead(k) \/ ISend(k) \/ IClose(k) PROVE ClientMaps'
  <2>1. UNCHANGED <<proxy_conns, ninst, ikey, to_internal, igot, cMainVars>>
    BY <1>8 DEF IRead, ISend, IClose
  <2>2. \/ iread' = iread
        \/ iread[k] # "none" /\ iread' = [iread EXCEPT ![k] = "send"]
        \/ iread[k] # "none" /\ iread' = [iread EXCEPT ![k] = "read"]
    BY <1>8 DEF IRead, ISend, IClose
  <2>3. \A j \in Inst : /\ iread'[j] # "none" <=> iread[j] # "none"
                        /\ iread[j] \in {"read", "send"} => iread'[j] \in {"read", "send"}
    <3> HIDE DEF ClientMaps, EntryHasReader, ConnectIsVacant
    <3> QED BY <2>2 DEF ClientTypeOK
  <2>4. \A c \in Key : proxy_conns[c] # NoInst => proxy_conns[c] \in Inst
    BY DEF ClientTypeOK, NoInst, Inst
  <2> QED BY <2>1, <2>3, <2>4
<1>9. ASSUME NEW k \in Inst, IReadEnds(k) PROVE ClientMaps'
  BY <1>9 DEF IReadEnds, ClientTypeOK
<1>10. ASSUME NEW k \in Inst, IWrite(k) PROVE ClientMaps'
  <2>1. UNCHANGED <<proxy_conns, ninst, ikey, iread, iclosed, cMainVars>>
    BY <1>10 DEF IWrite
  <2>2. /\ \A j \in Inst : j # k => to_internal'[j] = to_internal[j] /\ igot'[j] = igot[j]
        /\ to_internal[k] # <<>>
    BY <1>10 DEF IWrite, ClientTypeOK
  <2>3. \A j \in Inst : j > ninst =>
           ikey[j] = <<>> /\ to_internal'[j] = <<>> /\ igot'[j] = <<>>
    BY <2>2
  <2> QED BY <2>1, <2>3
<1>11. ASSUME NEW k \in Inst, IWriteEnds(k) PROVE ClientMaps'
  BY <1>11 DEF IWriteEnds, ClientTypeOK
<1> QED BY <1>1, <1>2, <1>3, <1>4, <1>5, <1>6, <1>7, <1>8, <1>9, <1>10, <1>11
        DEF ClientNext, ClientMainStep, InternalReadStep, InternalWriteStep

-----------------------------------------------------------------------------
(* Registrations are over before the first connection is opened, and a     *)
(* chunk is only taken in hand for a proxy that is registered.             *)
Phases ==
    /\ cmain \in {"register", "await"} => ninst = 0
    /\ cmain = "connect" => Registered(cpend.key[1])
    /\ DialsRegisteredOnly

(* Every step of the client keeps the phases apart. *)
LEMMA PhasesStep ==
    ASSUME LinkTypeOK, ClientTypeOK, ClientMaps, Phases, ClientNext
    PROVE  Phases'
<1> USE FramesAssumption DEF clientVars, cMainVars, instVars, Phases, DialsRegisteredOnly, Registered
<1>1. CASE CRegistered
  <2>1. \A k \in Inst : iread[k] = "none"
    BY <1>1 DEF CRegistered, ClientMaps, ClientTypeOK, Inst
  <2> QED BY <1>1, <2>1 DEF CRegistered
<1>2. CASE CRegister \/ CReturn \/ CStop \/ CIgnore \/ CPing \/ CWriterFails
  BY <1>2 DEF CRegister, CReturn, CStop, CIgnore, CPing, CWriterFails
<1>3. CASE CData
  <2>1. cpend'.key[1] = Head(s2c).key[1] \/ cmain' = "read"
    BY <1>3 DEF CData
  <2> QED BY <1>3, <2>1 DEF CData
<1>4. CASE CConnect
  <2>1. cpend.key \in Key /\ ninst + 1 \in Inst
    BY <1>4 DEF CConnect, ClientTypeOK, DataFrames, Inst
  <2> QED BY <1>4, <2>1 DEF CConnect, ClientTypeOK
<1>5. CASE CConnectFails \/ CDeliver \/ CDeliverError
  BY <1>5 DEF CConnectFails, CDeliver, CDeliverError
<1>6. ASSUME NEW k \in Inst,
             InternalReadStep(k) \/ InternalWriteStep(k) \/ IRead(k) \/ IClose(k)
      PROVE  Phases'
  <2>1. /\ UNCHANGED <<ninst, ikey, ient, cMainVars>>
        /\ \/ iread' = iread
           \/ iread[k] # "none" /\ \E s : iread' = [iread EXCEPT ![k] = s]
    BY <1>6 DEF InternalReadStep, InternalWriteStep, ISend, IReadEnds, IWrite, IWriteEnds,
                IRead, IClose
  <2>2. \A j \in Inst : iread'[j] # "none" => iread[j] # "none"
    BY <2>1 DEF ClientTypeOK
  <2> QED BY <2>1, <2>2
<1> QED BY <1>1, <1>2, <1>3, <1>4, <1>5, <1>6 DEF ClientNext, ClientMainStep

-----------------------------------------------------------------------------
(* What the steps of the server leave alone.                               *)

(* The main loop and the write task move no task of a user, and a main     *)
(* loop that has ended stays ended.                                        *)
LEMMA MainLeavesUsers ==
    ASSUME MainLoopStep \/ ServerWriterStep
    PROVE  UNCHANGED <<eread, echunk, eclosed>> /\ (smain = "ended" => smain' = "ended")
<1> USE DEF serverVars, sMainVars, extVars
<1>1. CASE SRegister \/ SRegisterOverLimit
  BY <1>1 DEF SRegister, SRegisterOverLimit
<1>2. CASE SPing \/ SIgnore
  BY <1>2 DEF SPing, SIgnore
<1>3. CASE SData
  BY <1>3 DEF SData
<1>4. CASE SRoute \/ SRouteError
  BY <1>4 DEF SRoute, SRouteError
<1>5. CASE SSend \/ SStop
  BY <1>5 DEF SSend, SStop
<1>6. CASE ServerWriterStep
  BY <1>6 DEF ServerWriterStep, SWriterEnds, SWriterFails
<1> QED BY <1>1, <1>2, <1>3, <1>4, <1>5, <1>6 DEF MainLoopStep

(* The registration of a proxy leaves the users alone. *)
LEMMA RegistrationLeavesUsers ==
    ASSUME NEW p \in ProxyId, LBind(p) \/ LBindFails(p) \/ LAck(p) \/ LReject(p)
    PROVE  UNCHANGED <<next_conn_id, routing, eread, ewrite, to_remote, echunk, eclosed, eout>>
<1> USE DEF extVars
<1>1. CASE LBind(p) \/ LBindFails(p)
  BY <1>1 DEF LBind, LBindFails
<1>2. CASE LAck(p)
  BY <1>2 DEF LAck
<1>3. CASE LReject(p)
  BY <1>3 DEF LReject
<1> QED BY <1>1, <1>2, <1>3

(* A task that listens moves on; it touches neither the main loop nor what *)
(* is under way between the users and it.                                  *)
LEMMA ListenerMoves ==
    ASSUME NEW p \in ProxyId, ListenerStep(p) \/ LAccept(p)
    PROVE  /\ listener[p] # "none" /\ \E s : listener' = [listener EXCEPT ![p] = s]
           /\ UNCHANGED <<lentry, smain, spend, next_proxy_id, proxy_routing, cached_routing>>
           /\ UNCHANGED <<to_remote, echunk, eclosed, eout, c2s>>
<1> USE DEF sMainVars, extVars, linkVars
<1>1. CASE LBind(p) \/ LBindFails(p)
  BY <1>1 DEF LBind, LBindFails
<1>2. CASE LAck(p)
  BY <1>2 DEF LAck, ToClient
<1>3. CASE LReject(p)
  BY <1>3 DEF LReject, ToClient
<1>4. CASE LPermit(p)
  BY <1>4 DEF LPermit
<1>5. CASE LAccept(p)
  BY <1>5 DEF LAccept
<1>6. CASE LAbort(p)
  BY <1>6 DEF LAbort, Aborted
<1> QED BY <1>1, <1>2, <1>3, <1>4, <1>5, <1>6 DEF ListenerStep

-----------------------------------------------------------------------------
(* Routes.                                                                 *)

(* A connection that has not been accepted has no tasks, and a listener    *)
(* that waits for a permit does so with the connection it accepted last.   *)
Accepted ==
    /\ \A c \in Key : c[2] >= next_conn_id[c[1]] => eread[c] = "none"
    /\ \A p \in ProxyId : listener[p] = "permit" =>
          next_conn_id[p] > 0 /\ eread[<<p, next_conn_id[p] - 1>>] = "wait"

(* What most steps do about routes: nothing. *)
QuietRoutes ==
    /\ UNCHANGED <<next_conn_id, eread, routing>>
    /\ smain' # "ended" => smain # "ended"
    /\ \A p \in ProxyId : listener'[p] = "permit" => listener[p] = "permit"

(* Such a step keeps routes and readers together. *)
LEMMA RoutesQuiet ==
    ASSUME Accepted, RouteWhileReading, QuietRoutes
    PROVE  Accepted' /\ RouteWhileReading'
  BY DEF Accepted, RouteWhileReading, QuietRoutes

(* The main loop, the write task and the registration of a listener say    *)
(* nothing about routes; SStop leaves the tables to the tasks.             *)
LEMMA QuietSteps ==
    ASSUME ServerTypeOK, NEW p \in ProxyId,
           \/ MainLoopStep \/ ServerWriterStep
           \/ LBind(p) \/ LBindFails(p) \/ LAck(p) \/ LReject(p)
    PROVE  QuietRoutes
<1> USE DEF QuietRoutes, sMainVars, listenVars, extVars, serverVars, ServerTypeOK
<1>1. CASE SRegister
  <2>1. next_proxy_id \in ProxyId
    BY <1>1, FramesAssumption DEF SRegister, ProxyId
  <2> QED BY <1>1, <2>1 DEF SRegister
<1>2. CASE SRegisterOverLimit \/ SPing \/ SIgnore
  BY <1>2 DEF SRegisterOverLimit, SPing, SIgnore
<1>3. CASE SData
  BY <1>3 DEF SData
<1>4. CASE SRoute \/ SRouteError
  BY <1>4 DEF SRoute, SRouteError
<1>7. CASE SSend \/ SStop
  BY <1>7 DEF SSend, SStop
<1>5. CASE SWriterEnds \/ SWriterFails
  BY <1>5 DEF SWriterEnds, SWriterFails
<1>6. CASE LBind(p) \/ LBindFails(p)
  BY <1>6 DEF LBind, LBindFails
<1>8. CASE LAck(p) \/ LReject(p)
  BY <1>8 DEF LAck, LReject
<1> QED BY <1>1, <1>2, <1>3, <1>4, <1>5, <1>6, <1>7, <1>8 DEF MainLoopStep, ServerWriterStep

(* A connection enters the table when it is accepted, before it has tasks, *)
(* and the last accepted one is the one that waits.                        *)
LEMMA RoutesListener ==
    ASSUME ServerTypeOK, Accepted, RouteWhileReading, NEW p \in ProxyId,
           LAccept(p) \/ LPermit(p) \/ LAbort(p)
    PROVE  Accepted' /\ RouteWhileReading'
<1> USE FramesAssumption DEF sMainVars
<1>0. \A c \in Key : c[1] \in ProxyId /\ c[2] \in ConnId /\ c = <<c[1], c[2]>>
  BY DEF Key
<1>1. CASE LAccept(p)
  <2> DEFINE n == next_conn_id[p]
             d == <<p, n>>
  <2>1. /\ listener[p] = "accept"
        /\ listener' = [listener EXCEPT ![p] = "permit"]
        /\ next_conn_id' = [next_conn_id EXCEPT ![p] = n + 1]
        /\ routing' = routing \cup {d}
        /\ eread' = [eread EXCEPT ![d] = "wait"]
        /\ smain' = smain
    BY <1>1 DEF LAccept
  <2>2. n \in ConnId /\ n \in Nat /\ d \in Key /\ d[1] = p /\ d[2] = n
    BY <1>1 DEF LAccept, ServerTypeOK, Key, ConnId
  <2>3. \A c \in Key : c # d => eread'[c] = eread[c]
    BY <2>1 DEF ServerTypeOK
  <2>4. eread'[d] = "wait" /\ next_conn_id'[p] = n + 1 /\ listener'[p] = "permit"
        /\ \A q \in ProxyId \ {p} : next_conn_id'[q] = next_conn_id[q] /\ listener'[q] = listener[q]
    BY <2>1, <2>2 DEF ServerTypeOK
  <2>5. \A c \in Key : c[2] >= next_conn_id'[c[1]] => eread'[c] = "none"
    <3> SUFFICES ASSUME NEW c \in Key, c[2] >= next_conn_id'[c[1]] PROVE eread'[c] = "none"
      OBVIOUS
    <3>1. c # d /\ c[2] >= next_conn_id[c[1]]
      BY <1>0, <2>2, <2>4 DEF ConnId
    <3> QED BY <2>3, <3>1 DEF Accepted
  <2>6. ASSUME NEW q \in ProxyId, listener'[q] = "permit"
        PROVE  next_conn_id'[q] > 0 /\ eread'[<<q, next_conn_id'[q] - 1>>] = "wait"
    <3>1. CASE q = p
      <4>1. n + 1 > 0 /\ (n + 1) - 1 = n
        <5> HIDE DEF n
        <5> QED BY <2>2
      <4>2. next_conn_id'[q] = n + 1
        BY <2>4, <3>1, Zenon
      <4>3. <<q, next_conn_id'[q] - 1>> = d
        <5> HIDE DEF n
        <5> QED BY <3>1, <4>1, <4>2
      <4> QED BY <2>4, <4>1, <4>2, <4>3
    <3>2. CASE q # p
      <4>1. next_conn_id[q] > 0 /\ eread[<<q, next_conn_id[q] - 1>>] = "wait"
        BY <2>4, <2>6, <3>2 DEF Accepted
      <4>2. <<q, next_conn_id[q] - 1>> \in Key /\ <<q, next_conn_id[q] - 1>> # d
        BY <3>2, <4>1 DEF ServerTypeOK, Key, ConnId
      <4> QED BY <2>3, <2>4, <3>2, <4>1, <4>2
    <3> QED BY <3>1, <3>2
  <2> HIDE DEF d, n
  <2>7. RouteWhileReading'
    BY <2>1, <2>2, <2>3, <2>4 DEF RouteWhileReading
  <2> QED BY <2>5, <2>6, <2>7 DEF Accepted
<1>2. CASE LPermit(p) \/ LAbort(p)
  <2> DEFINE d == <<p, next_conn_id[p] - 1>>
  <2>1. /\ listener'[p] # "permit"
        /\ \A q \in ProxyId \ {p} : listener'[q] = listener[q]
        /\ UNCHANGED <<next_conn_id, routing, smain>>
    BY <1>2 DEF LPermit, LAbort, ServerTypeOK
  <2>2. \/ eread' = eread
        \/ listener[p] = "permit" /\ \E s : eread' = [eread EXCEPT ![d] = s]
    BY <1>2 DEF LPermit, LAbort
  <2>3. listener[p] = "permit" => d \in Key /\ eread[d] = "wait" /\ d[1] = p /\ d[2] < next_conn_id[p]
    BY DEF Accepted, ServerTypeOK, Key, ConnId
  <2>4. \A c \in Key : c # d => eread'[c] = eread[c]
    BY <2>2 DEF ServerTypeOK
  <2>5. \A c \in Key : c[2] >= next_conn_id'[c[1]] => eread'[c] = "none"
    <3> SUFFICES ASSUME NEW c \in Key, c[2] >= next_conn_id[c[1]] PROVE eread'[c] = "none"
      BY <2>1
    <3>1. eread[c] = "none"
      BY DEF Accepted
    <3>2. listener[p] = "permit" => c # d
      BY <1>0, <2>3 DEF ConnId, ServerTypeOK
    <3> QED BY <2>2, <2>4, <3>1, <3>2
  <2>6. ASSUME NEW q \in ProxyId, listener'[q] = "permit"
        PROVE  next_conn_id'[q] > 0 /\ eread'[<<q, next_conn_id'[q] - 1>>] = "wait"
    <3>1. q # p /\ next_conn_id[q] > 0 /\ eread[<<q, next_conn_id[q] - 1>>] = "wait"
      BY <2>1, <2>6 DEF Accepted
    <3>2. <<q, next_conn_id[q] - 1>> \in Key /\ <<q, next_conn_id[q] - 1>> # d
      BY <3>1 DEF ServerTypeOK, Key, ConnId
    <3> QED BY <2>1, <2>4, <3>1, <3>2
  <2>7. CASE smain = "ended"
    BY <2>1, <2>5, <2>6, <2>7 DEF Accepted, RouteWhileReading
  <2>8. CASE LPermit(p)
    <3>1. eread' = [eread EXCEPT ![d] = "read"] /\ listener[p] = "permit"
      BY <2>8 DEF LPermit
    <3> HIDE DEF d
    <3>2. RouteWhileReading'
      BY <2>1, <2>3, <2>4, <3>1 DEF RouteWhileReading, ServerTypeOK
    <3> QED BY <2>5, <2>6, <3>2 DEF Accepted
  <2> QED BY <1>2, <2>7, <2>8 DEF LAbort
<1> QED BY <1>1, <1>2

(* A read task takes its route along when it ends. *)
LEMMA RoutesExternal ==
    ASSUME ServerTypeOK, Accepted, RouteWhileReading, NEW c \in Key,
           ExternalReadStep(c) \/ ExternalWriteStep(c) \/ ERead(c) \/ EClose(c)
    PROVE  Accepted' /\ RouteWhileReading'
<1> USE DEF sMainVars, listenVars
<1>0. UNCHANGED <<listener, next_conn_id, smain>>
  BY DEF ExternalReadStep, ExternalWriteStep, ESend, EReadEnds, EWrite, EWriteEnds, ERead, EClose
<1>1. CASE EWrite(c) \/ EWriteEnds(c) \/ EClose(c)
  BY <1>0, <1>1 DEF EWrite, EWriteEnds, EClose, Accepted, RouteWhileReading
<1>2. CASE ERead(c) \/ ESend(c) \/ EReadEnds(c)
  <2>1. PICK s \in {"read", "send", "done"} : eread' = [eread EXCEPT ![c] = s]
    BY <1>2 DEF ERead, ESend, EReadEnds
  <2>2. eread[c] \in {"read", "send"}
    BY <1>2 DEF ERead, ESend, EReadEnds
  <2>3. eread'[c] = s /\ \A d \in Key \ {c} : eread'[d] = eread[d]
    BY <2>1 DEF ServerTypeOK
  <2>4. routing' = IF s = "done" THEN routing \ {c} ELSE routing
    BY <1>2, <2>1, <2>3 DEF ERead, ESend, EReadEnds, ServerTypeOK
  <2>5. \A d \in Key : d[2] >= next_conn_id'[d[1]] => eread'[d] = "none"
    BY <1>0, <2>2, <2>3 DEF Accepted
  <2>6. ASSUME NEW q \in ProxyId, listener'[q] = "permit"
        PROVE  next_conn_id'[q] > 0 /\ eread'[<<q, next_conn_id'[q] - 1>>] = "wait"
    <3>1. next_conn_id[q] > 0 /\ eread[<<q, next_conn_id[q] - 1>>] = "wait"
      BY <1>0, <2>6 DEF Accepted
    <3>2. <<q, next_conn_id[q] - 1>> \in Key
      BY <3>1, FramesAssumption DEF ServerTypeOK, Key, ConnId
    <3> QED BY <1>0, <2>2, <2>3, <3>1, <3>2
  <2>7. RouteWhileReading'
    BY <1>0, <2>2, <2>3, <2>4 DEF RouteWhileReading
  <2> QED BY <2>5, <2>6, <2>7 DEF Accepted
<1> QED BY <1>1, <1>2 DEF ExternalReadStep, ExternalWriteStep

(* Every step of the server keeps routes and readers together. *)
LEMMA RoutesStep ==
    ASSUME ServerTypeOK, Accepted, RouteWhileReading, ServerNext
    PROVE  Accepted' /\ RouteWhileReading'
<1>1. PICK q \in ProxyId : TRUE
  BY ZeroProxy
<1>2. CASE MainLoopStep \/ ServerWriterStep
  BY <1>1, <1>2, QuietSteps, RoutesQuiet
<1>3. ASSUME NEW p \in ProxyId, ListenerStep(p) \/ LAccept(p)
      PROVE  Accepted' /\ RouteWhileReading'
  BY <1>3, QuietSteps, RoutesQuiet, RoutesListener DEF ListenerStep
<1> QED BY <1>2, <1>3, RoutesExternal DEF ServerNext
=============================================================================
