------------------------------- MODULE Tunnel -------------------------------
(***************************************************************************)
(* A whole session: a server and a client task set joined by a link, the   *)
(* external users on one end and the internal services on the other.  The  *)
(* properties say what the tunnel promises its two ends.                   *)
(***************************************************************************)
EXTENDS ServerSession, ClientSession

vars == <<linkVars, serverVars, clientVars>>

Init == LinkInit /\ ServerInit /\ ClientInit

Next ==
    \/ ServerNext /\ UNCHANGED clientVars
    \/ ClientNext /\ UNCHANGED serverVars
    \/ NetworkCut /\ UNCHANGED <<serverVars, clientVars>>

Spec == Init /\ [][Next]_vars

(* Every task that can run is eventually polled by the tokio runtime, and  *)
(* a sender that waits for room in an mpsc channel gets its turn (tokio's  *)
(* semaphore serves waiters in order), hence SF for the sends that compete *)
(* for a channel.  An external user reads what it is sent and an echo      *)
(* service answers; nobody is obliged to connect, send or close, and no    *)
(* fault has to happen.                                                    *)
Fairness ==
    /\ WF_vars(MainLoopStep /\ UNCHANGED clientVars)
    /\ WF_vars(ServerWriterStep /\ UNCHANGED clientVars)
    /\ \A p \in ProxyId : WF_vars(ListenerStep(p) /\ UNCHANGED clientVars)
    /\ \A c \in Key : /\ SF_vars(ESend(c) /\ UNCHANGED clientVars)
                      /\ WF_vars(EReadEnds(c) /\ UNCHANGED clientVars)
                      /\ WF_vars(ExternalWriteStep(c) /\ UNCHANGED clientVars)
    /\ WF_vars(ClientMainStep /\ UNCHANGED serverVars)
    /\ WF_vars(CWriterFails /\ UNCHANGED serverVars)
    /\ \A k \in Inst : /\ SF_vars(ISend(k) /\ UNCHANGED serverVars)
                       /\ WF_vars(IReadEnds(k) /\ UNCHANGED serverVars)
                       /\ WF_vars(InternalWriteStep(k) /\ UNCHANGED serverVars)
                       /\ WF_vars(Echo /\ IRead(k) /\ UNCHANGED serverVars)

FairSpec == Spec /\ Fairness

-----------------------------------------------------------------------------
TypeOK == LinkTypeOK /\ ServerTypeOK /\ ClientTypeOK

(* A proxy_id the client has recorded denotes, on the server, the entry    *)
(* the client recorded it for, and its port is bound for as long as the    *)
(* server session lasts: "Only now do we confirm registration, so the      *)
(* client knows the proxy is actually reachable".                          *)
ProxyAgreement ==
    \A p \in ProxyId : proxy_configs[p] # 0 =>
        /\ lentry[p] = proxy_configs[p]
        /\ smain # "ended" => HoldsPort(p)

(* An internal connection goes to the service of the entry whose port the  *)
(* user connected to and receives bytes of that user only; a user receives *)
(* only bytes of connections opened on its behalf.                         *)
NoCrossTalk ==
    /\ \A k \in Inst : iread[k] # "none" =>
          /\ ient[k] = lentry[ikey[k][1]]
          /\ \A i \in DOMAIN igot[k] :
                igot[k][i].key = ikey[k] /\ igot[k][i].inst = NoInst
    /\ \A c \in Key : \A i \in DOMAIN eout[c] :
          eout[c][i].inst \in Inst /\ ikey[eout[c][i].inst] = c

(* What the user of a key sent reaches the internal services in order and  *)
(* without duplicates, within each connection and from each connection to  *)
(* the next one opened for the same key.                                   *)
ForwardOrder ==
    \A j, k \in Inst :
        \A x \in DOMAIN igot[j], y \in DOMAIN igot[k] :
            /\ ikey[j] = ikey[k]
            /\ j < k \/ (j = k /\ x < y)
            => igot[j][x].n < igot[k][y].n

Numbers(q) == [i \in DOMAIN q |-> q[i].n]

(* The elements of a queue that are in a set, in order. *)
Filter(q, S) ==
    LET upTo[i \in 0..Len(q)] ==
            IF i = 0 THEN <<>>
            ELSE IF q[i] \in S THEN Append(upTo[i - 1], q[i]) ELSE upTo[i - 1]
    IN  upTo[Len(q)]

(* The chunks of key c among the Data frames of a queue, in order. *)
DataOf(c, q) ==
    LET frames == Filter(q, {f \in DataFrames : f.key = c})
    IN  [i \in DOMAIN frames |-> frames[i].data]

(* A frame the main task holds: cpend on the client, spend on the server. *)
Held(f, waits) == IF waits THEN <<f>> ELSE <<>>

(* While connection k is the one in the map for its key and its service    *)
(* has not closed it, no byte of the user is lost behind it: what k has    *)
(* received and what is on the way to it is one run up to the last chunk   *)
(* read from the user.                                                     *)
ForwardComplete ==
    \A c \in Key :
        LET k == proxy_conns[c]
            stream == Numbers(igot[k] \o to_internal[k]
                              \o DataOf(c, Held(cpend, cmain = "deliver") \o s2c))
                      \o (IF eread[c] = "send" THEN <<echunk[c]>> ELSE <<>>)
        IN  k # NoInst /\ ~iclosed[k] /\ swriter = "run" /\ cmain # "ended"
            => \A i \in DOMAIN stream : stream[i] = echunk[c] - Len(stream) + i

(* While the user of c is connected and the session is up, every answer    *)
(* the client has taken from an internal connection of c is either with    *)
(* the user or on its way, in order and once.                              *)
ReplyComplete ==
    \A c \in Key : \A k \in Inst :
        LET stream == Numbers(Filter(
                          eout[c] \o to_remote[c]
                          \o DataOf(c, Held(spend, smain = "route") \o c2s),
                          {d \in Payload : d.inst = k}))
                      \o (IF iread[k] = "send" THEN <<ichunk[k]>> ELSE <<>>)
        IN  /\ ikey[k] = c
            /\ eread[c] \in {"wait", "read", "send"} /\ ~eclosed[c]
            /\ smain # "ended" /\ cwriter = "run"
            => stream = [i \in 1..ichunk[k] |-> i]

ToClientPipe == INSTANCE Pipe WITH Cap <- LinkCap, q <- s2c, writer <- swriter
ToServerPipe == INSTANCE Pipe WITH Cap <- LinkCap, q <- c2s, writer <- cwriter

(* Whatever the tasks of the two sessions do, end or fail to do, each      *)
(* direction of the link is a bounded FIFO that loses nothing but a tail   *)
(* when its write task ends, and takes nothing after that.                 *)
LinkIsPipe == ToClientPipe!PipeSpec /\ ToServerPipe!PipeSpec

-----------------------------------------------------------------------------
(* Once the client has given the session up the server does so too. *)
ClientEndEndsServer == cmain = "ended" ~> smain = "ended"

(* A session whose network is cut ends on both sides. *)
CutEndsSession == cut ~> smain = "ended" /\ cmain = "ended"

(* "Abort all proxy listener tasks to release bound ports". *)
PortsReleased == smain = "ended" ~> \A p \in ProxyId : ~HoldsPort(p)

(* "the connection is considered dead and will be closed": the socket of   *)
(* a session that has ended is closed once no external user of it is left  *)
(* who neither sends nor goes; such a user's read task keeps it open.      *)
DeadSessionClosed ==
    smain = "ended" ~> ServerClosed \/ \E c \in Key : eread[c] = "read"

(* A chunk read from a user reaches an internal service, unless the        *)
(* session ends.                                                           *)
ForwardDelivers ==
    \A c \in Key, n \in 1..MaxChunks :
        echunk[c] = n ~>
            \/ \E k \in Inst : ikey[k] = c /\ \E i \in DOMAIN igot[k] : igot[k][i].n = n
            \/ cmain = "ended"

(* A chunk read from a service reaches the user, unless the session ends. *)
ReplyDelivers ==
    \A k \in Inst, n \in 1..MaxChunks :
        ichunk[k] = n ~>
            \/ \E c \in Key : \E i \in DOMAIN eout[c] :
                  eout[c][i].inst = k /\ eout[c][i].n = n
            \/ cmain = "ended"

-----------------------------------------------------------------------------
(* What comments of the code say and the model refutes.                    *)

(* With reachable peers, free ports and accepting services, registration   *)
(* only fails when an answer is late: "Each registration response must     *)
(* arrive within KEEPALIVE_TIMEOUT, otherwise the connection is treated as *)
(* dead".                                                                  *)
RegistrationSurvives == cmain # "ended"

(* The client "manages persistent connections to internal services": an    *)
(* entry leaves the map only when its own service has closed or the        *)
(* session's write task is gone.                                           *)
PersistentConns ==
    [][\A c \in Key : LET k == proxy_conns[c] IN
          k # NoInst /\ proxy_conns'[c] # k => iclosed[k] \/ cwriter = "done"]_vars

(* "If no frame is received from the client within this duration, the      *)
(* connection is considered dead and will be closed": the main loop never  *)
(* waits for ever outside its select!.                                     *)
ServerLoopReturns == smain \in {"pong", "reply", "route"} ~> smain \in {"read", "ended"}
=============================================================================
