----------------------------- MODULE Lifecycle ------------------------------
(***************************************************************************)
(* Connections from TCP connect to the end of the session: the accept loop *)
(* and its semaphore (rfrp_server/src/lib.rs), the handshake of both sides *)
(* (rfrp_proto/src/handshake.rs), the registration of a port and the       *)
(* reconnect loop of the client (rfrp_client/src/lib.rs).  The forwarding  *)
(* inside a session is the subject of the module Tunnel; here a session    *)
(* that has registered only holds its port.                                *)
(***************************************************************************)
EXTENDS Integers, Sequences, FiniteSets

CONSTANTS
    Clients,      \* client processes, each with one proxy
    Mute,         \* those that may stop sending at any point
    Token,        \* Token[c] is the auth_token in the configuration of c
    ServerToken,  \* the auth_token of the server
    Port,         \* Port[c] is the bind_port of c
    Slots,        \* bound: connections that exist at a time
    MaxPermits,   \* MAX_CONCURRENT_CLIENTS (64)
    MaxFaults     \* bound: cuts, crashes and late answers in a behaviour

ASSUME LifecycleAssumption ==
    /\ Mute \subseteq Clients
    /\ IsFiniteSet(Slots)
    /\ MaxPermits \in Nat \ {0} /\ MaxFaults \in Nat

VARIABLES
    conn,         \* the connections, by slot
    waiting,      \* tasks in permit.acquire_owned().await, oldest first
    permits,      \* permits left in connection_limit
    faults        \* cuts, crashes and late answers so far

vars == <<conn, waiting, permits, faults>>

(* A connection: the state c of its client (owner), the state s of its     *)
(* server task, the messages on their way up and down, and the key each    *)
(* side has derived.                                                       *)
Free == [owner |-> "nobody", c |-> "closed", s |-> "done", up |-> <<>>, down |-> <<>>,
         cut |-> FALSE, ckey |-> <<>>, skey |-> <<>>]

Fresh(c) == [Free EXCEPT !.owner = c, !.c = "nonce", !.s = "backlog"]

(* The tasks that hold a permit: from the handshake to the end of          *)
(* run_proxy.                                                              *)
Admitted(s) == conn[s].s \in {"hs", "reply", "up", "serving"}

Init ==
    /\ conn = [s \in Slots |-> Free]
    /\ waiting = <<>> /\ permits = MaxPermits /\ faults = 0

(* Once both sides have closed it, a connection is gone. *)
Settle(r) == IF r.c = "closed" /\ r.s = "done" THEN Free ELSE r

Put(s, r) == conn' = [conn EXCEPT ![s] = Settle(r)]

-----------------------------------------------------------------------------
(* Handshake: 32 random bytes of each side and the token.                  *)

client_nonce(s) == <<"client", conn[s].owner, s>>
server_nonce(s) == <<"server", s>>

(* Seeded fault: the token is left out of the hash. *)
derive_without_token(token, cn, sn) == <<cn, sn>>

derive_session_key(token, cn, sn) == <<token, cn, sn>>

-----------------------------------------------------------------------------
(* The server.                                                             *)

(* listener.accept() and the spawned task's request for a permit. *)
Accept(s) ==
    /\ conn[s].s = "backlog"
    /\ Put(s, [conn[s] EXCEPT !.s = "queued"])
    /\ waiting' = Append(waiting, s)
    /\ UNCHANGED <<permits, faults>>

(* Seeded fault: a permit is taken without waiting for one. *)
NoPermitNeeded == TRUE

PermitLeft == permits > 0

(* The semaphore serves its waiters in order. *)
Acquire ==
    /\ waiting # <<>> /\ PermitLeft
    /\ Put(Head(waiting), [conn[Head(waiting)] EXCEPT !.s = "hs"])
    /\ waiting' = Tail(waiting)
    /\ permits' = permits - 1
    /\ UNCHANGED faults

(* Seeded fault: a failed handshake keeps its permit. *)
ReleaseAfterHandshake(s) == IF conn[s].s = "hs" THEN permits ELSE permits + 1

(* _permit is dropped when run_proxy returns, whatever made it return. *)
Release(s) == permits + 1

(* run_proxy returns: listener and permit are gone, and the client will    *)
(* find out, by the end of the stream or, where idle users of the session  *)
(* keep the socket open, because nobody answers its pings.                 *)
ServerReturns(s) ==
    /\ Put(s, [conn[s] EXCEPT !.s = "done"])
    /\ permits' = Release(s)
    /\ UNCHANGED waiting

ServerGets(s) == ~conn[s].cut /\ conn[s].up # <<>>

(* read_exact of the client nonce; it settles the key, which is derived    *)
(* once the answer is written.                                             *)
SNonce(s) ==
    /\ conn[s].s = "hs" /\ ServerGets(s)
    /\ Put(s, [conn[s] EXCEPT
           !.s = "reply", !.up = Tail(@),
           !.skey = derive_session_key(ServerToken, Head(conn[s].up), server_nonce(s))])
    /\ UNCHANGED <<waiting, permits, faults>>

(* write_all of the server nonce; into a socket the client has closed it   *)
(* may succeed or fail.                                                    *)
SReply(s) ==
    /\ conn[s].s = "reply"
    /\ Put(s, [conn[s] EXCEPT !.s = "up", !.down = Append(@, server_nonce(s))])
    /\ UNCHANGED <<waiting, permits, faults>>

SReplyFails(s) ==
    /\ conn[s].s = "reply"
    /\ conn[s].c = "closed" \/ conn[s].cut
    /\ ServerReturns(s)
    /\ UNCHANGED faults

PortFree(p) == \A s \in Slots : conn[s].s = "serving" => Port[conn[s].owner] # p

new_reg_ack_frame(success) == <<"ack", success>>

(* The session reads a Register frame: if its port can be bound the proxy  *)
(* is confirmed, else it is rejected and the session goes on.              *)
SRegister(s) ==
    LET free == PortFree(Port[conn[s].owner])
    IN  /\ conn[s].s \in {"up", "serving"} /\ ServerGets(s)
        /\ Head(conn[s].up) = conn[s].skey
        /\ Put(s, [conn[s] EXCEPT
               !.s = IF free THEN "serving" ELSE @, !.up = Tail(@),
               !.down = Append(@, new_reg_ack_frame(free))])
        /\ UNCHANGED <<waiting, permits, faults>>

(* A frame sealed under another key does not decode: the session ends. *)
SUndecodable(s) ==
    /\ conn[s].s \in {"up", "serving"} /\ ServerGets(s)
    /\ Head(conn[s].up) # conn[s].skey
    /\ ServerReturns(s)
    /\ UNCHANGED faults

(* Seeded fault: the end of the stream is not noticed. *)
NoEndOfStream(s) == FALSE

EndOfStream(s) == ~conn[s].cut /\ conn[s].c = "closed"

(* Seeded fault: only the session has a timeout, the handshake has none. *)
SessionTimeout(s) == conn[s].s # "hs" /\ conn[s].cut

(* HANDSHAKE_TIMEOUT_SECS or KEEPALIVE_TIMEOUT without a byte. *)
ServerTimeout(s) == conn[s].cut \/ conn[s].owner \in Mute

(* The server waits for a message that is not there. *)
ServerWaits(s) == conn[s].s \in {"hs", "up", "serving"} /\ ~ServerGets(s)

SEnds(s) ==
    /\ ServerWaits(s)
    /\ EndOfStream(s) \/ ServerTimeout(s)
    /\ ServerReturns(s)
    /\ UNCHANGED faults

(* The timeout of the server although the client is only late. *)
SEndsEarly(s) ==
    /\ faults < MaxFaults /\ ServerWaits(s)
    /\ ServerReturns(s)
    /\ faults' = faults + 1

ServerStep(s) ==
    Accept(s) \/ SNonce(s) \/ SReply(s) \/ SReplyFails(s) \/ SRegister(s)
        \/ SUndecodable(s) \/ SEnds(s)

-----------------------------------------------------------------------------
(* The client.                                                             *)

Idle(c) == \A s \in Slots : conn[s].owner = c => conn[s].c = "closed"

(* TcpStream::connect, at the start or after the reconnect delay. *)
Connect(c) ==
    /\ Idle(c)
    /\ \E s \in Slots : conn[s] = Free
    /\ Put(CHOOSE s \in Slots : conn[s] = Free, Fresh(c))
    /\ UNCHANGED <<waiting, permits, faults>>

ClientGets(s) == ~conn[s].cut /\ conn[s].down # <<>>

(* write_all of the client nonce. *)
CNonce(s) ==
    /\ conn[s].c = "nonce"
    /\ Put(s, [conn[s] EXCEPT !.c = "wait", !.up = Append(@, client_nonce(s))])
    /\ UNCHANGED <<waiting, permits, faults>>

(* read_exact of the server nonce; the first Register follows at once,     *)
(* sealed under the key just derived.                                      *)
CDerive(s) ==
    LET key == derive_session_key(Token[conn[s].owner], client_nonce(s), Head(conn[s].down))
    IN  /\ conn[s].c = "wait" /\ ClientGets(s)
        /\ Put(s, [conn[s] EXCEPT !.c = "register", !.down = Tail(@),
                                  !.ckey = key, !.up = Append(@, key)])
        /\ UNCHANGED <<waiting, permits, faults>>

(* The answer to Register: the session runs or run_proxy returns. *)
CAck(s) ==
    /\ conn[s].c = "register" /\ ClientGets(s)
    /\ Put(s, [conn[s] EXCEPT !.c = IF Head(conn[s].down) = new_reg_ack_frame(TRUE)
                                    THEN "run" ELSE "closed",
                              !.down = Tail(@)])
    /\ UNCHANGED <<waiting, permits, faults>>

(* The permits are all with tasks that wait for a peer that is still       *)
(* there: up to 10 s for its nonce, up to 90 s for its Register or for the *)
(* next frame.  The client waits 10 s for an answer from the queue.        *)
StuckInQueue(s) ==
    /\ conn[s].s = "queued" /\ permits = 0
    /\ \A t \in Slots : Admitted(t) => ServerWaits(t) /\ ~EndOfStream(t)

(* End of stream or a timeout: run_proxy returns and rfrp_client will      *)
(* connect again.                                                          *)
CEnds(s) ==
    /\ conn[s].c # "closed" /\ ~ClientGets(s)
    /\ conn[s].cut \/ conn[s].s = "done" \/ (conn[s].c # "nonce" /\ StuckInQueue(s))
    /\ Put(s, [conn[s] EXCEPT !.c = "closed"])
    /\ UNCHANGED <<waiting, permits, faults>>

(* The timeout of the client although the server is only late. *)
CEndsEarly(s) ==
    /\ faults < MaxFaults
    /\ conn[s].c \in {"wait", "register", "run"} /\ ~ClientGets(s)
    /\ Put(s, [conn[s] EXCEPT !.c = "closed"])
    /\ faults' = faults + 1
    /\ UNCHANGED <<waiting, permits>>

ClientStep(s) == CNonce(s) \/ CDerive(s) \/ CAck(s) \/ CEnds(s)

(* What can be relied on: a client that goes mute does nothing any more. *)
ClientActs(s) == conn[s].owner \notin Mute /\ ClientStep(s)

-----------------------------------------------------------------------------
(* The environment.                                                        *)

(* The network silently stops carrying one connection. *)
Cut(s) ==
    /\ faults < MaxFaults /\ conn[s] # Free /\ ~conn[s].cut
    /\ Put(s, [conn[s] EXCEPT !.cut = TRUE])
    /\ faults' = faults + 1
    /\ UNCHANGED <<waiting, permits>>

(* The client process is killed and started again. *)
ClientRestarts(s) ==
    /\ faults < MaxFaults /\ conn[s].c # "closed"
    /\ Put(s, [conn[s] EXCEPT !.c = "closed"])
    /\ faults' = faults + 1
    /\ UNCHANGED <<waiting, permits>>

(* The server process is killed and started again. *)
ServerRestarts ==
    /\ faults < MaxFaults
    /\ conn' = [s \in Slots |-> Settle([conn[s] EXCEPT !.s = "done"])]
    /\ waiting' = <<>> /\ permits' = MaxPermits
    /\ faults' = faults + 1

Disturbance(s) == Cut(s) \/ ClientRestarts(s) \/ SEndsEarly(s) \/ CEndsEarly(s)

Next ==
    \/ Acquire \/ ServerRestarts
    \/ \E c \in Clients : Connect(c)
    \/ \E s \in Slots : ServerStep(s) \/ ClientStep(s) \/ Disturbance(s)

Spec == Init /\ [][Next]_vars

(* All tasks are polled; a client that sleeps connects again, in turn with *)
(* the others.                                                             *)
FairSpec ==
    /\ Spec
    /\ WF_vars(Acquire)
    /\ \A s \in Slots : WF_vars(ServerStep(s)) /\ WF_vars(ClientActs(s))
    /\ \A c \in Clients \ Mute : SF_vars(Connect(c))

-----------------------------------------------------------------------------
TypeOK ==
    /\ \A s \in Slots :
          /\ conn[s].owner \in Clients \cup {"nobody"}
          /\ conn[s].c \in {"nonce", "wait", "register", "run", "closed"}
          /\ conn[s].s \in {"backlog", "queued", "hs", "reply", "up", "serving", "done"}
          /\ Len(conn[s].up) <= 2 /\ Len(conn[s].down) <= 2
          /\ conn[s].cut \in BOOLEAN
    /\ waiting \in Seq(Slots)
    /\ permits \in 0..MaxPermits
    /\ faults \in 0..MaxFaults

(* Every permit is with exactly one running session or in the semaphore,   *)
(* and every queued task is in its queue once: no way of leaving           *)
(* run_proxy, a failed handshake included, loses or doubles a permit.      *)
PermitsConserved ==
    /\ permits + Cardinality({s \in Slots : Admitted(s)}) = MaxPermits
    /\ \A s \in Slots :
          Cardinality({i \in DOMAIN waiting : waiting[i] = s})
              = IF conn[s].s = "queued" THEN 1 ELSE 0

(* A client that believes its proxy is registered is right for as long as  *)
(* the server's session lasts, and a session that serves one was opened    *)
(* with the server's token under a key nobody else has.                    *)
RunningIsServed ==
    \A s \in Slots :
        /\ conn[s].c = "run" => conn[s].s \in {"serving", "done"}
        /\ conn[s].s = "serving" =>
              /\ Token[conn[s].owner] = ServerToken
              /\ \A t \in Slots \ {s} :
                    /\ conn[t].skey # conn[s].skey
                    /\ conn[t].s = "serving" => Port[conn[t].owner] # Port[conn[s].owner]

PermitsOfPeers(c) == {s \in Slots : Admitted(s) /\ conn[s].owner # c}

Served(c) == \E s \in Slots : conn[s].owner = c /\ conn[s].c = "run" /\ conn[s].s = "serving"

(* After any cut or crash, a client with the right token gets its port     *)
(* back unless its peers keep all the permits from it: the old session     *)
(* that still holds the port times out, the client keeps trying, and       *)
(* neither its own sessions left over nor the connections it gave up in    *)
(* the queue keep it out, however often it runs into the 10 s of the       *)
(* handshake behind them.  Peers may have the permits every time it comes  *)
(* to the queue: against that the code has nothing.                        *)
ServedAgain ==
    \A c \in Clients \ Mute : Token[c] = ServerToken =>
        (<>[](Cardinality(PermitsOfPeers(c)) < MaxPermits) => []<>Served(c))

AllInUse == Cardinality({s \in Slots : conn[s].c = "run" /\ conn[s].s = "serving"}) = MaxPermits

Abandoned(s) == conn[s].c = "closed" /\ conn[s].s # "done"

(* A connection whose client has gone, be it in the backlog, queued, in    *)
(* the handshake or in session, does not stay for ever: the server gets    *)
(* rid of it and of its permit.  A queued task does not look at its socket *)
(* before it has a permit, so this takes permits that are not all in use   *)
(* from some point on; with a permit the task finds the end of the stream, *)
(* or a timeout ends it.                                                   *)
StaleSkipped ==
    \A s \in Slots : []<>~AllInUse => []<>~Abandoned(s)
=============================================================================
