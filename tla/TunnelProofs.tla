---------------------------- MODULE TunnelProofs ----------------------------
(***************************************************************************)
(* Theorems about the whole session, for every number of proxies, users,   *)
(* internal connections and chunks, every channel capacity and every set   *)
(* of faults.                                                              *)
(***************************************************************************)
EXTENDS Tunnel, SessionProofs, WellFoundedInduction, SequenceTheorems

(* The initial state is well typed. *)
LEMMA InitType == Init => TypeOK
<1> SUFFICES ASSUME Init PROVE TypeOK
  OBVIOUS
<1> USE FramesAssumption, LinkAssumption
<1>1. LinkTypeOK
  <2>1. sreader \in BOOLEAN /\ creader \in BOOLEAN /\ cut \in BOOLEAN
    BY Zenon DEF Init, LinkInit
  <2>2. /\ s2c \in Seq(Frame) /\ Len(s2c) <= LinkCap
        /\ c2s \in Seq(Frame) /\ Len(c2s) <= LinkCap
        /\ swriter = "run" /\ cwriter = "run"
    BY SMT DEF Init, LinkInit
  <2> QED BY <2>1, <2>2 DEF LinkTypeOK
<1>2. ServerTypeOK
  BY DEF Init, ServerInit, ServerTypeOK
<1>3. ClientTypeOK
  BY DEF Init, ClientInit, ClientTypeOK, NoInst, Entry
<1> QED BY <1>1, <1>2, <1>3 DEF TypeOK

(* The server keeps its types while the client moves. *)
LEMMA ServerStays == ServerTypeOK /\ UNCHANGED serverVars => ServerTypeOK'
  BY DEF serverVars, sMainVars, listenVars, extVars, ServerTypeOK

(* The client keeps its types while the server moves. *)
LEMMA ClientStays == ClientTypeOK /\ UNCHANGED clientVars => ClientTypeOK'
  BY DEF clientVars, cMainVars, instVars, ClientTypeOK

(* Every step of the session keeps the types. *)
LEMMA NextType == TypeOK /\ [Next]_vars => TypeOK'
<1> SUFFICES ASSUME TypeOK, [Next]_vars PROVE TypeOK'
  OBVIOUS
<1>1. CASE ServerNext /\ UNCHANGED clientVars
  BY <1>1, ServerNextType, ClientStays DEF TypeOK
<1>2. CASE ClientNext /\ UNCHANGED serverVars
  BY <1>2, ClientNextType, ServerStays DEF TypeOK
<1>3. CASE NetworkCut /\ UNCHANGED <<serverVars, clientVars>>
  BY <1>3, LinkOps, ServerStays, ClientStays DEF TypeOK
<1>4. CASE UNCHANGED vars
  BY <1>4, LinkOps, ServerStays, ClientStays DEF TypeOK, vars
<1> QED BY <1>1, <1>2, <1>3, <1>4 DEF Next

(* Type correctness of the session: every frame either side queues is one  *)
(* the other can decode, no channel holds more than its capacity, and a    *)
(* task that waits for a send has a frame to send.                         *)
THEOREM TypeCorrect == Spec => []TypeOK
  BY InitType, NextType, PTL DEF Spec

-----------------------------------------------------------------------------
(* The link of a session implements the abstract FIFO of module Pipe, in   *)
(* both directions and for all constants: every step of either side is one *)
(* of a few things for the link, and each of these is a step of both pipes *)
(* or leaves them alone.                                                   *)

DownStep == ToClientPipe!Accept \/ ToClientPipe!Deliver \/ ToClientPipe!End
UpStep   == ToServerPipe!Accept \/ ToServerPipe!Deliver \/ ToServerPipe!End

(* What a step of the two sessions is allowed to do to the link. *)
LinkEffect ==
    \/ \E f : ToClient(f) \/ ToServer(f)
    \/ \E t : ServerReads(t) \/ ClientReads(t)
    \/ ServerWriteFails \/ ClientWriteFails
    \/ s2c' = s2c /\ swriter' \in {swriter, "done"} /\ UNCHANGED <<c2s, cwriter>>
    \/ /\ UNCHANGED <<s2c, swriter>> /\ cwriter' = "done"
       /\ \E n \in 0..Len(c2s) : c2s' = SubSeq(c2s, 1, n)

(* Appending keeps what was there and makes the queue longer by one. *)
LEMMA AppendKeeps ==
    ASSUME NEW S, NEW q \in Seq(S), NEW x
    PROVE  Len(Append(q, x)) = Len(q) + 1 /\ SubSeq(Append(q, x), 1, Len(q)) = q
<1> DEFINE T == S \cup {x}
<1>1. q \in Seq(T) /\ x \in T
  OBVIOUS
<1>2. Len(Append(q, x)) = Len(q) + 1 /\ Append(q, x) \in Seq(T)
  BY <1>1
<1>3. SubSeq(Append(q, x), 1, Len(q)) = q
  BY <1>1, <1>2
<1> QED BY <1>2, <1>3

(* Head and tail, prefix and whole, as subsequences. *)
LEMMA Subsequences ==
    ASSUME NEW S, NEW q \in Seq(S)
    PROVE  /\ q # <<>> => 1 \in 1..Len(q) /\ Tail(q) = SubSeq(q, 1 + 1, Len(q))
           /\ SubSeq(q, 1, Len(q)) = q
           /\ SubSeq(q, 1, 0) = <<>>
           /\ 0 \in 0..Len(q) /\ Len(q) \in 0..Len(q)
<1>1. Len(q) \in Nat
  OBVIOUS
<1>2. q # <<>> => 1 \in 1..Len(q) /\ Tail(q) = SubSeq(q, 1 + 1, Len(q))
  OBVIOUS
<1>3. SubSeq(q, 1, Len(q)) = q
  OBVIOUS
<1>4. SubSeq(q, 1, 0) = <<>>
  OBVIOUS
<1> QED BY <1>1, <1>2, <1>3, <1>4

(* Every such effect is a step of the pipe to the client or none. *)
LEMMA EffectDown ==
    ASSUME LinkTypeOK, LinkEffect
    PROVE  [DownStep]_(ToClientPipe!pipeVars)
<1> USE LinkAssumption DEF ToClientPipe!pipeVars
<1>0. s2c \in Seq(Frame) /\ Len(s2c) \in Nat
  BY DEF LinkTypeOK
<1>1. ASSUME NEW f, ToClient(f) PROVE ToClientPipe!Accept
  <2>1. /\ Len(s2c') = Len(s2c) + 1
        /\ SubSeq(s2c', 1, Len(s2c)) = s2c
    BY <1>0, <1>1, AppendKeeps DEF ToClient
  <2> QED BY <1>0, <1>1, <2>1 DEF ToClient, ToClientPipe!Accept
<1>2. ASSUME NEW t, ClientReads(t) PROVE ToClientPipe!Deliver
  BY <1>0, <1>2, Subsequences DEF ClientReads, ToClientPipe!Deliver
<1>3. ASSUME ServerWriteFails PROVE ToClientPipe!End
  BY <1>0, <1>3, Subsequences DEF ServerWriteFails, ToClientPipe!End
<1>4. ASSUME s2c' = s2c, swriter' = "done" PROVE ToClientPipe!End
  BY <1>0, <1>4, Subsequences DEF ToClientPipe!End
<1>5. ASSUME UNCHANGED <<s2c, swriter>> PROVE UNCHANGED ToClientPipe!pipeVars
  BY <1>5
<1> QED
  BY <1>1, <1>2, <1>3, <1>4, <1>5
  DEF LinkEffect, DownStep, ToServer, ServerReads, ClientWriteFails

(* ... and a step of the pipe to the server or none. *)
LEMMA EffectUp ==
    ASSUME LinkTypeOK, LinkEffect
    PROVE  [UpStep]_(ToServerPipe!pipeVars)
<1> USE LinkAssumption DEF ToServerPipe!pipeVars
<1>0. c2s \in Seq(Frame) /\ Len(c2s) \in Nat
  BY DEF LinkTypeOK
<1>1. ASSUME NEW f, ToServer(f) PROVE ToServerPipe!Accept
  <2>1. /\ Len(c2s') = Len(c2s) + 1
        /\ SubSeq(c2s', 1, Len(c2s)) = c2s
    BY <1>0, <1>1, AppendKeeps DEF ToServer
  <2> QED BY <1>0, <1>1, <2>1 DEF ToServer, ToServerPipe!Accept
<1>2. ASSUME NEW t, ServerReads(t) PROVE ToServerPipe!Deliver
  BY <1>0, <1>2, Subsequences DEF ServerReads, ToServerPipe!Deliver
<1>3. ASSUME ClientWriteFails PROVE ToServerPipe!End
  BY <1>0, <1>3, Subsequences DEF ClientWriteFails, ToServerPipe!End
<1>4. ASSUME cwriter' = "done", \E n \in 0..Len(c2s) : c2s' = SubSeq(c2s, 1, n)
      PROVE  ToServerPipe!End
  BY <1>4 DEF ToServerPipe!End
<1>5. ASSUME UNCHANGED <<c2s, cwriter>> PROVE UNCHANGED ToServerPipe!pipeVars
  BY <1>5
<1> QED
  BY <1>1, <1>2, <1>3, <1>4, <1>5
  DEF LinkEffect, UpStep, ToClient, ClientReads, ServerWriteFails

(* No step of the server touches the link in any other way. *)
LEMMA ServerEffect == ServerNext => LinkEffect
<1> USE DEF linkVars
<1>1. MainLoopStep => LinkEffect
  <2>1. SRegister \/ SRegisterOverLimit \/ SPing => LinkEffect
    BY DEF LinkEffect, SRegister, SRegisterOverLimit, SPing
  <2>2. SIgnore \/ SData \/ SRoute \/ SRouteError => LinkEffect
    BY DEF LinkEffect, SIgnore, SData, SRoute, SRouteError
  <2>3. SSend \/ SStop => LinkEffect
    BY DEF LinkEffect, SSend, SStop
  <2> QED BY <2>1, <2>2, <2>3 DEF MainLoopStep
<1>2. ServerWriterStep => LinkEffect
  BY DEF ServerWriterStep, LinkEffect, SWriterEnds, SWriterFails
<1>3. \A p \in ProxyId : ListenerStep(p) \/ LAccept(p) => LinkEffect
  <2>1. \A p \in ProxyId : LAck(p) \/ LReject(p) => LinkEffect
    BY DEF LinkEffect, LAck, LReject
  <2>2. \A p \in ProxyId : LBind(p) \/ LBindFails(p) \/ LAccept(p) => LinkEffect
    BY DEF LinkEffect, LBind, LBindFails, LAccept
  <2>3. \A p \in ProxyId : LPermit(p) \/ LAbort(p) => LinkEffect
    BY DEF LinkEffect, LPermit, LAbort
  <2> QED BY <2>1, <2>2, <2>3 DEF ListenerStep
<1>4. \A c \in Key : ExternalReadStep(c) \/ ExternalWriteStep(c) => LinkEffect
  BY DEF ExternalReadStep, ExternalWriteStep, LinkEffect, ESend, EReadEnds, EWrite, EWriteEnds
<1>5. \A c \in Key : ERead(c) \/ EClose(c) => LinkEffect
  BY DEF LinkEffect, ERead, EClose
<1> QED BY <1>1, <1>2, <1>3, <1>4, <1>5 DEF ServerNext

(* Nor does a step of the client. *)
LEMMA ClientEffect ==
    ASSUME LinkTypeOK, ClientNext
    PROVE  LinkEffect
<1> USE DEF linkVars
<1>0. c2s = SubSeq(c2s, 1, Len(c2s)) /\ Len(c2s) \in 0..Len(c2s)
  BY Subsequences DEF LinkTypeOK
<1>1. CASE CReturn
  BY <1>0, <1>1 DEF LinkEffect, CReturn
<1>2. CASE CStop
  BY <1>2 DEF LinkEffect, CStop
<1>3. CASE ClientMainStep /\ ~CReturn /\ ~CStop
  BY <1>3 DEF ClientMainStep, LinkEffect, CRegister, CRegistered, CData, CConnect,
              CConnectFails, CDeliver, CDeliverError, CIgnore
<1>4. CASE CPing \/ CWriterFails
  BY <1>4 DEF LinkEffect, CPing, CWriterFails
<1>5. ASSUME NEW k \in Inst, InternalReadStep(k) \/ InternalWriteStep(k) PROVE LinkEffect
  BY <1>5 DEF InternalReadStep, InternalWriteStep, LinkEffect, ISend, IReadEnds, IWrite, IWriteEnds
<1>6. ASSUME NEW k \in Inst, IRead(k) \/ IClose(k) PROVE LinkEffect
  BY <1>6 DEF LinkEffect, IRead, IClose
<1> QED BY <1>1, <1>2, <1>3, <1>4, <1>5, <1>6 DEF ClientNext

(* Every step of the session has such an effect on the link. *)
LEMMA NextEffect == TypeOK /\ [Next]_vars => LinkEffect
<1> SUFFICES ASSUME TypeOK, [Next]_vars PROVE LinkEffect
  OBVIOUS
<1>1. CASE ServerNext
  BY <1>1, ServerEffect
<1>2. CASE ClientNext
  BY <1>2, ClientEffect DEF TypeOK
<1>3. CASE NetworkCut \/ UNCHANGED vars
  BY <1>3 DEF LinkEffect, NetworkCut, vars, linkVars
<1> QED BY <1>1, <1>2, <1>3 DEF Next

(* Refinement: whatever the two sessions do, their link is a bounded FIFO  *)
(* in each direction that loses nothing but a tail when its write task     *)
(* ends and takes nothing afterwards.                                      *)
THEOREM LinkImplementsPipe == Spec => LinkIsPipe
<1>1. Init => ToClientPipe!PipeInit /\ ToServerPipe!PipeInit
  BY DEF Init, LinkInit, ToClientPipe!PipeInit, ToServerPipe!PipeInit
<1>2. TypeOK /\ [Next]_vars =>
          [DownStep]_(ToClientPipe!pipeVars) /\ [UpStep]_(ToServerPipe!pipeVars)
  BY NextEffect, EffectDown, EffectUp DEF TypeOK
<1> QED
  BY <1>1, <1>2, TypeCorrect, PTL
  DEF Spec, LinkIsPipe, ToClientPipe!PipeSpec, ToServerPipe!PipeSpec, DownStep, UpStep

-----------------------------------------------------------------------------
(* The registration of a proxy.  The client registers one entry after the  *)
(* other, so at any time at most one registration is outstanding; follow   *)
(* it from the Register frame over the listener task, or the main loop     *)
(* above the limit, to the RegisterAck.                                    *)

NoneOf(q, type) == \A i \in DOMAIN q : q[i].type # type

(* f is the only frame of its type in q. *)
Single(q, f) ==
    \E i \in DOMAIN q : q[i] = f /\ \A j \in DOMAIN q : q[j].type = f.type => j = i

Due == {"spawned", "ack", "reject"}

(* Proxy p was confirmed: its port stays bound until the session ends. *)
Confirmed(p) ==
    /\ listener[p] \notin {"none"} \cup Due
    /\ smain # "ended" => listener[p] \in {"accept", "permit"}

NoRequest == NoneOf(c2s, "Register")
NoTask    == \A p \in ProxyId : listener[p] \notin Due
NoReply   == smain # "reply"
NoAnswer  == NoneOf(s2c, "RegisterAck")

NothingOutstanding == NoRequest /\ NoTask /\ NoReply /\ NoAnswer

RequestOutstanding ==
    Single(c2s, RegisterFrame(creg)) /\ NoTask /\ NoReply /\ NoAnswer

TaskOutstanding ==
    /\ NoRequest /\ NoReply /\ NoAnswer
    /\ \E p \in ProxyId : /\ listener[p] \in Due /\ lentry[p] = creg
                          /\ \A q \in ProxyId : listener[q] \in Due => q = p

ReplyOutstanding ==
    NoRequest /\ NoTask /\ smain = "reply" /\ ~spend.success /\ NoAnswer

AnswerOutstanding ==
    /\ NoRequest /\ NoTask /\ NoReply
    /\ \E f \in RegisterAckFrames :
          /\ Single(s2c, f)
          /\ f.success => Confirmed(f.proxy_id) /\ lentry[f.proxy_id] = creg

(* The inductive invariant behind ProxyAgreement. *)
Registration ==
    /\ \A p \in ProxyId : p >= next_proxy_id => listener[p] = "none"
    /\ \A p \in ProxyId : proxy_configs[p] # 0 =>
          Confirmed(p) /\ lentry[p] = proxy_configs[p]
    /\ \/ NothingOutstanding
       \/ /\ cmain \in {"await", "ended"}
          /\ \/ RequestOutstanding \/ TaskOutstanding
             \/ ReplyOutstanding \/ AnswerOutstanding

(* What appending, reading and truncating do to the frames of a type. *)
LEMMA NoneOfQueues ==
    ASSUME NEW q \in Seq(Frame), NEW f \in Frame, NEW t
    PROVE  /\ NoneOf(q, t) /\ f.type # t => NoneOf(Append(q, f), t)
           /\ NoneOf(q, t) /\ q # <<>> => NoneOf(Tail(q), t) /\ Head(q).type # t
           /\ \A n \in 0..Len(q) : NoneOf(q, t) => NoneOf(SubSeq(q, 1, n), t)
           /\ NoneOf(<<>>, t)
<1>1. NoneOf(q, t) /\ f.type # t => NoneOf(Append(q, f), t)
  BY DEF NoneOf
<1>2. NoneOf(q, t) /\ q # <<>> => NoneOf(Tail(q), t) /\ Head(q).type # t
  BY DEF NoneOf
<1>3. \A n \in 0..Len(q) : NoneOf(q, t) => NoneOf(SubSeq(q, 1, n), t)
  BY DEF NoneOf
<1>4. NoneOf(<<>>, t)
  BY DEF NoneOf
<1> QED BY <1>1, <1>2, <1>3, <1>4

(* ... and to a frame that is alone of its type. *)
LEMMA SingleQueues ==
    ASSUME NEW q \in Seq(Frame), NEW f \in Frame, NEW g \in Frame
    PROVE  /\ NoneOf(q, f.type) => Single(Append(q, f), f)
           /\ Single(q, g) /\ f.type # g.type => Single(Append(q, f), g)
           /\ Single(q, g) /\ q # <<>> /\ Head(q).type = g.type =>
                 Head(q) = g /\ NoneOf(Tail(q), g.type)
           /\ Single(q, g) /\ q # <<>> /\ Head(q).type # g.type => Single(Tail(q), g)
           /\ \A n \in 0..Len(q) : Single(q, g) =>
                 Single(SubSeq(q, 1, n), g) \/ NoneOf(SubSeq(q, 1, n), g.type)
<1>1. NoneOf(q, f.type) => Single(Append(q, f), f)
  <2> SUFFICES ASSUME NoneOf(q, f.type) PROVE Single(Append(q, f), f)
    OBVIOUS
  <2>1. Len(q) + 1 \in DOMAIN Append(q, f) /\ Append(q, f)[Len(q) + 1] = f
    OBVIOUS
  <2>2. \A j \in DOMAIN Append(q, f) : Append(q, f)[j].type = f.type => j = Len(q) + 1
    BY DEF NoneOf
  <2> QED BY <2>1, <2>2 DEF Single
<1>2. ASSUME Single(q, g), f.type # g.type PROVE Single(Append(q, f), g)
  <2>1. PICK i \in DOMAIN q : q[i] = g /\ \A j \in DOMAIN q : q[j].type = g.type => j = i
    BY <1>2 DEF Single
  <2>2. i \in DOMAIN Append(q, f) /\ Append(q, f)[i] = g
    BY <2>1
  <2>3. \A j \in DOMAIN Append(q, f) : Append(q, f)[j].type = g.type => j = i
    BY <1>2, <2>1
  <2> QED BY <2>2, <2>3 DEF Single
<1>3. ASSUME Single(q, g), q # <<>>, Head(q).type = g.type
      PROVE  Head(q) = g /\ NoneOf(Tail(q), g.type)
  <2>1. PICK i \in DOMAIN q : q[i] = g /\ \A j \in DOMAIN q : q[j].type = g.type => j = i
    BY <1>3 DEF Single
  <2>2. 1 \in DOMAIN q /\ q[1] = Head(q)
    BY <1>3
  <2>3. i = 1
    BY <1>3, <2>1, <2>2
  <2>4. \A j \in DOMAIN Tail(q) : j + 1 \in DOMAIN q /\ Tail(q)[j] = q[j + 1] /\ j + 1 # 1
    BY <1>3
  <2> QED BY <2>1, <2>2, <2>3, <2>4 DEF NoneOf
<1>4. ASSUME Single(q, g), q # <<>>, Head(q).type # g.type PROVE Single(Tail(q), g)
  <2>1. PICK i \in DOMAIN q : q[i] = g /\ \A j \in DOMAIN q : q[j].type = g.type => j = i
    BY <1>4 DEF Single
  <2>2. i # 1
    BY <1>4, <2>1
  <2>3. i - 1 \in DOMAIN Tail(q) /\ Tail(q)[i - 1] = g
    BY <1>4, <2>1, <2>2
  <2>4. \A j \in DOMAIN Tail(q) : j \in Nat /\ j + 1 \in DOMAIN q /\ Tail(q)[j] = q[j + 1]
    BY <1>4
  <2>5. \A j \in DOMAIN Tail(q) : Tail(q)[j].type = g.type => j = i - 1
    BY <2>1, <2>4
  <2> QED BY <2>3, <2>5 DEF Single
<1>5. ASSUME NEW n \in 0..Len(q), Single(q, g)
      PROVE  Single(SubSeq(q, 1, n), g) \/ NoneOf(SubSeq(q, 1, n), g.type)
  <2> DEFINE r == SubSeq(q, 1, n)
  <2>1. PICK i \in DOMAIN q : q[i] = g /\ \A j \in DOMAIN q : q[j].type = g.type => j = i
    BY <1>5 DEF Single
  <2>2. \A j \in DOMAIN r : j \in DOMAIN q /\ r[j] = q[j]
    OBVIOUS
  <2>3. CASE i \in DOMAIN r
    BY <2>1, <2>2, <2>3 DEF Single
  <2>4. CASE i \notin DOMAIN r
    BY <2>1, <2>2, <2>4 DEF NoneOf
  <2> QED BY <2>3, <2>4
<1> QED BY <1>1, <1>2, <1>3, <1>4, <1>5

(* No frame of the type has joined the queue; one may have left it. *)
Fades(q, r, type) ==
    /\ NoneOf(q, type) => NoneOf(r, type)
    /\ \A f \in Frame : f.type = type /\ Single(q, f) => Single(r, f) \/ NoneOf(r, type)

(* What a step that concerns no registration does to the link. *)
QuietLink ==
    \/ \E f \in Frame : /\ f.type \notin {"Register", "RegisterAck"}
                        /\ ToClient(f) \/ ToServer(f)
    \/ \E t : ServerReads(t) \/ ClientReads(t)
    \/ ServerWriteFails \/ ClientWriteFails
    \/ UNCHANGED <<s2c, c2s>>
    \/ s2c' = s2c /\ \E n \in 0..Len(c2s) : c2s' = SubSeq(c2s, 1, n)

(* Neither queue gains a Register or a RegisterAck in such a step. *)
LEMMA QuietFades ==
    ASSUME LinkTypeOK, QuietLink
    PROVE  Fades(c2s, c2s', "Register") /\ Fades(s2c, s2c', "RegisterAck")
<1>0. s2c \in Seq(Frame) /\ c2s \in Seq(Frame)
  BY DEF LinkTypeOK
<1>1. \A q \in Seq(Frame), f \in Frame, t \in {"Register", "RegisterAck"} :
          f.type # t => Fades(q, Append(q, f), t)
  BY NoneOfQueues, SingleQueues DEF Fades
<1>2. \A t : \A q \in Seq(Frame) : q # <<>> => Fades(q, Tail(q), t)
  <2> SUFFICES ASSUME NEW q \in Seq(Frame), NEW t, q # <<>> PROVE Fades(q, Tail(q), t)
    OBVIOUS
  <2>1. Head(q) \in Frame
    BY DequeueType
  <2> QED BY <2>1, NoneOfQueues, SingleQueues DEF Fades
<1>3. \A t : \A q \in Seq(Frame) : \A n \in 0..Len(q) : Fades(q, SubSeq(q, 1, n), t)
  <2> SUFFICES ASSUME NEW q \in Seq(Frame), NEW t, NEW n \in 0..Len(q)
               PROVE  Fades(q, SubSeq(q, 1, n), t)
    OBVIOUS
  <2>1. new_ping_frame \in Frame
    BY ConstructorsType
  <2> QED BY <2>1, NoneOfQueues, SingleQueues DEF Fades
<1>4. \A q, t : Fades(q, q, t) /\ Fades(q, <<>>, t)
  <2>1. ASSUME NEW t PROVE NoneOf(<<>>, t)
    BY DEF NoneOf
  <2> QED BY <2>1 DEF Fades
<1>5. ASSUME NEW f \in Frame, f.type \notin {"Register", "RegisterAck"},
             ToClient(f) \/ ToServer(f)
      PROVE  Fades(c2s, c2s', "Register") /\ Fades(s2c, s2c', "RegisterAck")
  <2>0. f.type # "Register" /\ f.type # "RegisterAck"
    BY <1>5
  <2>1. Fades(c2s, Append(c2s, f), "Register") /\ Fades(s2c, Append(s2c, f), "RegisterAck")
    BY <1>0, <1>1, <2>0
  <2> QED BY <1>4, <1>5, <2>1 DEF ToClient, ToServer
<1>6. ASSUME NEW t, ServerReads(t) \/ ClientReads(t)
      PROVE  Fades(c2s, c2s', "Register") /\ Fades(s2c, s2c', "RegisterAck")
  BY <1>0, <1>2, <1>4, <1>6 DEF ServerReads, ClientReads
<1>7. CASE ServerWriteFails \/ ClientWriteFails
  BY <1>4, <1>7 DEF ServerWriteFails, ClientWriteFails
<1>8. CASE UNCHANGED <<s2c, c2s>>
  BY <1>4, <1>8
<1>9. CASE s2c' = s2c /\ \E n \in 0..Len(c2s) : c2s' = SubSeq(c2s, 1, n)
  BY <1>0, <1>3, <1>4, <1>9
<1> QED BY <1>5, <1>6, <1>7, <1>8, <1>9 DEF QuietLink

(* What a step that concerns no registration does to the two sessions. *)
QuietSessions ==
    /\ UNCHANGED <<lentry, next_proxy_id, creg, proxy_configs>>
    /\ \A p \in ProxyId : /\ listener'[p] \in Due => listener[p] \in Due
                          /\ listener[p] = "none" => listener'[p] = "none"
                          /\ Confirmed(p) => Confirmed(p)'
    /\ smain' = "reply" => smain = "reply" /\ spend' = spend
    /\ cmain \in {"await", "ended"} => cmain' \in {"await", "ended"}

(* Such a step leaves the outstanding registration where it is, or loses   *)
(* it for good.                                                            *)
LEMMA QuietStep ==
    ASSUME TypeOK, Registration, QuietLink, QuietSessions
    PROVE  Registration'
<1>1. Fades(c2s, c2s', "Register") /\ Fades(s2c, s2c', "RegisterAck")
  BY QuietFades DEF TypeOK
<1>2. /\ NoRequest => NoRequest'
      /\ NoTask => NoTask'
      /\ NoReply => NoReply'
      /\ NoAnswer => NoAnswer'
  BY <1>1 DEF QuietSessions, Fades, NoRequest, NoTask, NoReply, NoAnswer
<1>3. /\ \A p \in ProxyId : p >= next_proxy_id' => listener'[p] = "none"
      /\ \A p \in ProxyId : proxy_configs'[p] # 0 =>
            Confirmed(p)' /\ lentry'[p] = proxy_configs'[p]
  BY DEF Registration, QuietSessions
<1>4. RequestOutstanding => RequestOutstanding' \/ NothingOutstanding'
  <2>1. RegisterFrame(creg) \in Frame /\ RegisterFrame(creg).type = "Register"
    BY ConstructorsType DEF TypeOK, ClientTypeOK, RegisterFrame
  <2>2. creg' = creg
    BY DEF QuietSessions
  <2> QED BY <1>1, <1>2, <2>1, <2>2
          DEF RequestOutstanding, NothingOutstanding, NoRequest, Fades
<1>5. TaskOutstanding => TaskOutstanding' \/ NothingOutstanding'
  <2> SUFFICES ASSUME TaskOutstanding PROVE TaskOutstanding' \/ NothingOutstanding'
    OBVIOUS
  <2>1. PICK p \in ProxyId : /\ listener[p] \in Due /\ lentry[p] = creg
                             /\ \A q \in ProxyId : listener[q] \in Due => q = p
    BY DEF TaskOutstanding
  <2>2. lentry' = lentry /\ creg' = creg
    BY DEF QuietSessions
  <2>3. \A q \in ProxyId : listener'[q] \in Due => q = p
    BY <2>1 DEF QuietSessions
  <2>4. CASE listener'[p] \in Due
    BY <1>2, <2>1, <2>2, <2>3, <2>4 DEF TaskOutstanding
  <2>5. CASE listener'[p] \notin Due
    BY <1>2, <2>3, <2>5 DEF TaskOutstanding, NothingOutstanding, NoTask
  <2> QED BY <2>4, <2>5
<1>6. ReplyOutstanding => ReplyOutstanding' \/ NothingOutstanding'
  BY <1>2 DEF ReplyOutstanding, NothingOutstanding, NoReply, QuietSessions
<1>7. AnswerOutstanding => AnswerOutstanding' \/ NothingOutstanding'
  <2> SUFFICES ASSUME AnswerOutstanding PROVE AnswerOutstanding' \/ NothingOutstanding'
    OBVIOUS
  <2>1. PICK f \in RegisterAckFrames :
            /\ Single(s2c, f)
            /\ f.success => Confirmed(f.proxy_id) /\ lentry[f.proxy_id] = creg
    BY DEF AnswerOutstanding
  <2>2. f \in Frame /\ f.type = "RegisterAck" /\ f.proxy_id \in ProxyId
    BY DEF Frame, RegisterAckFrames
  <2>3. f.success => Confirmed(f.proxy_id)' /\ lentry'[f.proxy_id] = creg'
    BY <2>1, <2>2 DEF QuietSessions
  <2>4. Single(s2c', f) \/ NoneOf(s2c', "RegisterAck")
    BY <1>1, <2>1, <2>2 DEF Fades
  <2>5. CASE Single(s2c', f)
    BY <1>2, <2>3, <2>5 DEF AnswerOutstanding
  <2>6. CASE NoneOf(s2c', "RegisterAck")
    BY <1>2, <2>6 DEF AnswerOutstanding, NothingOutstanding, NoAnswer
  <2> QED BY <2>4, <2>5, <2>6
<1>8. NothingOutstanding => NothingOutstanding'
  BY <1>2 DEF NothingOutstanding
<1>9. cmain \in {"await", "ended"} => cmain' \in {"await", "ended"}
  BY DEF QuietSessions
<1> QED BY <1>3, <1>4, <1>5, <1>6, <1>7, <1>8, <1>9 DEF Registration

(* Steps that leave the listeners alone. *)
LEMMA QuietListeners ==
    ASSUME UNCHANGED <<listener, lentry, next_proxy_id, clientVars>>,
           smain' = "reply" => smain = "reply" /\ spend' = spend,
           smain = "ended" => smain' = "ended"
    PROVE  QuietSessions
  BY DEF QuietSessions, Confirmed, clientVars, cMainVars

(* The main loop and the write task of the server. *)
LEMMA RegistrationMainLoop ==
    ASSUME TypeOK, Registration, MainLoopStep \/ ServerWriterStep, UNCHANGED clientVars
    PROVE  Registration'
<1> USE DEF serverVars, sMainVars, listenVars, linkVars
<1>1. CASE SRegister
  <2> DEFINE p == next_proxy_id
  <2>1. /\ Head(c2s) \in RegisterFrames /\ c2s \in Seq(Frame) /\ c2s # <<>>
        /\ c2s' = Tail(c2s) /\ s2c' = s2c
    BY <1>1, LinkOps, FrameKinds DEF SRegister, TypeOK, ServerReads, LinkTypeOK
  <2>2. Head(c2s).type = "Register" /\ Head(c2s) \in Frame
    BY <2>1 DEF RegisterFrames, Frame
  <2>3. /\ ~NoRequest
        /\ RequestOutstanding
        /\ cmain \in {"await", "ended"}
    BY <2>1, <2>2, NoneOfQueues
       DEF Registration, NoRequest, NothingOutstanding, TaskOutstanding, ReplyOutstanding,
           AnswerOutstanding
  <2>4. RegisterFrame(creg) \in Frame /\ RegisterFrame(creg).type = "Register"
    BY ConstructorsType DEF TypeOK, ClientTypeOK, RegisterFrame
  <2>5. Head(c2s) = RegisterFrame(creg) /\ NoRequest'
    BY <2>1, <2>2, <2>3, <2>4, SingleQueues DEF RequestOutstanding, NoRequest
  <2>6. Head(c2s).client = creg
    BY <2>5 DEF RegisterFrame
  <2>7. /\ p \in ProxyId /\ listener[p] = "none"
        /\ next_proxy_id' = p + 1 /\ p \in Nat
        /\ listener' = [listener EXCEPT ![p] = "spawned"]
        /\ lentry' = [lentry EXCEPT ![p] = creg]
        /\ smain' = smain /\ smain = "read" /\ UNCHANGED <<creg, proxy_configs, cmain>>
    <3>1. p \in ProxyId /\ p \in Nat
      BY <1>1, FramesAssumption DEF SRegister, TypeOK, ServerTypeOK, ProxyId
    <3>2. listener[p] = "none"
      BY <3>1 DEF Registration
    <3> QED BY <1>1, <2>6, <3>1, <3>2 DEF SRegister, clientVars, cMainVars
  <2>8. TaskOutstanding'
    <3>1. listener'[p] \in Due /\ lentry'[p] = creg'
      BY <2>7 DEF TypeOK, ServerTypeOK, Due
    <3>2. \A q \in ProxyId : listener'[q] \in Due => q = p
      BY <2>3, <2>7 DEF TypeOK, ServerTypeOK, RequestOutstanding, NoTask
    <3>3. NoReply' /\ NoAnswer'
      BY <2>1, <2>3, <2>7 DEF RequestOutstanding, NoReply, NoAnswer
    <3> QED BY <2>5, <2>7, <3>1, <3>2, <3>3 DEF TaskOutstanding
  <2>9. \A q \in ProxyId : q >= next_proxy_id' => listener'[q] = "none"
    BY <2>7, FramesAssumption DEF TypeOK, ServerTypeOK, Registration, ProxyId
  <2>10. \A q \in ProxyId : Confirmed(q) => Confirmed(q)' /\ q # p
    BY <2>7 DEF Confirmed, TypeOK, ServerTypeOK
  <2>11. \A q \in ProxyId : proxy_configs'[q] # 0 =>
            Confirmed(q)' /\ lentry'[q] = proxy_configs'[q]
    BY <2>7, <2>10 DEF Registration, TypeOK, ServerTypeOK
  <2> QED BY <2>3, <2>7, <2>8, <2>9, <2>11 DEF Registration
<1>2. CASE SRegisterOverLimit
  <2>1. /\ Head(c2s) \in RegisterFrames /\ c2s \in Seq(Frame) /\ c2s # <<>>
        /\ c2s' = Tail(c2s) /\ s2c' = s2c
    BY <1>2, LinkOps, FrameKinds DEF SRegisterOverLimit, TypeOK, ServerReads, LinkTypeOK
  <2>2. Head(c2s).type = "Register" /\ Head(c2s) \in Frame
    BY <2>1 DEF RegisterFrames, Frame
  <2>3. RequestOutstanding /\ cmain \in {"await", "ended"}
    BY <2>1, <2>2, NoneOfQueues
       DEF Registration, NoRequest, NothingOutstanding, TaskOutstanding, ReplyOutstanding,
           AnswerOutstanding
  <2>4. RegisterFrame(creg) \in Frame /\ RegisterFrame(creg).type = "Register"
    BY ConstructorsType DEF TypeOK, ClientTypeOK, RegisterFrame
  <2>5. NoRequest'
    BY <2>1, <2>2, <2>3, <2>4, SingleQueues DEF RequestOutstanding, NoRequest
  <2>6. /\ UNCHANGED <<next_proxy_id, listener, lentry, creg, proxy_configs, cmain>>
        /\ smain = "read" /\ smain' = "reply" /\ ~spend'.success
    BY <1>2 DEF SRegisterOverLimit, new_reg_ack_frame, clientVars, cMainVars
  <2>7. ReplyOutstanding'
    BY <2>1, <2>3, <2>5, <2>6 DEF ReplyOutstanding, RequestOutstanding, NoTask, NoAnswer
  <2> QED BY <2>3, <2>6, <2>7 DEF Registration, Confirmed
<1>3. CASE SSend /\ smain = "reply" /\ ToClient(spend)
  <2>1. /\ spend \in RegisterAckFrames /\ s2c \in Seq(Frame)
        /\ s2c' = Append(s2c, spend) /\ c2s' = c2s
    BY <1>3 DEF TypeOK, ServerTypeOK, LinkTypeOK, ToClient
  <2>2. spend \in Frame /\ spend.type = "RegisterAck"
    BY <2>1 DEF Frame, RegisterAckFrames
  <2>3. ReplyOutstanding /\ cmain \in {"await", "ended"}
    BY <1>3 DEF Registration, NoReply, NothingOutstanding, TaskOutstanding,
                RequestOutstanding, AnswerOutstanding
  <2>4. /\ UNCHANGED <<next_proxy_id, listener, lentry, creg, proxy_configs, cmain>>
        /\ smain = "reply" /\ smain' = "read"
    BY <1>3 DEF SSend, clientVars, cMainVars
  <2>5. Single(s2c', spend)
    BY <2>1, <2>2, <2>3, SingleQueues DEF ReplyOutstanding, NoAnswer
  <2>6. AnswerOutstanding'
    <3>1. ~spend.success /\ NoRequest' /\ NoTask' /\ NoReply'
      BY <2>1, <2>3, <2>4 DEF ReplyOutstanding, NoRequest, NoTask, NoReply
    <3> QED BY <2>1, <2>5, <3>1 DEF AnswerOutstanding
  <2> QED BY <2>3, <2>4, <2>6 DEF Registration, Confirmed
<1>4. CASE SSend /\ ~(smain = "reply" /\ ToClient(spend))
  <2>1. smain = "pong" => spend \in Frame /\ spend.type = "Control"
    BY DEF TypeOK, ServerTypeOK, Frame, ControlFrames
  <2>2. QuietLink
    BY <1>4, <2>1 DEF SSend, QuietLink
  <2>3. QuietSessions
    BY <1>4, QuietListeners DEF SSend
  <2> QED BY <2>2, <2>3, QuietStep
<1>5. CASE SPing \/ SIgnore \/ SData \/ SRoute \/ SRouteError
  <2>1. QuietLink
    BY <1>5 DEF SPing, SIgnore, SData, SRoute, SRouteError, QuietLink
  <2>2. QuietSessions
    BY <1>5, QuietListeners DEF SPing, SIgnore, SData, SRoute, SRouteError
  <2> QED BY <2>1, <2>2, QuietStep
<1>6. CASE SStop \/ ServerWriterStep
  <2>1. QuietLink
    BY <1>6 DEF SStop, ServerWriterStep, SWriterEnds, SWriterFails, QuietLink
  <2>2. QuietSessions
    BY <1>6, QuietListeners DEF SStop, ServerWriterStep, SWriterEnds, SWriterFails
  <2> QED BY <2>1, <2>2, QuietStep
<1> QED BY <1>1, <1>2, <1>3, <1>4, <1>5, <1>6 DEF MainLoopStep

(* An answer is given for the outstanding registration and no other. *)
LEMMA RegistrationAnswered ==
    ASSUME TypeOK, Registration, NEW p \in ProxyId, listener[p] \in Due,
           NEW f \in RegisterAckFrames, s2c' = Append(s2c, f), c2s' = c2s,
           NEW s \in {"accept", "dead"}, listener' = [listener EXCEPT ![p] = s],
           f.success => f.proxy_id = p /\ s = "accept",
           UNCHANGED <<lentry, next_proxy_id, smain, clientVars>>
    PROVE  Registration'
<1>1. TaskOutstanding /\ cmain \in {"await", "ended"}
  BY DEF Registration, NoTask, NothingOutstanding, RequestOutstanding, ReplyOutstanding,
         AnswerOutstanding
<1>2. lentry[p] = creg /\ \A q \in ProxyId : listener[q] \in Due => q = p
  BY <1>1 DEF TaskOutstanding
<1>3. f \in Frame /\ f.type = "RegisterAck"
  BY DEF Frame, RegisterAckFrames
<1>4. Single(s2c', f)
  BY <1>1, <1>3, SingleQueues DEF TaskOutstanding, NoAnswer, TypeOK, LinkTypeOK
<1>5. /\ listener'[p] = s
      /\ \A q \in ProxyId : q # p => listener'[q] = listener[q]
  BY DEF TypeOK, ServerTypeOK
<1>6. UNCHANGED <<creg, cmain, proxy_configs>>
  BY DEF clientVars, cMainVars
<1>7. NoRequest' /\ NoReply' /\ NoTask'
  BY <1>1, <1>2, <1>5 DEF TaskOutstanding, NoRequest, NoReply, NoTask, Due
<1>8. f.success => Confirmed(f.proxy_id)' /\ lentry'[f.proxy_id] = creg'
  BY <1>2, <1>5, <1>6 DEF Confirmed, Due
<1>9. AnswerOutstanding'
  BY <1>4, <1>7, <1>8 DEF AnswerOutstanding
<1>10. \A q \in ProxyId : Confirmed(q) => q # p /\ Confirmed(q)'
  BY <1>5 DEF Confirmed
<1>11. \A q \in ProxyId : q >= next_proxy_id' => listener'[q] = "none"
  BY <1>5 DEF Registration, Due
<1>12. \A q \in ProxyId : proxy_configs'[q] # 0 =>
            Confirmed(q)' /\ lentry'[q] = proxy_configs'[q]
  BY <1>6, <1>10 DEF Registration
<1> QED BY <1>1, <1>6, <1>9, <1>11, <1>12 DEF Registration

(* The listener tasks. *)
LEMMA RegistrationListener ==
    ASSUME TypeOK, Registration, NEW p \in ProxyId, ListenerStep(p) \/ LAccept(p),
           UNCHANGED clientVars
    PROVE  Registration'
<1> USE DEF sMainVars, linkVars
<1>1. CASE LAck(p) /\ ToClient(new_reg_ack_frame(lentry[p], TRUE, p))
  <2>1. new_reg_ack_frame(lentry[p], TRUE, p) \in RegisterAckFrames
    BY <1>1 DEF LAck, TypeOK, ServerTypeOK, RegisterAckFrames, new_reg_ack_frame
  <2>2. new_reg_ack_frame(lentry[p], TRUE, p).proxy_id = p
    BY DEF new_reg_ack_frame
  <2> QED BY <1>1, <2>1, <2>2, RegistrationAnswered DEF LAck, ToClient, Due
<1>2. CASE LReject(p) /\ ToClient(new_reg_ack_frame(lentry[p], FALSE, 0))
  <2>1. new_reg_ack_frame(lentry[p], FALSE, 0) \in RegisterAckFrames
    BY <1>2, ZeroProxy DEF LReject, TypeOK, ServerTypeOK, RegisterAckFrames, new_reg_ack_frame
  <2>2. ~new_reg_ack_frame(lentry[p], FALSE, 0).success
    BY DEF new_reg_ack_frame
  <2> QED BY <1>2, <2>1, <2>2, RegistrationAnswered DEF LReject, ToClient, Due
<1>3. CASE \/ LBind(p) \/ LBindFails(p) \/ LPermit(p) \/ LAbort(p) \/ LAccept(p)
           \/ LAck(p) /\ UNCHANGED linkVars
           \/ LReject(p) /\ UNCHANGED linkVars
  <2>1. PICK s : /\ listener' = [listener EXCEPT ![p] = s]
                 /\ \/ listener[p] = "spawned" /\ s \in {"ack", "reject"}
                    \/ listener[p] = "ack" /\ s = "accept"
                    \/ listener[p] = "reject" /\ s = "dead"
                    \/ listener[p] \in {"accept", "permit"} /\ s \in {"accept", "permit"}
                    \/ smain = "ended" /\ listener[p] # "none" /\ s = "dead"
    <3>1. CASE LBind(p) \/ LBindFails(p) \/ LPermit(p) \/ LAccept(p)
      BY <3>1 DEF LBind, LBindFails, LPermit, LAccept
    <3>2. CASE LAbort(p)
      BY <3>2 DEF LAbort, Aborted
    <3>3. CASE LAck(p) \/ LReject(p)
      BY <3>3 DEF LAck, LReject
    <3> QED BY <1>3, <3>1, <3>2, <3>3
  <2>2. \A q \in ProxyId : listener'[q] = IF q = p THEN s ELSE listener[q]
    BY <2>1 DEF TypeOK, ServerTypeOK
  <2>0. UNCHANGED <<lentry, next_proxy_id, smain, spend, clientVars, s2c, c2s>>
    <3>1. UNCHANGED <<lentry, next_proxy_id, smain, spend, c2s>>
      BY <1>3, ListenerMoves DEF ListenerStep
    <3>2. s2c' = s2c
      <4>1. CASE LBind(p) \/ LBindFails(p) \/ LPermit(p)
        BY <4>1 DEF LBind, LBindFails, LPermit
      <4>2. CASE LAbort(p) \/ LAccept(p)
        BY <4>2 DEF LAbort, LAccept
      <4> QED BY <1>3, <4>1, <4>2
    <3> QED BY <3>1, <3>2
  <2>3. /\ listener[p] # "none"
        /\ listener'[p] \in Due => listener[p] \in Due
        /\ listener[p] \in {"accept", "permit"} /\ smain # "ended" =>
              listener'[p] \in {"accept", "permit"}
        /\ listener[p] \notin Due => listener'[p] \notin Due \cup {"none"}
    BY <2>1, <2>2 DEF Due
  <2>4. \A q \in ProxyId : Confirmed(q) => Confirmed(q)'
    BY <2>0, <2>2, <2>3 DEF Confirmed
  <2>5. QuietSessions
    BY <2>0, <2>2, <2>3, <2>4 DEF QuietSessions, clientVars, cMainVars
  <2>6. QuietLink
    BY <2>0 DEF QuietLink
  <2> QED BY <2>5, <2>6, QuietStep
<1> QED BY <1>1, <1>2, <1>3 DEF ListenerStep, LAck, LReject

(* The tasks of the external connections. *)
LEMMA RegistrationExternal ==
    ASSUME TypeOK, Registration, NEW c \in Key,
           ExternalReadStep(c) \/ ExternalWriteStep(c) \/ ERead(c) \/ EClose(c),
           UNCHANGED clientVars
    PROVE  Registration'
<1> USE DEF sMainVars, listenVars, linkVars
<1>1. QuietSessions
  BY QuietListeners DEF ExternalReadStep, ExternalWriteStep, ESend, EReadEnds, EWrite,
                        EWriteEnds, ERead, EClose
<1>2. eread[c] = "send" => /\ new_data_frame(ExternalChunk(c), c) \in Frame
                           /\ new_data_frame(ExternalChunk(c), c).type = "Data"
  BY ExternalChunkType, ConstructorsType DEF TypeOK, new_data_frame
<1>3. QuietLink
  BY <1>2 DEF QuietLink, ExternalReadStep, ExternalWriteStep, ESend, EReadEnds, EWrite,
              EWriteEnds, ERead, EClose
<1> QED BY <1>1, <1>3, QuietStep

(* The two steps of the client's first phase. *)
LEMMA RegistrationPhase1 ==
    ASSUME TypeOK, Registration, CRegister \/ CRegistered, UNCHANGED serverVars
    PROVE  Registration'
<1>0. /\ UNCHANGED <<listener, lentry, next_proxy_id, smain>>
      /\ \A p : Confirmed(p) <=> Confirmed(p)'
  BY DEF serverVars, sMainVars, listenVars, Confirmed
<1>1. CASE CRegister
  <2>1. NothingOutstanding
    BY <1>1 DEF CRegister, Registration
  <2>2. RegisterFrame(creg) \in Frame /\ RegisterFrame(creg).type = "Register"
    BY ConstructorsType DEF TypeOK, ClientTypeOK, RegisterFrame
  <2>3. /\ c2s' = Append(c2s, RegisterFrame(creg)) /\ s2c' = s2c
        /\ cmain' = "await" /\ UNCHANGED <<creg, proxy_configs>>
    BY <1>1 DEF CRegister, ToServer
  <2>4. Single(c2s', RegisterFrame(creg'))
    BY <2>1, <2>2, <2>3, SingleQueues
       DEF TypeOK, LinkTypeOK, NothingOutstanding, NoRequest
  <2>5. RequestOutstanding'
    BY <1>0, <2>1, <2>3, <2>4
       DEF RequestOutstanding, NothingOutstanding, NoTask, NoReply, NoAnswer
  <2> QED BY <1>0, <2>3, <2>5 DEF Registration
<1>2. CASE CRegistered
  <2>1. /\ Head(s2c) \in RegisterAckFrames /\ s2c \in Seq(Frame) /\ s2c # <<>>
        /\ s2c' = Tail(s2c) /\ c2s' = c2s
    BY <1>2, LinkOps, FrameKinds DEF CRegistered, TypeOK, ClientReads, LinkTypeOK
  <2>2. Head(s2c).type = "RegisterAck" /\ Head(s2c) \in Frame /\ Head(s2c).proxy_id \in ProxyId
    BY <2>1 DEF RegisterAckFrames, Frame
  <2>3. AnswerOutstanding
    BY <2>1, <2>2, NoneOfQueues
       DEF Registration, NoAnswer, NothingOutstanding, TaskOutstanding, ReplyOutstanding,
           RequestOutstanding
  <2>4. PICK f \in RegisterAckFrames :
            /\ Single(s2c, f)
            /\ f.success => Confirmed(f.proxy_id) /\ lentry[f.proxy_id] = creg
    BY <2>3 DEF AnswerOutstanding
  <2>5. f \in Frame /\ f.type = "RegisterAck"
    BY DEF Frame, RegisterAckFrames
  <2>6. f = Head(s2c) /\ NoAnswer'
    BY <2>1, <2>2, <2>4, <2>5, SingleQueues DEF NoAnswer
  <2>7. /\ f.success /\ f.proxy_id \in ProxyId
        /\ proxy_configs' = [proxy_configs EXCEPT ![f.proxy_id] = creg]
    BY <1>2, <2>2, <2>6 DEF CRegistered
  <2>8. \A p \in ProxyId : proxy_configs'[p] =
            IF p = f.proxy_id THEN creg ELSE proxy_configs[p]
    BY <2>7 DEF TypeOK, ClientTypeOK
  <2>9. \A p \in ProxyId : proxy_configs'[p] # 0 =>
            Confirmed(p)' /\ lentry'[p] = proxy_configs'[p]
    BY <1>0, <2>4, <2>7, <2>8 DEF Registration
  <2>10. NothingOutstanding'
    BY <1>0, <2>1, <2>3, <2>6
       DEF AnswerOutstanding, NothingOutstanding, NoTask, NoReply, NoRequest
  <2> QED BY <1>0, <2>9, <2>10 DEF Registration
<1> QED BY <1>1, <1>2

(* Every step of the client. *)
LEMMA RegistrationClient ==
    ASSUME TypeOK, Registration, ClientNext, UNCHANGED serverVars
    PROVE  Registration'
<1> USE DEF clientVars, cMainVars, linkVars
<1>0. UNCHANGED <<listener, lentry, next_proxy_id, smain, spend>>
  BY DEF serverVars, sMainVars, listenVars
<1>1. ASSUME UNCHANGED <<creg, proxy_configs>>,
             cmain \in {"await", "ended"} => cmain' \in {"await", "ended"}
      PROVE  QuietSessions
  BY <1>0, <1>1 DEF QuietSessions, Confirmed
<1>2. CASE CRegister \/ CRegistered
  BY <1>2, RegistrationPhase1
<1>3. CASE CReturn \/ CStop
  <2>1. QuietLink
    BY <1>3 DEF CReturn, CStop, QuietLink
  <2>2. QuietSessions
    BY <1>1, <1>3 DEF CReturn, CStop
  <2> QED BY <2>1, <2>2, QuietStep
<1>4. CASE CData \/ CConnect \/ CConnectFails \/ CDeliver \/ CDeliverError \/ CIgnore
  <2>1. QuietLink
    BY <1>4 DEF CData, CConnect, CConnectFails, CDeliver, CDeliverError, CIgnore, QuietLink
  <2>2. QuietSessions
    BY <1>1, <1>4 DEF CData, CConnect, CConnectFails, CDeliver, CDeliverError, CIgnore
  <2> QED BY <2>1, <2>2, QuietStep
<1>5. CASE CPing \/ CWriterFails
  <2>1. new_ping_frame \in Frame /\ new_ping_frame.type = "Control"
    BY ConstructorsType DEF new_ping_frame
  <2>2. QuietLink
    BY <1>5, <2>1 DEF CPing, CWriterFails, QuietLink
  <2>3. QuietSessions
    BY <1>1, <1>5 DEF CPing, CWriterFails
  <2> QED BY <2>2, <2>3, QuietStep
<1>6. ASSUME NEW k \in Inst,
             InternalReadStep(k) \/ InternalWriteStep(k) \/ IRead(k) \/ IClose(k)
      PROVE  Registration'
  <2>1. iread[k] = "send" => /\ new_data_frame(ServiceChunk(k), ikey[k]) \in Frame
                             /\ new_data_frame(ServiceChunk(k), ikey[k]).type = "Data"
    BY ServiceChunkType, ConstructorsType DEF TypeOK, ClientTypeOK, new_data_frame
  <2>2. QuietLink
    BY <1>6, <2>1 DEF QuietLink, InternalReadStep, InternalWriteStep, ISend, IReadEnds,
                      IWrite, IWriteEnds, IRead, IClose
  <2>3. QuietSessions
    BY <1>1, <1>6 DEF InternalReadStep, InternalWriteStep, ISend, IReadEnds, IWrite,
                      IWriteEnds, IRead, IClose
  <2> QED BY <2>2, <2>3, QuietStep
<1> QED BY <1>2, <1>3, <1>4, <1>5, <1>6 DEF ClientNext, ClientMainStep

(* Every step of the session. *)
LEMMA RegistrationStep == TypeOK /\ Registration /\ [Next]_vars => Registration'
<1> SUFFICES ASSUME TypeOK, Registration, [Next]_vars PROVE Registration'
  OBVIOUS
<1>1. CASE ServerNext /\ UNCHANGED clientVars
  BY <1>1, RegistrationMainLoop, RegistrationListener, RegistrationExternal DEF ServerNext
<1>2. CASE ClientNext /\ UNCHANGED serverVars
  BY <1>2, RegistrationClient
<1>3. CASE (NetworkCut /\ UNCHANGED <<serverVars, clientVars>>) \/ UNCHANGED vars
  <2>1. UNCHANGED <<s2c, c2s, serverVars, clientVars>>
    BY <1>3 DEF NetworkCut, vars, linkVars
  <2>2. QuietSessions
    BY <2>1, QuietListeners DEF serverVars, sMainVars, listenVars
  <2>3. QuietLink
    BY <2>1 DEF QuietLink
  <2> QED BY <2>2, <2>3, QuietStep
<1> QED BY <1>1, <1>2, <1>3 DEF Next

(* At the start nothing is outstanding. *)
LEMMA RegistrationInit == Init => Registration
<1> SUFFICES ASSUME Init PROVE Registration
  OBVIOUS
<1>1. s2c = <<>> /\ c2s = <<>> /\ smain = "read"
  BY DEF Init, LinkInit, ServerInit
<1>2. \A p \in ProxyId : listener[p] = "none" /\ proxy_configs[p] = 0
  BY DEF Init, ServerInit, ClientInit
<1>3. NoRequest /\ NoAnswer
  BY <1>1 DEF NoRequest, NoAnswer, NoneOf
<1>4. NoTask /\ NoReply
  BY <1>1, <1>2 DEF NoTask, NoReply, Due
<1> QED BY <1>2, <1>3, <1>4 DEF Registration, NothingOutstanding

(* A proxy_id the client has recorded denotes, on the server, the entry    *)
(* the client recorded it for, and its port is bound while the session     *)
(* lasts, however registrations, answers, faults and the teardown fall.    *)
THEOREM ProxiesAgree == Spec => []ProxyAgreement
<1>1. Registration => ProxyAgreement
  BY DEF Registration, ProxyAgreement, Confirmed, HoldsPort
<1> QED BY <1>1, RegistrationInit, RegistrationStep, TypeCorrect, PTL DEF Spec

-----------------------------------------------------------------------------
(* Whose bytes are where.  A chunk is followed from the socket it was read *)
(* from, over the link, the hand of a main task and the channel of a       *)
(* connection, to the socket it is written to.                             *)

FrameTypes == {"Register", "RegisterAck", "Control", "Data"}

Elems(q) == {q[i] : i \in DOMAIN q}

(* d was sent by the user of c; by a service, on a connection opened for c. *)
FromUser(d, c) == d.key = c /\ d.inst = NoInst
FromConn(d, c) == d.inst \in Inst /\ ikey[d.inst] = c

UserBytes ==
    /\ \A f \in Elems(s2c) : f.type = "Data" => FromUser(f.data, f.key)
    /\ cmain \in {"connect", "deliver"} => FromUser(cpend.data, cpend.key)
    /\ \A k \in Inst : \A d \in Elems(to_internal[k]) \cup Elems(igot[k]) : FromUser(d, ikey[k])

ServiceBytes ==
    /\ \A f \in Elems(c2s) : f.type = "Data" => FromConn(f.data, f.key)
    /\ smain = "route" => FromConn(spend.data, spend.key)
    /\ \A c \in Key : \A d \in Elems(to_remote[c]) \cup Elems(eout[c]) : FromConn(d, c)

(* The elements of a queue after each operation on it. *)
LEMMA ElemsOf ==
    ASSUME NEW S, NEW q \in Seq(S)
    PROVE  /\ Elems(q) \subseteq S
           /\ Elems(<<>>) = {}
           /\ \A x \in S : Elems(Append(q, x)) = Elems(q) \cup {x}
           /\ q # <<>> => Head(q) \in Elems(q) /\ Elems(Tail(q)) \subseteq Elems(q)
           /\ \A n \in 0..Len(q) : Elems(SubSeq(q, 1, n)) \subseteq Elems(q)
<1>1. Elems(q) \subseteq S /\ Elems(<<>>) = {}
  BY DEF Elems
<1>2. ASSUME NEW x \in S PROVE Elems(Append(q, x)) = Elems(q) \cup {x}
  <2>1. /\ DOMAIN Append(q, x) = DOMAIN q \cup {Len(q) + 1}
        /\ \A i \in DOMAIN q : Append(q, x)[i] = q[i]
        /\ Append(q, x)[Len(q) + 1] = x
    OBVIOUS
  <2> QED BY <2>1 DEF Elems
<1>3. ASSUME q # <<>> PROVE Head(q) \in Elems(q) /\ Elems(Tail(q)) \subseteq Elems(q)
  <2>1. 1 \in DOMAIN q /\ Head(q) = q[1]
    BY <1>3
  <2>2. \A i \in DOMAIN Tail(q) : i + 1 \in DOMAIN q /\ Tail(q)[i] = q[i + 1]
    BY <1>3
  <2> QED BY <2>1, <2>2 DEF Elems
<1>4. ASSUME NEW n \in 0..Len(q) PROVE Elems(SubSeq(q, 1, n)) \subseteq Elems(q)
  <2>1. \A i \in DOMAIN SubSeq(q, 1, n) : i \in DOMAIN q /\ SubSeq(q, 1, n)[i] = q[i]
    OBVIOUS
  <2> QED BY <2>1 DEF Elems
<1> QED BY <1>1, <1>2, <1>3, <1>4

(* The server puts on the link, as data, only what the user of that key    *)
(* sent, and takes from it only what is there.                             *)
LEMMA ServerFrames ==
    ASSUME LinkTypeOK, ServerTypeOK, ServerNext
    PROVE  /\ \A f \in Elems(s2c') : \/ f \in Elems(s2c) \/ f.type # "Data"
                                     \/ FromUser(f.data, f.key)
           /\ Elems(c2s') \subseteq Elems(c2s)
<1> DEFINE Goal == /\ \A f \in Elems(s2c') : \/ f \in Elems(s2c) \/ f.type # "Data"
                                             \/ FromUser(f.data, f.key)
                   /\ Elems(c2s') \subseteq Elems(c2s)
<1> SUFFICES Goal
  OBVIOUS
<1> USE DEF linkVars
<1>0. s2c \in Seq(Frame) /\ c2s \in Seq(Frame)
  BY DEF LinkTypeOK
<1>1. ASSUME NEW g \in Frame, g.type = "Data" => FromUser(g.data, g.key), ToClient(g) PROVE Goal
  BY <1>0, <1>1, ElemsOf DEF ToClient
<1>2. ASSUME NEW t \in FrameTypes, ServerReads(t) PROVE Goal
  BY <1>0, <1>2, ElemsOf DEF ServerReads
<1>3. ASSUME UNCHANGED <<s2c, c2s>> PROVE Goal
  BY <1>3
<1> HIDE DEF Goal
<1>4. CASE SRegister \/ SRegisterOverLimit \/ SPing \/ SIgnore \/ SData
  <2>1. \E t \in FrameTypes : ServerReads(t)
    BY <1>4 DEF SRegister, SRegisterOverLimit, SPing, SIgnore, SData, FrameTypes
  <2> QED BY <1>2, <2>1
<1>5. CASE SSend
  <2>1. spend \in Frame /\ spend.type # "Data"
    BY <1>5 DEF SSend, ServerTypeOK, RegisterAckFrames, ControlFrames, Frame
  <2>2. ToClient(spend) \/ UNCHANGED linkVars
    BY <1>5 DEF SSend
  <2> QED BY <1>1, <1>3, <2>1, <2>2
<1>6. CASE SRoute \/ SRouteError \/ SStop \/ SWriterEnds
  BY <1>3, <1>6 DEF SRoute, SRouteError, SStop, SWriterEnds
<1>7. CASE SWriterFails
  BY <1>0, <1>7, ElemsOf DEF SWriterFails, ServerWriteFails, Goal
<1>8. ASSUME NEW p \in ProxyId, ListenerStep(p) \/ LAccept(p) PROVE Goal
  <2>1. CASE LAck(p)
    <3>1. /\ new_reg_ack_frame(lentry[p], TRUE, p) \in Frame
          /\ new_reg_ack_frame(lentry[p], TRUE, p).type # "Data"
      BY <2>1, ConstructorsType DEF LAck, ServerTypeOK, new_reg_ack_frame
    <3> QED BY <1>1, <1>3, <2>1, <3>1 DEF LAck
  <2>2. CASE LReject(p)
    <3>1. /\ new_reg_ack_frame(lentry[p], FALSE, 0) \in Frame
          /\ new_reg_ack_frame(lentry[p], FALSE, 0).type # "Data"
      BY <2>2, ZeroProxy, ConstructorsType DEF LReject, ServerTypeOK, new_reg_ack_frame
    <3> QED BY <1>1, <1>3, <2>2, <3>1 DEF LReject
  <2>3. CASE LBind(p) \/ LBindFails(p) \/ LPermit(p) \/ LAbort(p) \/ LAccept(p)
    BY <1>3, <2>3 DEF LBind, LBindFails, LPermit, LAbort, LAccept
  <2> QED BY <1>8, <2>1, <2>2, <2>3 DEF ListenerStep
<1>9. ASSUME NEW c \in Key, ExternalReadStep(c) \/ ExternalWriteStep(c) \/ ERead(c) \/ EClose(c)
      PROVE  Goal
  <2>1. CASE ESend(c)
    <3> DEFINE g == new_data_frame(ExternalChunk(c), c)
    <3>1. g \in Frame
      BY <2>1, ExternalChunkType, ConstructorsType DEF ESend
    <3>2. FromUser(g.data, g.key)
      BY DEF FromUser, new_data_frame, ExternalChunk
    <3> QED BY <1>1, <2>1, <3>1, <3>2 DEF ESend
  <2>2. CASE EReadEnds(c) \/ EWrite(c) \/ EWriteEnds(c) \/ ERead(c) \/ EClose(c)
    BY <1>3, <2>2 DEF EReadEnds, EWrite, EWriteEnds, ERead, EClose
  <2> QED BY <1>9, <2>1, <2>2 DEF ExternalReadStep, ExternalWriteStep
<1> QED BY <1>4, <1>5, <1>6, <1>7, <1>8, <1>9
        DEF Goal, ServerNext, MainLoopStep, ServerWriterStep

(* The client puts on the link, as data, only what a connection of that    *)
(* key answered.                                                           *)
LEMMA ClientFrames ==
    ASSUME LinkTypeOK, ClientTypeOK, ClientNext
    PROVE  /\ \A f \in Elems(c2s') : \/ f \in Elems(c2s) \/ f.type # "Data"
                                     \/ FromConn(f.data, f.key)
           /\ Elems(s2c') \subseteq Elems(s2c)
<1> DEFINE Goal == /\ \A f \in Elems(c2s') : \/ f \in Elems(c2s) \/ f.type # "Data"
                                             \/ FromConn(f.data, f.key)
                   /\ Elems(s2c') \subseteq Elems(s2c)
<1> SUFFICES Goal
  OBVIOUS
<1> USE DEF linkVars
<1>0. s2c \in Seq(Frame) /\ c2s \in Seq(Frame)
  BY DEF LinkTypeOK
<1>1. ASSUME NEW g \in Frame, g.type = "Data" => FromConn(g.data, g.key), ToServer(g) PROVE Goal
  BY <1>0, <1>1, ElemsOf DEF ToServer
<1>2. ASSUME NEW t \in FrameTypes, ClientReads(t) PROVE Goal
  BY <1>0, <1>2, ElemsOf DEF ClientReads
<1>3. ASSUME UNCHANGED <<s2c, c2s>> PROVE Goal
  BY <1>3
<1> HIDE DEF Goal
<1>4. CASE CRegistered \/ CData \/ CIgnore
  <2>1. \E t \in FrameTypes : ClientReads(t)
    BY <1>4 DEF CRegistered, CData, CIgnore, FrameTypes
  <2> QED BY <1>2, <2>1
<1>5. CASE CRegister
  <2>1. RegisterFrame(creg) \in Frame /\ RegisterFrame(creg).type # "Data"
    BY ConstructorsType DEF ClientTypeOK, RegisterFrame
  <2>2. ToServer(RegisterFrame(creg))
    BY <1>5 DEF CRegister
  <2> QED BY <1>1, <2>1, <2>2
<1>6. CASE CPing
  <2>1. new_ping_frame \in Frame /\ new_ping_frame.type # "Data"
    BY ConstructorsType DEF new_ping_frame
  <2>2. ToServer(new_ping_frame)
    BY <1>6 DEF CPing
  <2> QED BY <1>1, <2>1, <2>2
<1>7. CASE CReturn \/ CConnect \/ CConnectFails \/ CDeliver \/ CDeliverError
  BY <1>3, <1>7 DEF CReturn, CConnect, CConnectFails, CDeliver, CDeliverError
<1>8. CASE CStop \/ CWriterFails
  BY <1>0, <1>8, ElemsOf DEF CStop, CWriterFails, ClientWriteFails, Goal
<1>9. ASSUME NEW k \in Inst,
             InternalReadStep(k) \/ InternalWriteStep(k) \/ IRead(k) \/ IClose(k)
      PROVE  Goal
  <2>1. CASE ISend(k)
    <3> DEFINE g == new_data_frame(ServiceChunk(k), ikey[k])
    <3>1. g \in Frame
      BY <2>1, ServiceChunkType, ConstructorsType DEF ISend, ClientTypeOK
    <3>2. FromConn(g.data, g.key)
      BY DEF FromConn, new_data_frame, ServiceChunk
    <3> QED BY <1>1, <2>1, <3>1, <3>2 DEF ISend
  <2>2. CASE IReadEnds(k) \/ InternalWriteStep(k) \/ IRead(k) \/ IClose(k)
    BY <1>3, <2>2 DEF IReadEnds, InternalWriteStep, IWrite, IWriteEnds, IRead, IClose
  <2> QED BY <1>9, <2>1, <2>2 DEF InternalReadStep
<1> QED BY <1>4, <1>5, <1>6, <1>7, <1>8, <1>9 DEF Goal, ClientNext, ClientMainStep

(* A step of the server leaves every user's bytes with that user's key. *)
LEMMA UserBytesServer ==
    ASSUME LinkTypeOK, ServerTypeOK, UserBytes, ServerNext, UNCHANGED clientVars
    PROVE  UserBytes'
<1>1. UNCHANGED <<cmain, cpend, to_internal, igot, ikey>>
  BY DEF clientVars, cMainVars, instVars
<1>2. \A f \in Elems(s2c') : f.type = "Data" => FromUser(f.data, f.key)
  BY ServerFrames DEF UserBytes
<1> QED BY <1>1, <1>2 DEF UserBytes

(* So does a step of the client: the connection a chunk is delivered to    *)
(* was opened for the key of the chunk.                                    *)
LEMMA UserBytesClient ==
    ASSUME LinkTypeOK, ClientTypeOK, ClientMaps, UserBytes, ClientNext
    PROVE  UserBytes'
<1> USE DEF clientVars, cMainVars, instVars
<1>1. \A f \in Elems(s2c') : f.type = "Data" => FromUser(f.data, f.key)
  BY ClientFrames DEF UserBytes
<1>2. ASSUME UNCHANGED <<cpend, to_internal, igot, ikey>>,
             cmain' \in {"connect", "deliver"} => cmain \in {"connect", "deliver"}
      PROVE  UserBytes'
  BY <1>1, <1>2 DEF UserBytes
<1>3. CASE CRegister \/ CRegistered \/ CReturn \/ CIgnore \/ CStop \/ CPing \/ CWriterFails
  BY <1>2, <1>3 DEF CRegister, CRegistered, CReturn, CIgnore, CStop, CPing, CWriterFails
<1>4. CASE CConnectFails \/ CDeliverError
  BY <1>1, <1>4 DEF CConnectFails, CDeliverError, UserBytes
<1>5. CASE CData
  <2>1. Head(s2c) \in Elems(s2c) /\ Head(s2c).type = "Data"
    BY <1>5, ElemsOf DEF CData, ClientReads, LinkTypeOK
  <2>2. FromUser(Head(s2c).data, Head(s2c).key)
    BY <2>1 DEF UserBytes
  <2>3. \/ UNCHANGED <<cmain, cpend>>
        \/ cpend' = Head(s2c)
    BY <1>5 DEF CData
  <2>4. UNCHANGED <<to_internal, igot, ikey>>
    BY <1>5 DEF CData
  <2> QED BY <1>1, <2>2, <2>3, <2>4 DEF UserBytes
<1>6. CASE CConnect
  <2>1. ninst + 1 \in Inst /\ to_internal[ninst + 1] = <<>> /\ igot[ninst + 1] = <<>>
    BY <1>6, FramesAssumption DEF CConnect, ClientTypeOK, ClientMaps, Inst
  <2>2. /\ Elems(to_internal[ninst + 1]) = {} /\ Elems(igot[ninst + 1]) = {}
    BY <2>1, ElemsOf DEF ClientTypeOK
  <2>3. \A k \in Inst : k # ninst + 1 => ikey'[k] = ikey[k]
    BY <1>6 DEF CConnect, ClientTypeOK
  <2>4. UNCHANGED <<cpend, to_internal, igot>> /\ cmain = "connect"
    BY <1>6 DEF CConnect
  <2>5. \A k \in Inst : \A d \in Elems(to_internal'[k]) \cup Elems(igot'[k]) : FromUser(d, ikey'[k])
    BY <2>2, <2>3, <2>4 DEF UserBytes
  <2> QED BY <1>1, <2>4, <2>5 DEF UserBytes
<1>7. CASE CDeliver
  <2>1. csender \in Inst /\ cpend.data \in Payload /\ ikey[csender] = cpend.key
    BY <1>7 DEF CDeliver, ClientTypeOK, DataFrames, ClientMaps
  <2>2. /\ to_internal'[csender] = Append(to_internal[csender], cpend.data)
        /\ \A k \in Inst : k # csender => to_internal'[k] = to_internal[k]
        /\ UNCHANGED <<igot, ikey>>
        /\ cmain = "deliver" /\ cmain' = "read"
    BY <1>7, <2>1 DEF CDeliver, ClientTypeOK
  <2>3. Elems(to_internal'[csender]) = Elems(to_internal[csender]) \cup {cpend.data}
    BY <2>1, <2>2, ElemsOf DEF ClientTypeOK
  <2>4. FromUser(cpend.data, ikey[csender])
    BY <2>1, <2>2 DEF UserBytes
  <2>5. \A k \in Inst : \A d \in Elems(to_internal'[k]) \cup Elems(igot'[k]) : FromUser(d, ikey'[k])
    BY <2>2, <2>3, <2>4 DEF UserBytes
  <2> QED BY <1>1, <2>2, <2>5 DEF UserBytes
<1>8. ASSUME NEW k \in Inst, ISend(k) \/ IReadEnds(k) \/ IRead(k) \/ IClose(k) PROVE UserBytes'
  BY <1>2, <1>8 DEF ISend, IReadEnds, IRead, IClose
<1>9. ASSUME NEW k \in Inst, InternalWriteStep(k) PROVE UserBytes'
  <2>1. /\ UNCHANGED <<cmain, cpend, ikey>>
        /\ \A j \in Inst : j # k => to_internal'[j] = to_internal[j] /\ igot'[j] = igot[j]
    BY <1>9 DEF InternalWriteStep, IWrite, IWriteEnds, ClientTypeOK
  <2>2. Elems(to_internal'[k]) \cup Elems(igot'[k]) \subseteq Elems(to_internal[k]) \cup Elems(igot[k])
    <3> DEFINE q == to_internal[k]
    <3>0. q \in Seq(Payload) /\ igot[k] \in Seq(Payload)
      BY DEF ClientTypeOK
    <3>1. CASE IWrite(k)
      <4>1. /\ q # <<>> /\ to_internal'[k] = Tail(q)
            /\ igot'[k] = igot[k] \/ igot'[k] = Append(igot[k], Head(q))
        BY <3>1 DEF IWrite, ClientTypeOK
      <4>2. Head(q) \in Elems(q) /\ Head(q) \in Payload /\ Elems(Tail(q)) \subseteq Elems(q)
        BY <3>0, <4>1, ElemsOf, DequeueType
      <4>3. Elems(Append(igot[k], Head(q))) = Elems(igot[k]) \cup {Head(q)}
        BY <3>0, <4>2, ElemsOf
      <4> QED BY <4>1, <4>2, <4>3
    <3>2. CASE IWriteEnds(k)
      <4>1. to_internal'[k] = <<>> /\ igot' = igot
        BY <3>2 DEF IWriteEnds, ClientTypeOK
      <4> QED BY <3>0, <4>1, ElemsOf
    <3> QED BY <1>9, <3>1, <3>2 DEF InternalWriteStep
  <2>3. \A j \in Inst : \A d \in Elems(to_internal'[j]) \cup Elems(igot'[j]) : FromUser(d, ikey'[j])
    BY <2>1, <2>2 DEF UserBytes
  <2> QED BY <1>1, <2>1, <2>3 DEF UserBytes
<1> QED BY <1>3, <1>4, <1>5, <1>6, <1>7, <1>8, <1>9
        DEF ClientNext, ClientMainStep, InternalReadStep

(* A step of the server hands a service's bytes to the user of their key:  *)
(* the cached table, like the outer map, is the one of the frame's proxy.  *)
LEMMA ServiceBytesServer ==
    ASSUME LinkTypeOK, ServerTypeOK, ServiceBytes, ServerNext, UNCHANGED clientVars
    PROVE  ServiceBytes'
<1> USE DEF sMainVars, listenVars, extVars, serverVars, linkVars
<1>0. /\ ikey' = ikey
      /\ \A d, c : FromConn(d, c)' <=> FromConn(d, c)
  BY DEF clientVars, instVars, FromConn
<1>1. \A f \in Elems(c2s') : f.type = "Data" => FromConn(f.data, f.key)'
  BY <1>0, ServerFrames DEF ServiceBytes
<1>2. ASSUME UNCHANGED <<to_remote, eout>>, smain' = "route" => smain = "route" /\ spend' = spend
      PROVE  ServiceBytes'
  BY <1>0, <1>1, <1>2 DEF ServiceBytes
<1>3. CASE SRegister \/ SRegisterOverLimit \/ SPing \/ SIgnore \/ SRouteError \/ SSend
  BY <1>2, <1>3 DEF SRegister, SRegisterOverLimit, SPing, SIgnore, SRouteError, SSend
<1>4. CASE SStop \/ SWriterEnds \/ SWriterFails
  BY <1>2, <1>4 DEF SStop, SWriterEnds, SWriterFails
<1>5. CASE SData
  <2> DEFINE key == Head(c2s).key
             table == RoutingTable(key[1])
  <2>1. Head(c2s) \in Elems(c2s) /\ Head(c2s) \in DataFrames /\ Head(c2s).type = "Data"
    BY <1>5, ElemsOf, LinkOps, FrameKinds DEF SData, ServerReads, LinkTypeOK
  <2>2. key = <<key[1], key[2]>>
    BY <2>1 DEF DataFrames, Key
  <2>3. table # NoProxy => table = key[1]
    BY DEF RoutingTable
  <2>4. FromConn(Head(c2s).data, key)
    BY <2>1 DEF ServiceBytes
  <2>5. \/ UNCHANGED <<smain, spend>>
        \/ table # NoProxy /\ spend' = new_data_frame(Head(c2s).data, <<table, key[2]>>)
    BY <1>5 DEF SData
  <2>6. UNCHANGED <<to_remote, eout>>
    BY <1>5 DEF SData
  <2> HIDE DEF table
  <2>7. \/ UNCHANGED <<smain, spend>>
        \/ spend'.data = Head(c2s).data /\ spend'.key = key
    BY <2>2, <2>3, <2>5 DEF new_data_frame
  <2> QED BY <1>0, <1>1, <2>4, <2>6, <2>7 DEF ServiceBytes
<1>6. CASE SRoute
  <2> DEFINE c == spend.key
  <2>1. c \in Key /\ spend.data \in Payload /\ FromConn(spend.data, c)
    BY <1>6 DEF SRoute, ServerTypeOK, DataFrames, ServiceBytes
  <2>2. /\ to_remote'[c] = Append(to_remote[c], spend.data)
        /\ \A b \in Key : b # c => to_remote'[b] = to_remote[b]
        /\ eout' = eout /\ smain' = "read"
    BY <1>6, <2>1 DEF SRoute, ServerTypeOK
  <2>3. Elems(to_remote'[c]) = Elems(to_remote[c]) \cup {spend.data}
    BY <2>1, <2>2, ElemsOf DEF ServerTypeOK
  <2>4. \A b \in Key : \A d \in Elems(to_remote'[b]) \cup Elems(eout'[b]) : FromConn(d, b)
    BY <2>1, <2>2, <2>3 DEF ServiceBytes
  <2> QED BY <1>0, <1>1, <2>2, <2>4 DEF ServiceBytes
<1>7. ASSUME NEW p \in ProxyId, ListenerStep(p) \/ LAccept(p) PROVE ServiceBytes'
  <2>1. CASE LBind(p) \/ LBindFails(p)
    BY <1>2, <2>1 DEF LBind, LBindFails
  <2>3. CASE LAck(p) \/ LReject(p)
    BY <1>2, <2>3 DEF LAck, LReject
  <2>2. CASE LPermit(p) \/ LAbort(p) \/ LAccept(p)
    BY <1>2, <2>2 DEF LPermit, LAbort, LAccept
  <2> QED BY <1>7, <2>1, <2>2, <2>3 DEF ListenerStep
<1>8. ASSUME NEW c \in Key, ExternalReadStep(c) \/ ERead(c) \/ EClose(c) PROVE ServiceBytes'
  BY <1>2, <1>8 DEF ExternalReadStep, ESend, EReadEnds, ERead, EClose
<1>9. ASSUME NEW c \in Key, ExternalWriteStep(c) PROVE ServiceBytes'
  <2>1. /\ UNCHANGED <<smain, spend>>
        /\ \A b \in Key : b # c => to_remote'[b] = to_remote[b] /\ eout'[b] = eout[b]
    BY <1>9 DEF ExternalWriteStep, EWrite, EWriteEnds, ServerTypeOK
  <2>2. Elems(to_remote'[c]) \cup Elems(eout'[c]) \subseteq Elems(to_remote[c]) \cup Elems(eout[c])
    <3> DEFINE q == to_remote[c]
    <3>0. q \in Seq(Payload) /\ eout[c] \in Seq(Payload)
      BY DEF ServerTypeOK
    <3>1. CASE EWrite(c)
      <4>1. /\ q # <<>> /\ to_remote'[c] = Tail(q)
            /\ eout'[c] = Append(eout[c], Head(q))
        BY <3>1 DEF EWrite, ServerTypeOK
      <4>2. Head(q) \in Elems(q) /\ Head(q) \in Payload /\ Elems(Tail(q)) \subseteq Elems(q)
        BY <3>0, <4>1, ElemsOf, DequeueType
      <4>3. Elems(Append(eout[c], Head(q))) = Elems(eout[c]) \cup {Head(q)}
        BY <3>0, <4>2, ElemsOf
      <4> QED BY <4>1, <4>2, <4>3
    <3>2. CASE EWriteEnds(c)
      <4>1. to_remote'[c] = <<>> /\ eout' = eout
        BY <3>2 DEF EWriteEnds, ServerTypeOK
      <4> QED BY <3>0, <4>1, ElemsOf
    <3> QED BY <1>9, <3>1, <3>2 DEF ExternalWriteStep
  <2>3. \A b \in Key : \A d \in Elems(to_remote'[b]) \cup Elems(eout'[b]) : FromConn(d, b)
    BY <2>1, <2>2 DEF ServiceBytes
  <2> QED BY <1>0, <1>1, <2>1, <2>3 DEF ServiceBytes
<1> QED BY <1>3, <1>4, <1>5, <1>6, <1>7, <1>8, <1>9
        DEF ServerNext, MainLoopStep, ServerWriterStep

(* A connection keeps the key it was opened for. *)
LEMMA FromConnStable ==
    ASSUME ClientTypeOK, ClientMaps, ClientNext
    PROVE  \A d : \A c \in Key : FromConn(d, c) => FromConn(d, c)'
<1>1. CASE CConnect
  <2>1. ikey' = [ikey EXCEPT ![ninst + 1] = cpend.key] /\ ninst + 1 \in Inst
    BY <1>1, FramesAssumption DEF CConnect, ClientTypeOK, Inst
  <2>2. ikey[ninst + 1] = <<>>
    BY <1>1, <2>1, FramesAssumption DEF ClientMaps, ClientTypeOK
  <2>3. \A k \in Inst : ikey[k] \in Key => ikey'[k] = ikey[k]
    BY <2>1, <2>2, KeyIsPair DEF ClientTypeOK
  <2> QED BY <2>3 DEF FromConn
<1>2. CASE ~CConnect
  <2>1. ikey' = ikey
    BY <1>2 DEF ClientNext, ClientMainStep, InternalReadStep, InternalWriteStep, clientVars,
                instVars, CRegister, CRegistered, CReturn, CData, CConnectFails, CDeliver,
                CDeliverError, CIgnore, CStop, CPing, CWriterFails, ISend, IReadEnds, IWrite,
                IWriteEnds, IRead, IClose
  <2> QED BY <2>1 DEF FromConn
<1> QED BY <1>1, <1>2

(* A step of the client. *)
LEMMA ServiceBytesClient ==
    ASSUME TypeOK, TypeOK', ClientMaps, ServiceBytes, ClientNext, UNCHANGED serverVars
    PROVE  ServiceBytes'
<1>1. UNCHANGED <<smain, spend, to_remote, eout>>
  BY DEF serverVars, sMainVars, extVars
<1>2. \A d : \A c \in Key : FromConn(d, c) => FromConn(d, c)'
  BY FromConnStable DEF TypeOK
<1>3. \A f \in Elems(c2s') : f \in Frame
  BY ElemsOf DEF TypeOK, LinkTypeOK
<1>4. \A f \in Elems(c2s') : f.type = "Data" => f.key \in Key
  BY <1>3, FrameKinds DEF DataFrames
<1>5. \A f \in Elems(c2s') : f.type = "Data" => FromConn(f.data, f.key)
  BY ClientFrames DEF ServiceBytes, TypeOK
<1>6. smain = "route" => spend.key \in Key
  BY DEF TypeOK, ServerTypeOK, DataFrames
<1> QED BY <1>1, <1>2, <1>4, <1>5, <1>6 DEF ServiceBytes

(* The inductive invariant behind NoCrossTalk: every byte is where its     *)
(* owner's key says, and a connection goes where its proxy is registered.  *)
Ownership ==
    TypeOK /\ ClientMaps /\ Phases /\ Registration /\ UserBytes /\ ServiceBytes

(* Nothing is in flight at the start. *)
LEMMA OwnershipInit == Init => Ownership
<1> SUFFICES ASSUME Init PROVE Ownership
  OBVIOUS
<1>1. TypeOK /\ ClientMaps /\ Registration
  BY InitType, InitMaps, RegistrationInit DEF Init
<1>2. Phases
  BY DEF Init, ClientInit, Phases, DialsRegisteredOnly
<1>3. Elems(<<>>) = {}
  BY DEF Elems
<1>4. UserBytes
  BY <1>3 DEF Init, LinkInit, ClientInit, UserBytes
<1>5. ServiceBytes
  BY <1>3 DEF Init, LinkInit, ServerInit, ServiceBytes
<1> QED BY <1>1, <1>2, <1>4, <1>5 DEF Ownership

(* Every step of the session keeps it. *)
LEMMA OwnershipStep == Ownership /\ [Next]_vars => Ownership'
<1> SUFFICES ASSUME Ownership, [Next]_vars PROVE Ownership'
  OBVIOUS
<1>1. TypeOK' /\ Registration'
  BY NextType, RegistrationStep DEF Ownership
<1>2. CASE ServerNext /\ UNCHANGED clientVars
  <2>1. ClientMaps' /\ Phases'
    BY <1>2 DEF Ownership, ClientMaps, EntryHasReader, ConnectIsVacant, Phases,
                DialsRegisteredOnly, Registered, clientVars, cMainVars, instVars
  <2>2. UserBytes' /\ ServiceBytes'
    BY <1>2, UserBytesServer, ServiceBytesServer DEF Ownership, TypeOK
  <2> QED BY <1>1, <2>1, <2>2 DEF Ownership
<1>3. CASE ClientNext /\ UNCHANGED serverVars
  <2>1. ClientMaps' /\ Phases'
    BY <1>3, MapsStep, PhasesStep DEF Ownership, TypeOK
  <2>2. UserBytes' /\ ServiceBytes'
    BY <1>1, <1>3, UserBytesClient, ServiceBytesClient DEF Ownership, TypeOK
  <2> QED BY <1>1, <2>1, <2>2 DEF Ownership
<1>4. CASE (NetworkCut /\ UNCHANGED <<serverVars, clientVars>>) \/ UNCHANGED vars
  <2>1. UNCHANGED <<s2c, c2s, serverVars, clientVars>>
    BY <1>4 DEF NetworkCut, vars, linkVars
  <2>2. ClientMaps' /\ Phases'
    BY <2>1 DEF Ownership, ClientMaps, EntryHasReader, ConnectIsVacant, Phases,
                DialsRegisteredOnly, Registered, clientVars, cMainVars, instVars
  <2>3. UserBytes' /\ ServiceBytes'
    BY <2>1 DEF Ownership, UserBytes, ServiceBytes, FromConn, clientVars, cMainVars, instVars,
                serverVars, sMainVars, extVars
  <2> QED BY <1>1, <2>2, <2>3 DEF Ownership
<1> QED BY <1>2, <1>3, <1>4 DEF Next

(* An internal connection goes to the service whose port its user          *)
(* connected to and carries that user's bytes only; a user receives only   *)
(* bytes of connections opened for it.  This holds although both sides     *)
(* cache the table of the last proxy, reuse keys for new connections and   *)
(* register proxies one after the other.                                   *)
THEOREM NothingCrosses == Spec => []NoCrossTalk
<1>1. Ownership => NoCrossTalk
  <2> SUFFICES ASSUME Ownership PROVE NoCrossTalk
    OBVIOUS
  <2>1. \A k \in Inst : iread[k] # "none" => ient[k] = lentry[ikey[k][1]]
    <3> SUFFICES ASSUME NEW k \in Inst, iread[k] # "none" PROVE ient[k] = lentry[ikey[k][1]]
      OBVIOUS
    <3>1. ikey[k][1] \in ProxyId
      BY DEF Ownership, TypeOK, ClientTypeOK, Key
    <3>2. ient[k] # 0 /\ ient[k] = proxy_configs[ikey[k][1]]
      BY DEF Ownership, Phases, DialsRegisteredOnly
    <3> QED BY <3>1, <3>2 DEF Ownership, Registration
  <2>2. \A k \in Inst : \A i \in DOMAIN igot[k] :
            igot[k][i].key = ikey[k] /\ igot[k][i].inst = NoInst
    BY DEF Ownership, UserBytes, FromUser, Elems
  <2>3. \A c \in Key : \A i \in DOMAIN eout[c] :
            eout[c][i].inst \in Inst /\ ikey[eout[c][i].inst] = c
    BY DEF Ownership, ServiceBytes, FromConn, Elems
  <2> QED BY <2>1, <2>2, <2>3 DEF NoCrossTalk
<1> QED BY <1>1, OwnershipInit, OwnershipStep, PTL DEF Spec

-----------------------------------------------------------------------------
(* ForwardOrder only speaks of what the services have received, which is   *)
(* not inductive.  The invariant follows a chunk along its whole way:      *)
(* socket of the user, read task, link, main task of the client, channel   *)
(* of the connection, service.  What is further along was read earlier.    *)


Number == 1..MaxChunks

Increasing(q) == \A i, j \in DOMAIN q : i < j => q[i].n < q[j].n

Precedes(p, q) == \A i \in DOMAIN p, j \in DOMAIN q : p[i].n < q[j].n

(* Chunk n has been handed to connection k. *)
Has(k, n) ==
    \/ \E i \in DOMAIN igot[k] : igot[k][i].n = n
    \/ \E i \in DOMAIN to_internal[k] : to_internal[k][i].n = n

IsDataOf(f, c) == f.type = "Data" /\ f.key = c

(* Chunk n of key c is on the link. *)
InLink(c, n) == \E i \in DOMAIN s2c : IsDataOf(s2c[i], c) /\ s2c[i].data.n = n

LinkIncreasing ==
    \A c \in Key : \A i, j \in DOMAIN s2c :
        i < j /\ IsDataOf(s2c[i], c) /\ IsDataOf(s2c[j], c) => s2c[i].data.n < s2c[j].data.n

(* The main task of the client holds a chunk. *)
Pending == cmain \in {"connect", "deliver"}

(* Chunk n of c has left the read task. *)
LeftReader(c, n) == n <= echunk[c] /\ (eread[c] = "send" => n < echunk[c])

(* Chunk n of c is ahead of everything the link holds for c. *)
AheadOfLink(c, n) == LeftReader(c, n) /\ \A m \in Number : InLink(c, m) => n < m

QueuesOrdered ==
    \A k \in Inst : /\ Increasing(igot[k])
                    /\ Increasing(to_internal[k])
                    /\ Precedes(igot[k], to_internal[k])

ConnsOrdered ==
    /\ QueuesOrdered
    /\ \A j, k \in Inst : j < k /\ ikey[j] = ikey[k] =>
          \A m, n \in Number : Has(j, m) /\ Has(k, n) => m < n

ConnsAhead ==
    \A k \in Inst, n \in Number : ikey[k] \in Key /\ Has(k, n) =>
        /\ AheadOfLink(ikey[k], n)
        /\ Pending /\ cpend.key = ikey[k] => n < cpend.data.n

PendingAhead == Pending => AheadOfLink(cpend.key, cpend.data.n)

LinkOrdered ==
    /\ LinkIncreasing
    /\ \A c \in Key, n \in Number : InLink(c, n) => LeftReader(c, n)

Pipeline == ConnsOrdered /\ ConnsAhead /\ PendingAhead /\ LinkOrdered

-----------------------------------------------------------------------------
(* What a step does to the order on the link.                              *)

(* No chunk appears on the link and the order is kept. *)
LinkShrinks ==
    /\ LinkIncreasing'
    /\ \A c \in Key, n \in Number : InLink(c, n)' => InLink(c, n)

(* The link is left alone. *)
LEMMA LinkSame ==
    ASSUME LinkIncreasing, s2c' = s2c
    PROVE  LinkShrinks
  BY DEF LinkIncreasing, LinkShrinks, InLink

(* What is queued is lost. *)
LEMMA LinkEmptied ==
    ASSUME s2c' = <<>>
    PROVE  LinkShrinks
  BY DEF LinkIncreasing, LinkShrinks, InLink

(* A frame that carries no data is queued. *)
LEMMA LinkOther ==
    ASSUME LinkTypeOK, LinkIncreasing, NEW f \in Frame, f.type # "Data", s2c' = Append(s2c, f)
    PROVE  LinkShrinks
<1>1. /\ Len(s2c') = Len(s2c) + 1 /\ Len(s2c) \in Nat
      /\ \A i \in 1..Len(s2c) : s2c'[i] = s2c[i]
      /\ s2c'[Len(s2c) + 1] = f
      /\ DOMAIN s2c = 1..Len(s2c) /\ DOMAIN s2c' = 1..Len(s2c')
  BY EnqueueType DEF LinkTypeOK
<1>2. \A i \in DOMAIN s2c', c \in Key : IsDataOf(s2c'[i], c) => i \in 1..Len(s2c)
  BY <1>1 DEF IsDataOf
<1>3. LinkIncreasing'
  BY <1>1, <1>2 DEF LinkIncreasing, IsDataOf
<1>4. \A c \in Key, n \in Number : InLink(c, n)' => InLink(c, n)
  BY <1>1, <1>2 DEF InLink, IsDataOf
<1> QED BY <1>3, <1>4 DEF LinkShrinks

(* The head is taken: the rest is behind it. *)
LEMMA LinkTaken ==
    ASSUME LinkTypeOK, LinkIncreasing, s2c # <<>>, s2c' = Tail(s2c)
    PROVE  /\ LinkShrinks
           /\ \A c \in Key : IsDataOf(Head(s2c), c) =>
                 /\ InLink(c, Head(s2c).data.n)
                 /\ \A n \in Number : InLink(c, n)' => Head(s2c).data.n < n
<1>1. /\ Len(s2c) \in Nat /\ Len(s2c) > 0 /\ Len(s2c') = Len(s2c) - 1
      /\ \A i \in 1..Len(s2c') : s2c'[i] = s2c[i + 1]
      /\ Head(s2c) = s2c[1]
      /\ DOMAIN s2c = 1..Len(s2c) /\ DOMAIN s2c' = 1..Len(s2c')
  BY DequeueType DEF LinkTypeOK
<1>2. LinkIncreasing'
  <2> SUFFICES ASSUME NEW c \in Key, NEW i \in DOMAIN s2c', NEW j \in DOMAIN s2c', i < j,
                      IsDataOf(s2c'[i], c), IsDataOf(s2c'[j], c)
               PROVE  s2c'[i].data.n < s2c'[j].data.n
    BY DEF LinkIncreasing, IsDataOf
  <2>1. i + 1 \in DOMAIN s2c /\ j + 1 \in DOMAIN s2c /\ i + 1 < j + 1
    BY <1>1
  <2> QED BY <1>1, <2>1 DEF LinkIncreasing
<1>3. \A c \in Key, n \in Number : InLink(c, n)' =>
          \E i \in DOMAIN s2c : i > 1 /\ IsDataOf(s2c[i], c) /\ s2c[i].data.n = n
  <2> SUFFICES ASSUME NEW c \in Key, NEW n \in Number, NEW i \in DOMAIN s2c',
                      IsDataOf(s2c'[i], c), s2c'[i].data.n = n
               PROVE  \E j \in DOMAIN s2c : j > 1 /\ IsDataOf(s2c[j], c) /\ s2c[j].data.n = n
    BY DEF InLink, IsDataOf
  <2>1. i + 1 \in DOMAIN s2c /\ i + 1 > 1 /\ s2c[i + 1] = s2c'[i]
    BY <1>1
  <2> QED BY <2>1
<1>4. \A c \in Key : IsDataOf(Head(s2c), c) => InLink(c, Head(s2c).data.n)
  BY <1>1 DEF InLink
<1>5. \A c \in Key : IsDataOf(Head(s2c), c) =>
          \A n \in Number : InLink(c, n)' => Head(s2c).data.n < n
  BY <1>1, <1>3 DEF LinkIncreasing
<1> QED BY <1>2, <1>3, <1>4, <1>5 DEF LinkShrinks, InLink

(* A chunk larger than all others of its key is queued. *)
LEMMA LinkData ==
    ASSUME LinkTypeOK, LinkIncreasing, NEW c \in Key, NEW d \in Payload,
           \A n \in Number : InLink(c, n) => n < d.n,
           s2c' = Append(s2c, new_data_frame(d, c))
    PROVE  /\ LinkIncreasing'
           /\ \A b \in Key, n \in Number : InLink(b, n)' => InLink(b, n) \/ (b = c /\ n = d.n)
<1> DEFINE f == new_data_frame(d, c)
<1>0. f \in Frame /\ f.type = "Data" /\ f.key = c /\ f.data = d
  BY ConstructorsType DEF new_data_frame
<1>1. /\ Len(s2c') = Len(s2c) + 1 /\ Len(s2c) \in Nat
      /\ \A i \in 1..Len(s2c) : s2c'[i] = s2c[i] /\ s2c[i] \in Frame
      /\ s2c'[Len(s2c) + 1] = f
      /\ DOMAIN s2c = 1..Len(s2c) /\ DOMAIN s2c' = 1..Len(s2c')
  BY <1>0, EnqueueType DEF LinkTypeOK
<1> HIDE DEF f
<1>2. \A i \in DOMAIN s2c : IsDataOf(s2c[i], c) => s2c[i].data.n < d.n
  <2> SUFFICES ASSUME NEW i \in DOMAIN s2c, IsDataOf(s2c[i], c) PROVE s2c[i].data.n < d.n
    OBVIOUS
  <2>1. s2c[i] \in DataFrames
    BY <1>1, FrameKinds DEF IsDataOf
  <2>2. s2c[i].data.n \in Number
    BY <2>1 DEF DataFrames, Payload, Number
  <2>3. InLink(c, s2c[i].data.n)
    BY DEF InLink
  <2> QED BY <2>2, <2>3
<1>3. LinkIncreasing'
  <2> SUFFICES ASSUME NEW b \in Key, NEW i \in DOMAIN s2c', NEW j \in DOMAIN s2c', i < j,
                      IsDataOf(s2c'[i], b), IsDataOf(s2c'[j], b)
               PROVE  s2c'[i].data.n < s2c'[j].data.n
    BY DEF LinkIncreasing, IsDataOf
  <2>1. i \in DOMAIN s2c /\ s2c'[i] = s2c[i]
    BY <1>1
  <2>2. CASE j \in DOMAIN s2c
    BY <1>1, <2>1, <2>2 DEF LinkIncreasing
  <2>3. CASE j = Len(s2c) + 1
    BY <1>0, <1>1, <1>2, <2>1, <2>3 DEF IsDataOf
  <2> QED BY <1>1, <2>2, <2>3
<1>4. \A b \in Key, n \in Number : InLink(b, n)' => InLink(b, n) \/ (b = c /\ n = d.n)
  BY <1>0, <1>1 DEF InLink, IsDataOf
<1> QED BY <1>3, <1>4

-----------------------------------------------------------------------------
(* What a step does to the rest of the way.                                *)

ReaderAdvances == \A c \in Key, n \in Number : LeftReader(c, n) => LeftReader(c, n)'

ConnsShrink ==
    /\ ikey' = ikey
    /\ QueuesOrdered'
    /\ \A k \in Inst, n \in Number : Has(k, n)' => Has(k, n)

(* The read tasks of the users do not move. *)
LEMMA ReaderSame == UNCHANGED <<echunk, eread>> => ReaderAdvances
  BY DEF ReaderAdvances, LeftReader

(* The connections to the services do not move. *)
LEMMA ConnsSame == Pipeline /\ UNCHANGED <<ikey, igot, to_internal>> => ConnsShrink
  BY DEF ConnsShrink, Pipeline, ConnsOrdered, QueuesOrdered, Has, Increasing, Precedes

(* The chunk the main task holds. *)
LEMMA PendingType ==
    ASSUME TypeOK, Pending
    PROVE  cpend.key \in Key /\ cpend.data \in Payload /\ cpend.data.n \in Number
<1>1. cpend \in DataFrames
  BY DEF Pending, TypeOK, ClientTypeOK
<1> QED BY <1>1 DEF DataFrames, Payload, Number

(* The chunks of a queue are numbered. *)
LEMMA ElementNumber == \A q \in Seq(Payload) : \A i \in DOMAIN q : q[i].n \in Number
<1> SUFFICES ASSUME NEW q \in Seq(Payload), NEW i \in DOMAIN q PROVE q[i].n \in Number
  OBVIOUS
<1>1. q[i] \in Payload
  OBVIOUS
<1> QED BY <1>1 DEF Payload, Number

(* A step that lets nothing appear anywhere keeps the order. *)
LEMMA NothingAppears ==
    ASSUME TypeOK, Pipeline, LinkShrinks, ReaderAdvances, ConnsShrink,
           Pending' => Pending /\ cpend' = cpend
    PROVE  Pipeline'
<1>1. \A c \in Key, n \in Number : AheadOfLink(c, n) => AheadOfLink(c, n)'
  BY DEF AheadOfLink, LinkShrinks, ReaderAdvances
<1>2. ConnsOrdered'
  BY DEF Pipeline, ConnsOrdered, ConnsShrink
<1>3. ConnsAhead'
  BY <1>1 DEF Pipeline, ConnsAhead, ConnsShrink
<1>4. PendingAhead'
  BY <1>1, PendingType DEF Pipeline, PendingAhead
<1>5. LinkOrdered'
  BY DEF Pipeline, LinkOrdered, LinkShrinks, ReaderAdvances
<1> QED BY <1>2, <1>3, <1>4, <1>5 DEF Pipeline

(* The read task of c queues its chunk, the largest number read so far. *)
LEMMA PipelineSend ==
    ASSUME TypeOK, Pipeline, NEW c \in Key, ESend(c), UNCHANGED clientVars
    PROVE  Pipeline'
<1> DEFINE d == ExternalChunk(c)
<1>1. d \in Payload /\ d.n = echunk[c] /\ d.n \in Number
  BY ExternalChunkType DEF TypeOK, ESend, ExternalChunk, Payload, Number
<1>2. /\ eread[c] = "send" /\ eread' = [eread EXCEPT ![c] = "read"] /\ echunk' = echunk
      /\ s2c' = Append(s2c, new_data_frame(d, c))
      /\ UNCHANGED <<cmain, cpend, ikey, igot, to_internal>>
  BY DEF ESend, ToClient, clientVars, cMainVars, instVars
<1> HIDE DEF d
<1>0. PICK last \in Number : last = d.n
  BY <1>1
<1>3. \A n \in Number : InLink(c, n) => n < d.n
  BY <1>1, <1>2 DEF Pipeline, LinkOrdered, LeftReader
<1>4. /\ LinkIncreasing'
      /\ \A b \in Key, n \in Number : InLink(b, n)' => InLink(b, n) \/ (b = c /\ n = last)
  BY <1>0, <1>1, <1>2, <1>3, LinkData DEF Pipeline, LinkOrdered, TypeOK
<1>5. ReaderAdvances
  BY <1>2 DEF ReaderAdvances, LeftReader, TypeOK, ServerTypeOK
<1>6. LeftReader(c, last)'
  BY <1>0, <1>1, <1>2 DEF LeftReader, TypeOK, ServerTypeOK, Number
<1>7. \A b \in Key, n \in Number : AheadOfLink(b, n) => AheadOfLink(b, n)'
  BY <1>0, <1>1, <1>2, <1>4, <1>5 DEF AheadOfLink, ReaderAdvances, LeftReader
<1>8. ConnsOrdered'
  BY <1>2 DEF Pipeline, ConnsOrdered, QueuesOrdered, Has
<1>9. ConnsAhead'
  BY <1>2, <1>7 DEF Pipeline, ConnsAhead, Has, Pending
<1>10. PendingAhead'
  BY <1>2, <1>7, PendingType DEF Pipeline, PendingAhead, Pending
<1>11. LinkOrdered'
  BY <1>4, <1>5, <1>6 DEF Pipeline, LinkOrdered, ReaderAdvances
<1> QED BY <1>8, <1>9, <1>10, <1>11 DEF Pipeline

(* The main task takes a chunk off the link. *)
LEMMA PipelineTake ==
    ASSUME TypeOK, Pipeline, CData, UNCHANGED serverVars, cpend' = Head(s2c)
    PROVE  Pipeline'
<1> DEFINE f == Head(s2c)
<1>1. f \in DataFrames /\ s2c # <<>> /\ s2c' = Tail(s2c) /\ f.type = "Data"
  BY LinkOps, FrameKinds DEF CData, ClientReads, TypeOK
<1>2. f.key \in Key /\ f.data.n \in Number /\ IsDataOf(f, f.key)
  BY <1>1 DEF DataFrames, Payload, Number, IsDataOf
<1>3. ~Pending /\ UNCHANGED <<ikey, igot, to_internal, echunk, eread>>
  BY DEF CData, Pending, instVars, serverVars, extVars
<1>4. PICK key \in Key, num \in Number : key = f.key /\ num = f.data.n
  BY <1>2
<1>5. /\ LinkShrinks
      /\ InLink(key, num)
      /\ \A n \in Number : InLink(key, n)' => num < n
  BY <1>1, <1>2, <1>4, LinkTaken DEF Pipeline, LinkOrdered, TypeOK
<1>6. cpend'.key = key /\ cpend'.data.n = num
  BY <1>4
<1> HIDE DEF f
<1>7. \A c \in Key, n \in Number : AheadOfLink(c, n) => AheadOfLink(c, n)'
  BY <1>3, <1>5, ReaderSame DEF AheadOfLink, LinkShrinks, ReaderAdvances
<1>8. ConnsOrdered'
  BY <1>3 DEF Pipeline, ConnsOrdered, QueuesOrdered, Has
<1>9. AheadOfLink(key, num)'
  BY <1>3, <1>5 DEF AheadOfLink, Pipeline, LinkOrdered, LeftReader
<1>10. \A k \in Inst, n \in Number : ikey[k] = key /\ Has(k, n) => n < num
  BY <1>5 DEF Pipeline, ConnsAhead, AheadOfLink
<1>11. ConnsAhead'
  BY <1>3, <1>6, <1>7, <1>10 DEF Pipeline, ConnsAhead, Has
<1>12. PendingAhead'
  BY <1>6, <1>9 DEF PendingAhead
<1>13. LinkOrdered'
  BY <1>3, <1>5, ReaderSame DEF Pipeline, LinkOrdered, LinkShrinks, ReaderAdvances
<1> QED BY <1>8, <1>11, <1>12, <1>13 DEF Pipeline

(* The main task opens a connection, which has received nothing. *)
LEMMA PipelineConnect ==
    ASSUME TypeOK, ClientMaps, Pipeline, CConnect, UNCHANGED serverVars
    PROVE  Pipeline'
<1> DEFINE k == ninst + 1
<1>0. k \in Inst /\ k > ninst
  BY FramesAssumption DEF CConnect, TypeOK, ClientTypeOK, Inst
<1>1. k \in Inst /\ igot[k] = <<>> /\ to_internal[k] = <<>>
  BY <1>0 DEF ClientMaps
<1>2. /\ ikey' = [ikey EXCEPT ![k] = cpend.key]
      /\ Pending /\ Pending' /\ cpend' = cpend
      /\ UNCHANGED <<igot, to_internal, echunk, eread, s2c>>
  BY DEF CConnect, Pending, serverVars, extVars, linkVars
<1>3. \A n \in Number : ~Has(k, n)
  BY <1>1 DEF Has
<1>4. \A j \in Inst : j # k => ikey'[j] = ikey[j]
  BY <1>2 DEF TypeOK, ClientTypeOK
<1> HIDE DEF k
<1>5. \A j \in Inst, n \in Number : Has(j, n)' <=> Has(j, n)
  BY <1>2 DEF Has
<1>6. \A c \in Key, n \in Number : AheadOfLink(c, n) => AheadOfLink(c, n)'
  BY <1>2 DEF AheadOfLink, LeftReader, InLink
<1>7. QueuesOrdered'
  BY <1>2 DEF Pipeline, ConnsOrdered, QueuesOrdered, Increasing, Precedes
<1>8. ConnsOrdered'
  BY <1>3, <1>4, <1>5, <1>7 DEF Pipeline, ConnsOrdered
<1>9. ConnsAhead'
  BY <1>2, <1>3, <1>4, <1>5, <1>6 DEF Pipeline, ConnsAhead
<1>10. PendingAhead'
  BY <1>2, <1>6, PendingType DEF Pipeline, PendingAhead
<1>11. LinkOrdered'
  BY <1>2 DEF Pipeline, LinkOrdered, LinkIncreasing, InLink, LeftReader
<1> QED BY <1>8, <1>9, <1>10, <1>11 DEF Pipeline

(* The main task queues the chunk it holds behind all others of its key. *)
LEMMA PipelineDeliver ==
    ASSUME TypeOK, ClientMaps, Pipeline, CDeliver, UNCHANGED serverVars
    PROVE  Pipeline'
<1>1. csender \in Inst /\ Pending /\ ~Pending'
  BY DEF CDeliver, TypeOK, ClientTypeOK, Pending
<1>2. PICK k \in Inst, d \in Payload : k = csender /\ d = cpend.data
  BY <1>1, PendingType
<1>3. PICK key \in Key, num \in Number : key = cpend.key /\ num = d.n
  BY <1>1, <1>2, PendingType
<1>4. /\ ikey[k] = key
      /\ \A j \in Inst : ikey[j] = key => j <= k
  BY <1>2, <1>3 DEF ClientMaps, CDeliver
<1>5. /\ to_internal' = [to_internal EXCEPT ![k] = Append(@, d)]
      /\ UNCHANGED <<ikey, igot, s2c, echunk, eread>>
  BY <1>2 DEF CDeliver, serverVars, extVars, linkVars
<1>6. /\ to_internal[k] \in Seq(Payload) /\ igot[k] \in Seq(Payload)
      /\ to_internal'[k] = Append(to_internal[k], d)
      /\ \A j \in Inst : j # k => to_internal'[j] = to_internal[j]
  BY <1>5 DEF TypeOK, ClientTypeOK
<1> DEFINE q == to_internal[k]
           r == to_internal'[k]
<1>7. /\ Len(r) = Len(q) + 1 /\ Len(q) \in Nat
      /\ \A i \in 1..Len(q) : r[i] = q[i]
      /\ r[Len(q) + 1] = d
      /\ DOMAIN q = 1..Len(q) /\ DOMAIN r = 1..Len(r)
  BY <1>6, EnqueueType
<1>8. \A j \in Inst, n \in Number : ikey[j] = key /\ Has(j, n) => n < num
  BY <1>1, <1>2, <1>3 DEF Pipeline, ConnsAhead
<1>9. \A i \in DOMAIN igot[k] : igot[k][i].n < num
  <2> SUFFICES ASSUME NEW i \in DOMAIN igot[k] PROVE igot[k][i].n < num
    OBVIOUS
  <2>1. igot[k][i].n \in Number
    BY <1>6, ElementNumber
  <2>2. Has(k, igot[k][i].n)
    BY DEF Has
  <2> QED BY <1>4, <1>8, <2>1, <2>2
<1>10. \A i \in DOMAIN q : q[i].n < num
  <2> SUFFICES ASSUME NEW i \in DOMAIN q PROVE q[i].n < num
    OBVIOUS
  <2>1. q[i].n \in Number
    BY <1>6, ElementNumber
  <2>2. Has(k, q[i].n)
    BY DEF Has
  <2> QED BY <1>4, <1>8, <2>1, <2>2
<1>11. Increasing(q) /\ Precedes(igot[k], q)
  BY DEF Pipeline, ConnsOrdered, QueuesOrdered
<1> HIDE DEF q, r
<1>11a. Increasing(r)
  <2> SUFFICES ASSUME NEW i \in DOMAIN r, NEW j \in DOMAIN r, i < j PROVE r[i].n < r[j].n
    BY DEF Increasing
  <2>1. i \in DOMAIN q /\ r[i] = q[i]
    BY <1>7
  <2>2. CASE j \in DOMAIN q
    BY <1>7, <1>11, <2>1, <2>2 DEF Increasing
  <2>3. CASE j = Len(q) + 1
    BY <1>3, <1>7, <1>10, <2>1, <2>3
  <2> QED BY <1>7, <2>2, <2>3
<1>11b. Precedes(igot[k], r)
  <2> SUFFICES ASSUME NEW i \in DOMAIN igot[k], NEW j \in DOMAIN r PROVE igot[k][i].n < r[j].n
    BY DEF Precedes
  <2>1. CASE j \in DOMAIN q
    BY <1>7, <1>11, <2>1 DEF Precedes
  <2>2. CASE j = Len(q) + 1
    BY <1>3, <1>7, <1>9, <2>2
  <2> QED BY <1>7, <2>1, <2>2
<1>12. QueuesOrdered'
  BY <1>5, <1>6, <1>11a, <1>11b DEF r, Pipeline, ConnsOrdered, QueuesOrdered, Increasing, Precedes
<1>13. \A j \in Inst, n \in Number : Has(j, n)' => Has(j, n) \/ (j = k /\ n = num)
  BY <1>3, <1>5, <1>6, <1>7 DEF q, r, Has
<1>14. \A c \in Key, n \in Number : AheadOfLink(c, n) <=> AheadOfLink(c, n)'
  BY <1>5 DEF AheadOfLink, LeftReader, InLink
<1>15. AheadOfLink(key, num)'
  BY <1>1, <1>2, <1>3, <1>14 DEF Pipeline, PendingAhead
<1>16. ConnsOrdered'
  <2> SUFFICES ASSUME NEW i \in Inst, NEW j \in Inst, i < j, ikey[i] = ikey[j],
                      NEW m \in Number, NEW n \in Number, Has(i, m)', Has(j, n)'
               PROVE  m < n
    BY <1>5, <1>12 DEF ConnsOrdered
  <2>1. i # k
    BY <1>4 DEF Inst
  <2>2. Has(i, m)
    BY <1>13, <2>1
  <2>3. CASE Has(j, n)
    BY <2>2, <2>3 DEF Pipeline, ConnsOrdered
  <2>4. CASE j = k /\ n = num
    BY <1>4, <1>8, <2>2, <2>4
  <2> QED BY <1>13, <2>3, <2>4
<1>17. ConnsAhead'
  BY <1>1, <1>4, <1>5, <1>13, <1>14, <1>15 DEF Pipeline, ConnsAhead
<1>18. PendingAhead'
  BY <1>1 DEF PendingAhead
<1>19. LinkOrdered'
  BY <1>5 DEF Pipeline, LinkOrdered, LinkIncreasing, InLink, LeftReader
<1> QED BY <1>16, <1>17, <1>18, <1>19 DEF Pipeline

(* The write task hands the head of its queue to the service. *)
LEMMA ConnsWrite ==
    ASSUME TypeOK, Pipeline, NEW k \in Inst, IWrite(k)
    PROVE  ConnsShrink
<1> DEFINE q == to_internal[k]
           r == to_internal'[k]
           g == igot[k]
           h == igot'[k]
<1>1. q \in Seq(Payload) /\ g \in Seq(Payload) /\ q # <<>> /\ r = Tail(q) /\ Head(q) \in Payload
  BY DequeueType DEF IWrite, TypeOK, ClientTypeOK
<1>2. h = g \/ h = Append(g, Head(q))
  BY DEF IWrite, TypeOK, ClientTypeOK
<1>3. /\ \A j \in Inst : j # k => to_internal'[j] = to_internal[j] /\ igot'[j] = igot[j]
      /\ ikey' = ikey
  BY DEF IWrite, TypeOK, ClientTypeOK
<1>4. Increasing(q) /\ Increasing(g) /\ Precedes(g, q)
  BY DEF Pipeline, ConnsOrdered, QueuesOrdered
<1> HIDE DEF q, r, g, h
<1>5. /\ Len(q) \in Nat /\ Len(q) > 0 /\ Len(r) = Len(q) - 1
      /\ \A i \in 1..Len(r) : r[i] = q[i + 1]
      /\ Head(q) = q[1]
      /\ DOMAIN q = 1..Len(q) /\ DOMAIN r = 1..Len(r)
  BY <1>1, DequeueType
<1>6. Increasing(r)
  <2> SUFFICES ASSUME NEW i \in DOMAIN r, NEW j \in DOMAIN r, i < j PROVE r[i].n < r[j].n
    BY DEF Increasing
  <2>1. i + 1 \in DOMAIN q /\ j + 1 \in DOMAIN q /\ i + 1 < j + 1
    BY <1>5
  <2> QED BY <1>4, <1>5, <2>1 DEF Increasing
<1>7. /\ Len(g) \in Nat /\ DOMAIN g = 1..Len(g)
      /\ \/ h = g
         \/ /\ Len(h) = Len(g) + 1 /\ DOMAIN h = 1..Len(h)
            /\ \A i \in 1..Len(g) : h[i] = g[i]
            /\ h[Len(g) + 1] = q[1]
  BY <1>1, <1>2, <1>5, EnqueueType
<1>8. \A j \in DOMAIN r : q[1].n < r[j].n
  <2> SUFFICES ASSUME NEW j \in DOMAIN r PROVE q[1].n < r[j].n
    OBVIOUS
  <2>1. j + 1 \in DOMAIN q /\ 1 \in DOMAIN q /\ 1 < j + 1
    BY <1>5
  <2> QED BY <1>4, <1>5, <2>1 DEF Increasing
<1>9. \A i \in DOMAIN g : \A j \in DOMAIN r : g[i].n < r[j].n
  <2> SUFFICES ASSUME NEW i \in DOMAIN g, NEW j \in DOMAIN r PROVE g[i].n < r[j].n
    OBVIOUS
  <2>1. j + 1 \in DOMAIN q
    BY <1>5
  <2> QED BY <1>4, <1>5, <2>1 DEF Precedes
<1>10. Precedes(h, r)
  BY <1>7, <1>8, <1>9 DEF Precedes
<1>11. Increasing(h)
  <2>1. CASE h = g
    BY <1>4, <2>1
  <2>2. CASE h # g
    <3> SUFFICES ASSUME NEW i \in DOMAIN h, NEW j \in DOMAIN h, i < j PROVE h[i].n < h[j].n
      BY DEF Increasing
    <3>1. i \in DOMAIN g /\ h[i] = g[i]
      BY <1>7, <2>2
    <3>2. CASE j \in DOMAIN g
      BY <1>4, <1>7, <2>2, <3>1, <3>2 DEF Increasing
    <3>3. CASE j = Len(g) + 1
      <4>1. 1 \in DOMAIN q
        BY <1>5
      <4> QED BY <1>4, <1>7, <2>2, <3>1, <3>3, <4>1 DEF Precedes
    <3> QED BY <1>7, <2>2, <3>2, <3>3
  <2> QED BY <2>1, <2>2
<1>12. QueuesOrdered'
  BY <1>3, <1>6, <1>10, <1>11
     DEF h, r, Pipeline, ConnsOrdered, QueuesOrdered, Increasing, Precedes
<1>13. \A n : (\E i \in DOMAIN h : h[i].n = n) \/ (\E i \in DOMAIN r : r[i].n = n)
                => (\E i \in DOMAIN g : g[i].n = n) \/ (\E i \in DOMAIN q : q[i].n = n)
  <2>1. \A i \in DOMAIN r : i + 1 \in DOMAIN q /\ r[i] = q[i + 1]
    BY <1>5
  <2>2. \A i \in DOMAIN h : (i \in DOMAIN g /\ h[i] = g[i]) \/ h[i] = q[1]
    BY <1>7
  <2>3. 1 \in DOMAIN q
    BY <1>5
  <2> QED BY <2>1, <2>2, <2>3
<1>14. \A j \in Inst, n \in Number : Has(j, n)' => Has(j, n)
  BY <1>3, <1>13 DEF g, h, q, r, Has
<1> QED BY <1>3, <1>12, <1>14 DEF ConnsShrink

(* The write task ends and its queue is dropped. *)
LEMMA ConnsWriteEnds ==
    ASSUME TypeOK, Pipeline, NEW k \in Inst, IWriteEnds(k)
    PROVE  ConnsShrink
<1>1. /\ to_internal'[k] = <<>>
      /\ \A j \in Inst : j # k => to_internal'[j] = to_internal[j]
      /\ UNCHANGED <<ikey, igot>>
  BY DEF IWriteEnds, TypeOK, ClientTypeOK
<1>2. QueuesOrdered'
  BY <1>1 DEF Pipeline, ConnsOrdered, QueuesOrdered, Increasing, Precedes
<1>3. \A j \in Inst, n \in Number : Has(j, n)' => Has(j, n)
  BY <1>1 DEF Has
<1> QED BY <1>1, <1>2, <1>3 DEF ConnsShrink

-----------------------------------------------------------------------------
(* Every step keeps the order.                                             *)

(* An answer of the server carries no data. *)
LEMMA AnswerIsNoData ==
    ASSUME TypeOK
    PROVE  /\ smain \in {"reply", "pong"} => spend \in Frame /\ spend.type # "Data"
           /\ \A p \in ProxyId, s \in BOOLEAN : listener[p] # "none" =>
                 /\ new_reg_ack_frame(lentry[p], s, p) \in Frame
                 /\ new_reg_ack_frame(lentry[p], s, 0) \in Frame
                 /\ new_reg_ack_frame(lentry[p], s, p).type # "Data"
                 /\ new_reg_ack_frame(lentry[p], s, 0).type # "Data"
<1>1. smain \in {"reply", "pong"} => spend \in Frame /\ spend.type # "Data"
  BY DEF TypeOK, ServerTypeOK, Frame, RegisterAckFrames, ControlFrames
<1>2. \A e \in Entry, s \in BOOLEAN, p \in ProxyId :
         new_reg_ack_frame(e, s, p) \in Frame /\ new_reg_ack_frame(e, s, p).type # "Data"
  BY ConstructorsType DEF new_reg_ack_frame
<1> QED BY <1>1, <1>2, ZeroProxy DEF TypeOK, ServerTypeOK

(* What the server's main loop, write task and listeners do to the link. *)
LEMMA ServerLink ==
    ASSUME TypeOK, LinkIncreasing,
           \/ MainLoopStep \/ ServerWriterStep
           \/ \E p \in ProxyId : ListenerStep(p) \/ LAccept(p)
    PROVE  LinkShrinks
<1> USE DEF linkVars
<1>1. CASE SRegister \/ SRegisterOverLimit \/ SPing \/ SIgnore \/ SData
  <2>1. s2c' = s2c
    BY <1>1 DEF SRegister, SRegisterOverLimit, SPing, SIgnore, SData, ServerReads
  <2> QED BY <2>1, LinkSame
<1>2. CASE SRoute \/ SRouteError \/ SStop \/ SWriterEnds
  <2>1. s2c' = s2c
    BY <1>2 DEF SRoute, SRouteError, SStop, SWriterEnds
  <2> QED BY <2>1, LinkSame
<1>3. CASE SSend
  <2>1. s2c' = s2c \/ s2c' = Append(s2c, spend)
    BY <1>3 DEF SSend, ToClient
  <2>2. spend \in Frame /\ spend.type # "Data"
    BY <1>3, AnswerIsNoData DEF SSend
  <2> QED BY <2>1, <2>2, LinkSame, LinkOther DEF TypeOK
<1>4. CASE SWriterFails
  BY <1>4, LinkEmptied DEF SWriterFails, ServerWriteFails
<1>5. ASSUME NEW p \in ProxyId, LBind(p) \/ LBindFails(p) \/ LPermit(p) \/ LAbort(p) \/ LAccept(p)
      PROVE  LinkShrinks
  <2>1. s2c' = s2c
    BY <1>5 DEF LBind, LBindFails, LPermit, LAbort, LAccept
  <2> QED BY <2>1, LinkSame
<1>6. ASSUME NEW p \in ProxyId, LAck(p) PROVE LinkShrinks
  <2>1. s2c' = s2c \/ s2c' = Append(s2c, new_reg_ack_frame(lentry[p], TRUE, p))
    BY <1>6 DEF LAck, ToClient
  <2>2. /\ new_reg_ack_frame(lentry[p], TRUE, p) \in Frame
        /\ new_reg_ack_frame(lentry[p], TRUE, p).type # "Data"
    BY <1>6, AnswerIsNoData DEF LAck
  <2> QED BY <2>1, <2>2, LinkSame, LinkOther DEF TypeOK
<1>7. ASSUME NEW p \in ProxyId, LReject(p) PROVE LinkShrinks
  <2>1. s2c' = s2c \/ s2c' = Append(s2c, new_reg_ack_frame(lentry[p], FALSE, 0))
    BY <1>7 DEF LReject, ToClient
  <2>2. /\ new_reg_ack_frame(lentry[p], FALSE, 0) \in Frame
        /\ new_reg_ack_frame(lentry[p], FALSE, 0).type # "Data"
    BY <1>7, AnswerIsNoData DEF LReject
  <2> QED BY <2>1, <2>2, LinkSame, LinkOther DEF TypeOK
<1> QED BY <1>1, <1>2, <1>3, <1>4, <1>5, <1>6, <1>7
        DEF MainLoopStep, ServerWriterStep, ListenerStep

(* No server step makes a chunk return to its read task. *)
LEMMA ServerReaders ==
    ASSUME TypeOK, ServerNext, \A c \in Key : ~ESend(c)
    PROVE  ReaderAdvances
<1> USE DEF serverVars, sMainVars, listenVars, extVars
<1>1. CASE MainLoopStep \/ ServerWriterStep
  <2>1. UNCHANGED <<echunk, eread>>
    BY <1>1, MainLeavesUsers
  <2> QED BY <2>1, ReaderSame
<1>2. ASSUME NEW p \in ProxyId, ListenerStep(p) \/ LAccept(p) PROVE ReaderAdvances
  <2>1. /\ echunk' = echunk
        /\ \/ eread' = eread
           \/ \E c, s : s # "send" /\ eread' = [eread EXCEPT ![c] = s]
    <3>1. CASE LBind(p) \/ LBindFails(p) \/ LAck(p) \/ LReject(p)
      BY <3>1, RegistrationLeavesUsers
    <3>2. CASE LAccept(p)
      BY <3>2 DEF LAccept
    <3>3. CASE LPermit(p)
      BY <3>3 DEF LPermit
    <3>4. CASE LAbort(p)
      BY <3>4 DEF LAbort
    <3> QED BY <1>2, <3>1, <3>2, <3>3, <3>4 DEF ListenerStep
  <2>2. \A c \in Key : eread'[c] = "send" => eread[c] = "send"
    BY <2>1 DEF TypeOK, ServerTypeOK
  <2> QED BY <2>1, <2>2 DEF ReaderAdvances, LeftReader
<1>3. ASSUME NEW b \in Key, ERead(b) PROVE ReaderAdvances
  <2>1. /\ echunk' = [echunk EXCEPT ![b] = @ + 1] /\ eread' = [eread EXCEPT ![b] = "send"]
        /\ echunk[b] \in Nat
    BY <1>3 DEF ERead, TypeOK, ServerTypeOK
  <2>2. \A c \in Key : c # b => echunk'[c] = echunk[c] /\ eread'[c] = eread[c]
    BY <2>1 DEF TypeOK, ServerTypeOK
  <2>3. echunk'[b] = echunk[b] + 1
    BY <2>1 DEF TypeOK, ServerTypeOK
  <2> QED BY <2>1, <2>2, <2>3 DEF ReaderAdvances, LeftReader, Number
<1>4. ASSUME NEW b \in Key, EReadEnds(b) \/ ExternalWriteStep(b) \/ EClose(b) PROVE ReaderAdvances
  <2>1. /\ echunk' = echunk
        /\ eread' = eread \/ eread' = [eread EXCEPT ![b] = "done"]
    BY <1>4 DEF EReadEnds, ExternalWriteStep, EWrite, EWriteEnds, EClose
  <2>2. \A c \in Key : eread'[c] = "send" => eread[c] = "send"
    BY <2>1 DEF TypeOK, ServerTypeOK
  <2> QED BY <2>1, <2>2 DEF ReaderAdvances, LeftReader
<1> QED BY <1>1, <1>2, <1>3, <1>4 DEF ServerNext, ExternalReadStep

(* Every step of the server. *)
LEMMA PipelineServer ==
    ASSUME TypeOK, Pipeline, ServerNext, UNCHANGED clientVars
    PROVE  Pipeline'
<1>1. CASE \E c \in Key : ESend(c)
  BY <1>1, PipelineSend
<1>2. CASE \A c \in Key : ~ESend(c)
  <2>1. ReaderAdvances
    BY <1>2, ServerReaders
  <2>2. ConnsShrink /\ (Pending' => Pending /\ cpend' = cpend)
    BY ConnsSame DEF clientVars, cMainVars, instVars, Pending
  <2>3. LinkIncreasing
    BY DEF Pipeline, LinkOrdered
  <2>4. CASE \/ MainLoopStep \/ ServerWriterStep
             \/ \E p \in ProxyId : ListenerStep(p) \/ LAccept(p)
    BY <2>1, <2>2, <2>3, <2>4, ServerLink, NothingAppears
  <2>5. ASSUME NEW c \in Key, EReadEnds(c) \/ ExternalWriteStep(c) \/ ERead(c) \/ EClose(c)
        PROVE  Pipeline'
    <3>1. s2c' = s2c
      BY <2>5 DEF EReadEnds, ExternalWriteStep, EWrite, EWriteEnds, ERead, EClose, linkVars
    <3> QED BY <2>1, <2>2, <2>3, <3>1, LinkSame, NothingAppears
  <2> QED BY <1>2, <2>4, <2>5 DEF ServerNext, ExternalReadStep
<1> QED BY <1>1, <1>2

(* A client step in which no chunk moves forward. *)
LEMMA PipelineClientQuiet ==
    ASSUME TypeOK, Pipeline, UNCHANGED serverVars, LinkShrinks, ConnsShrink,
           Pending' => Pending /\ cpend' = cpend
    PROVE  Pipeline'
<1>1. ReaderAdvances
  BY ReaderSame DEF serverVars, extVars
<1> QED BY <1>1, NothingAppears

(* The client's main task, heartbeat and write task. *)
LEMMA PipelineClientMain ==
    ASSUME TypeOK, ClientMaps, Pipeline, UNCHANGED serverVars,
           ClientMainStep \/ CWriterFails \/ CPing
    PROVE  Pipeline'
<1> USE DEF clientVars, cMainVars, instVars, linkVars
<1>0. LinkIncreasing
  BY DEF Pipeline, LinkOrdered
<1>1. CASE CRegister \/ CReturn \/ CStop \/ CPing \/ CWriterFails
  <2>1. s2c' = s2c /\ UNCHANGED <<ikey, igot, to_internal, cpend>> /\ (Pending' => Pending)
    BY <1>1 DEF CRegister, CReturn, CStop, CPing, CWriterFails, ToServer, ClientWriteFails, Pending
  <2> QED BY <1>0, <2>1, LinkSame, ConnsSame, PipelineClientQuiet
<1>2. CASE CRegistered \/ CIgnore
  <2>1. /\ s2c # <<>> /\ s2c' = Tail(s2c) /\ UNCHANGED <<ikey, igot, to_internal, cpend>>
        /\ (Pending' => Pending)
    BY <1>2 DEF CRegistered, CIgnore, ClientReads, Pending
  <2>2. LinkShrinks
    BY <1>0, <2>1, LinkTaken DEF TypeOK
  <2> QED BY <2>1, <2>2, ConnsSame, PipelineClientQuiet
<1>3. CASE CConnectFails \/ CDeliverError
  <2>1. s2c' = s2c /\ UNCHANGED <<ikey, igot, to_internal>> /\ ~Pending'
    BY <1>3 DEF CConnectFails, CDeliverError, Pending
  <2> QED BY <1>0, <2>1, LinkSame, ConnsSame, PipelineClientQuiet
<1>4. CASE CData
  <2>1. CASE cpend' = Head(s2c)
    BY <1>4, <2>1, PipelineTake
  <2>2. CASE cpend' # Head(s2c)
    <3>1. /\ s2c # <<>> /\ s2c' = Tail(s2c) /\ UNCHANGED <<ikey, igot, to_internal>>
          /\ ~Pending'
      BY <1>4, <2>2 DEF CData, ClientReads, Pending
    <3>2. LinkShrinks
      BY <1>0, <3>1, LinkTaken DEF TypeOK
    <3> QED BY <3>1, <3>2, ConnsSame, PipelineClientQuiet
  <2> QED BY <2>1, <2>2
<1>5. CASE CConnect
  BY <1>5, PipelineConnect
<1>6. CASE CDeliver
  BY <1>6, PipelineDeliver
<1> QED BY <1>1, <1>2, <1>3, <1>4, <1>5, <1>6 DEF ClientMainStep

(* The tasks of an internal connection. *)
LEMMA PipelineInternal ==
    ASSUME TypeOK, Pipeline, UNCHANGED serverVars, NEW k \in Inst,
           InternalReadStep(k) \/ InternalWriteStep(k) \/ IRead(k) \/ IClose(k)
    PROVE  Pipeline'
<1> USE DEF cMainVars, linkVars
<1>1. LinkIncreasing
  BY DEF Pipeline, LinkOrdered
<1>2. s2c' = s2c /\ UNCHANGED <<cpend, cmain>>
  BY DEF InternalReadStep, InternalWriteStep, ISend, IReadEnds, IWrite, IWriteEnds,
         IRead, IClose, ToServer
<1>3. ConnsShrink
  <2>1. CASE IWrite(k)
    BY <2>1, ConnsWrite
  <2>2. CASE IWriteEnds(k)
    BY <2>2, ConnsWriteEnds
  <2>3. CASE InternalReadStep(k) \/ IRead(k) \/ IClose(k)
    BY <2>3, ConnsSame DEF InternalReadStep, ISend, IReadEnds, IRead, IClose
  <2> QED BY <2>1, <2>2, <2>3 DEF InternalWriteStep
<1>4. LinkShrinks /\ (Pending' => Pending /\ cpend' = cpend)
  BY <1>1, <1>2, LinkSame DEF Pending
<1> QED BY <1>3, <1>4, PipelineClientQuiet

-----------------------------------------------------------------------------
(* The inductive invariant of the session. *)
InOrder == TypeOK /\ ClientMaps /\ Pipeline

(* Nothing is on its way at the start. *)
LEMMA InitInOrder == Init => InOrder
<1> SUFFICES ASSUME Init PROVE InOrder
  OBVIOUS
<1>1. TypeOK /\ ClientMaps
  BY InitType, InitMaps DEF Init
<1>2. /\ s2c = <<>> /\ ~Pending
      /\ \A k \in Inst : igot[k] = <<>> /\ to_internal[k] = <<>>
  BY DEF Init, LinkInit, ClientInit, Pending
<1>3. \A k \in Inst, n \in Number : ~Has(k, n)
  BY <1>2 DEF Has
<1>4. Pipeline
  BY <1>2, <1>3 DEF Pipeline, ConnsOrdered, QueuesOrdered, Increasing, Precedes, ConnsAhead,
                    PendingAhead, LinkOrdered, LinkIncreasing, InLink
<1> QED BY <1>1, <1>4 DEF InOrder

(* Every step of the session. *)
LEMMA NextInOrder == InOrder /\ [Next]_vars => InOrder'
<1> SUFFICES ASSUME InOrder, [Next]_vars PROVE InOrder'
  OBVIOUS
<1>1. TypeOK /\ ClientMaps /\ Pipeline /\ TypeOK'
  BY NextType DEF InOrder
<1>2. UNCHANGED clientVars => ClientMaps'
  BY <1>1 DEF clientVars, cMainVars, instVars, ClientMaps, EntryHasReader, ConnectIsVacant
<1>3. CASE ServerNext /\ UNCHANGED clientVars
  BY <1>1, <1>2, <1>3, PipelineServer DEF InOrder
<1>4. CASE ClientNext /\ UNCHANGED serverVars
  <2>1. ClientMaps'
    BY <1>1, <1>4, MapsStep DEF TypeOK
  <2>2. Pipeline'
    BY <1>1, <1>4, PipelineClientMain, PipelineInternal DEF ClientNext
  <2> QED BY <1>1, <2>1, <2>2 DEF InOrder
<1>5. CASE s2c' = s2c /\ UNCHANGED <<serverVars, clientVars>>
  <2>1. LinkShrinks
    BY <1>1, <1>5, LinkSame DEF Pipeline, LinkOrdered
  <2>2. ConnsShrink /\ (Pending' => Pending /\ cpend' = cpend)
    BY <1>1, <1>5, ConnsSame DEF clientVars, cMainVars, instVars, Pending
  <2>3. Pipeline'
    BY <1>1, <1>5, <2>1, <2>2, PipelineClientQuiet
  <2> QED BY <1>1, <1>2, <1>5, <2>3 DEF InOrder
<1> QED BY <1>3, <1>4, <1>5 DEF Next, NetworkCut, vars, linkVars

(* What the services have received is part of the way. *)
LEMMA InOrderForward == InOrder => ForwardOrder
<1> SUFFICES ASSUME InOrder, NEW j \in Inst, NEW k \in Inst,
                    NEW x \in DOMAIN igot[j], NEW y \in DOMAIN igot[k],
                    ikey[j] = ikey[k], j < k \/ (j = k /\ x < y)
             PROVE  igot[j][x].n < igot[k][y].n
  BY DEF ForwardOrder
<1>1. CASE j = k /\ x < y
  BY <1>1 DEF InOrder, Pipeline, ConnsOrdered, QueuesOrdered, Increasing
<1>2. CASE j < k
  <2>1. igot[j][x].n \in Number /\ igot[k][y].n \in Number
    BY ElementNumber DEF InOrder, TypeOK, ClientTypeOK
  <2>2. Has(j, igot[j][x].n) /\ Has(k, igot[k][y].n)
    BY DEF Has
  <2> QED BY <1>2, <2>1, <2>2 DEF InOrder, Pipeline, ConnsOrdered
<1> QED BY <1>1, <1>2

(* Whatever fails and whoever closes, the internal services receive the    *)
(* bytes of a user in the order the user sent them and never twice, even   *)
(* when the client reconnects to a service in the middle of the stream     *)
(* while the write task of the old connection still drains its queue.      *)
THEOREM ForwardOrdered == Spec => []ForwardOrder
  BY InitInOrder, NextInOrder, InOrderForward, PTL DEF Spec

-----------------------------------------------------------------------------
(* The part of a queue that is in a set.                                   *)

(* Induction over the naturals, for a set. *)
LEMMA SetInduction ==
    ASSUME NEW T, 0 \in T, \A n \in Nat : n \in T => n + 1 \in T
    PROVE  \A n \in Nat : n \in T
<1> SUFFICES ASSUME Nat \ T # {} PROVE FALSE
  OBVIOUS
<1> DEFINE R == OpToRel(<, Nat)
<1>1. IsWellFoundedOn(R, Nat)
  BY NatLessThanWellFounded, Zenon
<1>2. \A x, y \in Nat : x < y => <<x, y>> \in R
  BY DEF OpToRel
<1> HIDE DEF R
<1>3. PICK x \in Nat \ T : \A y \in Nat \ T : ~ (<<y, x>> \in R)
  BY <1>1, WFMin
<1>4. x # 0 /\ x - 1 \in Nat /\ x - 1 < x
  BY <1>3
<1>5. x - 1 \in T
  BY <1>2, <1>3, <1>4
<1> QED BY <1>3, <1>4, <1>5

(* f[i] is what the first i elements of q have in S. *)
Sifts(f, q, S, n) ==
    /\ f[0] = <<>>
    /\ \A i \in 1..n : f[i] = IF q[i] \in S THEN Append(f[i - 1], q[i]) ELSE f[i - 1]

(* Such an f exists. *)
LEMMA SiftExists ==
    ASSUME NEW T, NEW q \in Seq(T), NEW S
    PROVE  \E f \in [0..Len(q) -> Seq(T)] : Sifts(f, q, S, Len(q))
<1> DEFINE N == {n \in Nat : n <= Len(q) => \E f \in [0..n -> Seq(T)] : Sifts(f, q, S, n)}
<1>1. 0 \in N
  <2> DEFINE g == [i \in 0..0 |-> <<>>]
  <2>1. g \in [0..0 -> Seq(T)] /\ Sifts(g, q, S, 0)
    BY DEF Sifts
  <2> QED BY <2>1
<1>2. ASSUME NEW k \in Nat, k \in N PROVE k + 1 \in N
  <2> SUFFICES ASSUME k + 1 <= Len(q)
               PROVE  \E f \in [0..(k + 1) -> Seq(T)] : Sifts(f, q, S, k + 1)
    OBVIOUS
  <2>1. PICK f \in [0..k -> Seq(T)] : Sifts(f, q, S, k)
    BY <1>2
  <2> DEFINE x == q[k + 1]
             last == IF x \in S THEN Append(f[k], x) ELSE f[k]
             g == [i \in 0..(k + 1) |-> IF i = k + 1 THEN last ELSE f[i]]
  <2>2. last \in Seq(T)
    <3>1. f[k] \in Seq(T) /\ x \in T
      OBVIOUS
    <3> QED BY <3>1
  <2> HIDE DEF last
  <2>3. g \in [0..(k + 1) -> Seq(T)]
    BY <2>2
  <2>4. g[0] = <<>>
    BY <2>1 DEF Sifts
  <2>5. ASSUME NEW i \in 1..(k + 1)
        PROVE  g[i] = IF q[i] \in S THEN Append(g[i - 1], q[i]) ELSE g[i - 1]
    <3>1. CASE i = k + 1
      <4>1. g[i] = last /\ g[i - 1] = f[k] /\ q[i] = x
        BY <3>1
      <4> QED BY <4>1, Zenon DEF last
    <3>2. CASE i # k + 1
      <4>1. g[i] = f[i] /\ g[i - 1] = f[i - 1] /\ i \in 1..k
        BY <3>2
      <4> QED BY <4>1, <2>1, Zenon DEF Sifts
    <3> QED BY <3>1, <3>2
  <2> HIDE DEF g
  <2>6. Sifts(g, q, S, k + 1)
    BY <2>4, <2>5, Zenon DEF Sifts
  <2> QED BY <2>3, <2>6, Zenon
<1> HIDE DEF N
<1>3. Len(q) \in N
  BY <1>1, <1>2, SetInduction
<1> QED BY <1>3 DEF N

(* Two such functions agree as far as their queues do. *)
LEMMA SiftUnique ==
    ASSUME NEW S, NEW n \in Nat, NEW p, NEW q, NEW f, NEW g,
           Sifts(f, p, S, n), Sifts(g, q, S, n), \A i \in 1..n : p[i] = q[i]
    PROVE  \A i \in 0..n : f[i] = g[i]
<1> DEFINE N == {i \in Nat : i \in 0..n => f[i] = g[i]}
<1>1. 0 \in N
  BY DEF Sifts
<1>2. ASSUME NEW i \in Nat, i \in N PROVE i + 1 \in N
  <2> SUFFICES ASSUME i + 1 \in 0..n PROVE f[i + 1] = g[i + 1]
    OBVIOUS
  <2>1. i \in 0..n /\ i + 1 \in 1..n /\ (i + 1) - 1 = i
    OBVIOUS
  <2>2. f[i] = g[i] /\ p[i + 1] = q[i + 1]
    BY <1>2, <2>1
  <2>3. /\ f[i + 1] = IF p[i + 1] \in S THEN Append(f[i], p[i + 1]) ELSE f[i]
        /\ g[i + 1] = IF q[i + 1] \in S THEN Append(g[i], q[i + 1]) ELSE g[i]
    BY <2>1 DEF Sifts
  <2> DEFINE x == q[i + 1]
             y == g[i]
  <2>4. /\ f[i + 1] = IF x \in S THEN Append(y, x) ELSE y
        /\ g[i + 1] = IF x \in S THEN Append(y, x) ELSE y
    BY <2>2, <2>3
  <2> HIDE DEF x, y
  <2> QED BY <2>4, Zenon
<1> HIDE DEF N
<1>3. \A i \in Nat : i \in N
  BY <1>1, <1>2, SetInduction
<1> QED BY <1>3 DEF N

(* Filter is the last value of such a function. *)
LEMMA FilterSifts ==
    ASSUME NEW T, NEW q \in Seq(T), NEW S
    PROVE  \E f : /\ Sifts(f, q, S, Len(q))
                  /\ \A i \in 0..Len(q) : f[i] \in Seq(T)
                  /\ Filter(q, S) = f[Len(q)]
<1> DEFINE n == Len(q)
           Solves(g) == g = [i \in 0..n |-> IF i = 0 THEN <<>>
                                            ELSE IF q[i] \in S THEN Append(g[i - 1], q[i])
                                            ELSE g[i - 1]]
           f == CHOOSE g : Solves(g)
<1>0. n \in Nat
  OBVIOUS
<1>1. Filter(q, S) = f[n]
  BY DEF Filter
<1>2. PICK g \in [0..n -> Seq(T)] : Sifts(g, q, S, n)
  BY SiftExists
<1> HIDE DEF n
<1>3. Solves(g)
  <2>1. ASSUME NEW i \in 0..n
        PROVE  g[i] = IF i = 0 THEN <<>>
                      ELSE IF q[i] \in S THEN Append(g[i - 1], q[i]) ELSE g[i - 1]
    <3>1. i # 0 => i \in 1..n
      BY <1>0
    <3> QED BY <1>2, <3>1, Zenon DEF Sifts
  <2>2. g = [i \in 0..n |-> g[i]]
    BY <1>2
  <2> QED BY <2>1, <2>2, Zenon
<1>4. Solves(f)
  BY <1>3, Zenon
<1> HIDE DEF f
<1>5. Sifts(f, q, S, n)
  <2>1. \A i \in 0..n : f[i] = IF i = 0 THEN <<>>
                               ELSE IF q[i] \in S THEN Append(f[i - 1], q[i]) ELSE f[i - 1]
    BY <1>4, Zenon
  <2>2. 0 \in 0..n /\ \A i \in 1..n : i \in 0..n /\ i # 0
    BY <1>0
  <2> QED BY <2>1, <2>2, Zenon DEF Sifts
<1>6. \A i \in 0..n : f[i] = g[i]
  BY <1>0, <1>2, <1>5, SiftUnique
<1>7. \A i \in 0..n : f[i] \in Seq(T)
  BY <1>2, <1>6
<1> QED BY <1>1, <1>5, <1>7 DEF n

(* What is filtered out of a queue, nothing, one element and two queues    *)
(* one after the other.                                                    *)
LEMMA FilterType ==
    ASSUME NEW T, NEW q \in Seq(T), NEW S
    PROVE  Filter(q, S) \in Seq(T)
<1>1. PICK f : /\ \A i \in 0..Len(q) : f[i] \in Seq(T)
               /\ Filter(q, S) = f[Len(q)]
  BY FilterSifts
<1>2. Len(q) \in 0..Len(q)
  OBVIOUS
<1> QED BY <1>1, <1>2, Zenon

(* Nothing is left of nothing. *)
LEMMA FilterEmpty ==
    ASSUME NEW S
    PROVE  Filter(<<>>, S) = <<>>
<1> DEFINE e == <<>>
<1>1. e \in Seq(Nat) /\ Len(e) = 0
  OBVIOUS
<1> HIDE DEF e
<1>2. PICK f : Sifts(f, e, S, Len(e)) /\ Filter(e, S) = f[Len(e)]
  BY <1>1, FilterSifts
<1> QED BY <1>1, <1>2 DEF Sifts, e

(* Of a queue of one element, that element or nothing is left. *)
LEMMA FilterOne ==
    ASSUME NEW x, NEW S
    PROVE  Filter(<<x>>, S) = IF x \in S THEN <<x>> ELSE <<>>
<1> DEFINE s == <<x>>
<1>1. s \in Seq({x}) /\ Len(s) = 1 /\ s[1] = x /\ Append(<<>>, x) = s
  OBVIOUS
<1> HIDE DEF s
<1>2. PICK f : Sifts(f, s, S, Len(s)) /\ Filter(s, S) = f[Len(s)]
  BY <1>1, FilterSifts
<1>3. f[0] = <<>> /\ f[1] = IF s[1] \in S THEN Append(f[0], s[1]) ELSE f[0]
  <2>1. 1 \in 1..1 /\ 1 - 1 = 0
    OBVIOUS
  <2> QED BY <1>1, <1>2, <2>1 DEF Sifts
<1> QED BY <1>1, <1>2, <1>3, Zenon DEF s

(* Appending to the second of two queues. *)
AppendJoins(a, b, x) == Append(a \o b, x) = a \o Append(b, x)

(* An element is appended to two queues in a row by appending it to the second. *)
LEMMA ConcatAppend ==
    ASSUME NEW T, NEW a \in Seq(T), NEW b \in Seq(T), NEW x \in T
    PROVE  AppendJoins(a, b, x)
  BY SMTT(30) DEF AppendJoins

(* What is left of two queues in a row is what is left of each, in a row. *)
LEMMA FilterConcat ==
    ASSUME NEW T, NEW p \in Seq(T), NEW q \in Seq(T), NEW S
    PROVE  Filter(p \o q, S) = Filter(p, S) \o Filter(q, S)
<1> DEFINE r == p \o q
           m == Len(p)
           n == Len(q)
<1>1. /\ r \in Seq(T) /\ Len(r) = m + n /\ m \in Nat /\ n \in Nat
      /\ \A i \in 1..m : r[i] = p[i]
      /\ \A i \in 1..n : r[m + i] = q[i] /\ q[i] \in T
  OBVIOUS
<1> HIDE DEF r
<1>2. PICK f : /\ Sifts(f, r, S, Len(r)) /\ \A i \in 0..Len(r) : f[i] \in Seq(T)
               /\ Filter(r, S) = f[Len(r)]
  <2>1. r \in Seq(T)
    BY <1>1
  <2> QED BY <2>1, FilterSifts
<1>3. PICK g : /\ Sifts(g, p, S, m) /\ \A i \in 0..m : g[i] \in Seq(T)
               /\ Filter(p, S) = g[m]
  BY <1>1, FilterSifts
<1>4. PICK h : /\ Sifts(h, q, S, n) /\ \A i \in 0..n : h[i] \in Seq(T)
               /\ Filter(q, S) = h[n]
  BY <1>1, FilterSifts
<1> HIDE DEF m, n
<1>5. f[m] = g[m]
  <2>1. Sifts(f, r, S, m)
    BY <1>1, <1>2 DEF Sifts
  <2>2. \A i \in 0..m : f[i] = g[i]
    <3>1. m \in Nat /\ Sifts(g, p, S, m) /\ \A i \in 1..m : r[i] = p[i]
      BY <1>1, <1>3
    <3> QED BY <2>1, <3>1, SiftUnique
  <2> QED BY <1>1, <2>2
<1>6. g[m] \in Seq(T)
  BY <1>1, <1>3
<1> DEFINE N == {i \in Nat : i <= n => f[m + i] = g[m] \o h[i]}
<1>7. 0 \in N
  <2>1. h[0] = <<>> /\ m + 0 = m
    BY <1>1, <1>4 DEF Sifts
  <2>2. g[m] \o <<>> = g[m]
    BY <1>6
  <2> QED BY <1>5, <2>1, <2>2
<1>8. ASSUME NEW i \in Nat, i \in N PROVE i + 1 \in N
  <2>0. i + 1 \in Nat
    OBVIOUS
  <2> SUFFICES ASSUME i + 1 <= n PROVE f[m + (i + 1)] = g[m] \o h[i + 1]
    BY <2>0, Zenon
  <2> DEFINE x == q[i + 1]
             a == g[m]
             b == h[i]
  <2>a. i <= n
    BY <1>1
  <2>1. f[m + i] = a \o b
    BY <1>8, <2>a, Zenon
  <2>2. /\ i + 1 \in 1..n /\ i \in 0..n /\ (i + 1) - 1 = i
        /\ m + (i + 1) \in 1..(m + n) /\ (m + (i + 1)) - 1 = m + i
    BY <1>1
  <2>3. r[m + (i + 1)] = x /\ x \in T /\ b \in Seq(T)
    BY <1>1, <1>4, <2>2
  <2>4. h[i + 1] = IF x \in S THEN Append(b, x) ELSE b
    BY <1>4, <2>2 DEF Sifts
  <2>5. f[m + (i + 1)] = IF x \in S THEN Append(f[m + i], x) ELSE f[m + i]
    BY <1>1, <1>2, <2>2, <2>3 DEF Sifts
  <2> HIDE DEF x, a, b
  <2>6. a \in Seq(T)
    BY <1>6 DEF a
  <2>7. Append(a \o b, x) = a \o Append(b, x)
    <3>1. a \in Seq(T) /\ b \in Seq(T) /\ x \in T
      BY <2>3, <2>6
    <3>2. AppendJoins(a, b, x)
      BY <3>1, ConcatAppend
    <3> QED BY <3>2, Zenon DEF AppendJoins
  <2> QED BY <2>1, <2>4, <2>5, <2>7 DEF a
<1> HIDE DEF N
<1>9. n \in N
  BY <1>1, <1>7, <1>8, SetInduction
<1>10. f[m + n] = g[m] \o h[n]
  <2>1. n <= n
    BY <1>1
  <2> QED BY <1>9, <2>1, Zenon DEF N
<1> QED BY <1>1, <1>2, <1>3, <1>4, <1>10 DEF r

(* A queue without elements of the set. *)
LEMMA FilterNone ==
    ASSUME NEW T, NEW q \in Seq(T), NEW S, \A i \in DOMAIN q : q[i] \notin S
    PROVE  Filter(q, S) = <<>>
<1> DEFINE n == Len(q)
<1>1. n \in Nat /\ \A i \in 1..n : q[i] \notin S
  OBVIOUS
<1>2. PICK f : Sifts(f, q, S, n) /\ Filter(q, S) = f[n]
  BY FilterSifts
<1> HIDE DEF n
<1> DEFINE N == {i \in Nat : i <= n => f[i] = <<>>}
<1>3. 0 \in N
  BY <1>2 DEF Sifts
<1>4. ASSUME NEW i \in Nat, i \in N PROVE i + 1 \in N
  <2> SUFFICES ASSUME i + 1 <= n PROVE f[i + 1] = <<>>
    OBVIOUS
  <2>1. i + 1 \in 1..n /\ (i + 1) - 1 = i /\ f[i] = <<>>
    BY <1>1, <1>4
  <2> QED BY <1>1, <1>2, <2>1 DEF Sifts
<1> HIDE DEF N
<1>5. n \in N
  BY <1>1, <1>3, <1>4, SetInduction
<1> QED BY <1>1, <1>2, <1>5 DEF N

(* What is left are elements of the set. *)
LEMMA FilterMembers ==
    ASSUME NEW T, NEW q \in Seq(T), NEW S
    PROVE  Filter(q, S) \in Seq(S)
<1> DEFINE n == Len(q)
<1>1. n \in Nat
  OBVIOUS
<1>2. PICK f : Sifts(f, q, S, n) /\ Filter(q, S) = f[n]
  BY FilterSifts
<1> HIDE DEF n
<1> DEFINE N == {i \in Nat : i <= n => f[i] \in Seq(S)}
<1>3. 0 \in N
  <2>1. f[0] = <<>> /\ <<>> \in Seq(S)
    BY <1>2 DEF Sifts
  <2> QED BY <2>1
<1>4. ASSUME NEW i \in Nat, i \in N PROVE i + 1 \in N
  <2> SUFFICES ASSUME i + 1 <= n PROVE f[i + 1] \in Seq(S)
    OBVIOUS
  <2> DEFINE x == q[i + 1]
             y == f[i]
  <2>1. i + 1 \in 1..n /\ (i + 1) - 1 = i /\ y \in Seq(S)
    BY <1>1, <1>4
  <2>2. f[i + 1] = IF x \in S THEN Append(y, x) ELSE y
    BY <1>2, <2>1 DEF Sifts
  <2> HIDE DEF x, y
  <2>3. x \in S => Append(y, x) \in Seq(S)
    BY <2>1
  <2> QED BY <2>1, <2>2, <2>3
<1> HIDE DEF N
<1>5. n \in N
  BY <1>1, <1>3, <1>4, SetInduction
<1> QED BY <1>1, <1>2, <1>5 DEF N

-----------------------------------------------------------------------------
(* The chunks of a key on the link and their numbers.                      *)

(* A queue with each element replaced by its image. *)
Image(F, q) == [i \in DOMAIN q |-> F[q[i]]]

(* The image of two queues in a row is the image of each, in a row. *)
ImageJoins(F, p, q) == Image(F, p \o q) = Image(F, p) \o Image(F, q)

(* It is, whatever the function. *)
LEMMA ImageConcat ==
    ASSUME NEW T, NEW U, NEW F \in [T -> U], NEW p \in Seq(T), NEW q \in Seq(T)
    PROVE  Image(F, p) \in Seq(U) /\ ImageJoins(F, p, q)
<1>0. \A x, y \in Seq(U) :
         /\ x \o y \in Seq(U) /\ Len(x \o y) = Len(x) + Len(y)
         /\ \A i \in 1..(Len(x) + Len(y)) :
               (x \o y)[i] = IF i <= Len(x) THEN x[i] ELSE y[i - Len(x)]
  OBVIOUS
<1>1. ASSUME NEW s \in Seq(T)
      PROVE  /\ Image(F, s) \in Seq(U) /\ Len(Image(F, s)) = Len(s)
             /\ \A i \in 1..Len(s) : Image(F, s)[i] = F[s[i]]
  <2>1. DOMAIN s = 1..Len(s) /\ Len(s) \in Nat /\ \A i \in 1..Len(s) : F[s[i]] \in U
    OBVIOUS
  <2>2. Image(F, s) = [i \in 1..Len(s) |-> F[s[i]]]
    BY <2>1 DEF Image
  <2>3. Image(F, s) \in Seq(U)
    BY <2>1, <2>2
  <2>4. Len(Image(F, s)) = Len(s)
    BY <2>1, <2>2
  <2> QED BY <2>2, <2>3, <2>4
<1> DEFINE a == Image(F, p)
           b == Image(F, q)
           u == Image(F, p \o q)
           v == a \o b
           m == Len(p)
           n == Len(q)
<1>2. /\ p \o q \in Seq(T) /\ Len(p \o q) = m + n /\ m \in Nat /\ n \in Nat
      /\ \A i \in 1..(m + n) : (p \o q)[i] = IF i <= m THEN p[i] ELSE q[i - m]
  OBVIOUS
<1>3. /\ u \in Seq(U) /\ Len(u) = m + n
      /\ \A i \in 1..(m + n) : u[i] = IF i <= m THEN F[p[i]] ELSE F[q[i - m]]
  <2>1. \A i \in 1..(m + n) : u[i] = F[(p \o q)[i]]
    BY <1>1, <1>2
  <2> QED BY <1>1, <1>2, <2>1
<1>4. /\ a \in Seq(U) /\ Len(a) = m /\ \A i \in 1..m : a[i] = F[p[i]]
      /\ b \in Seq(U) /\ Len(b) = n /\ \A i \in 1..n : b[i] = F[q[i]]
  BY <1>1
<1> HIDE DEF a, b, u, m, n
<1>5. /\ v \in Seq(U) /\ Len(v) = m + n
      /\ \A i \in 1..(m + n) : v[i] = IF i <= m THEN a[i] ELSE b[i - m]
  <2>1. a \in Seq(U) /\ b \in Seq(U) /\ Len(a) = m /\ Len(b) = n
    BY <1>4, Zenon
  <2> QED BY <1>0, <2>1, Zenon
<1>6. \A i \in 1..(m + n) : (i <= m => i \in 1..m) /\ (~(i <= m) => i - m \in 1..n)
  BY <1>2
<1> HIDE DEF v
<1>7. \A i \in 1..(m + n) : u[i] = v[i]
  <2> SUFFICES ASSUME NEW i \in 1..(m + n) PROVE u[i] = v[i]
    OBVIOUS
  <2>1. CASE i <= m
    <3>1. i \in 1..m
      BY <1>6, <2>1, Zenon
    <3>2. u[i] = F[p[i]] /\ v[i] = a[i]
      BY <1>3, <1>5, <2>1, Zenon
    <3>3. a[i] = F[p[i]]
      BY <1>4, <3>1, Zenon
    <3> QED BY <3>2, <3>3, Zenon
  <2>2. CASE ~(i <= m)
    <3>1. i - m \in 1..n
      BY <1>6, <2>2, Zenon
    <3>2. u[i] = F[q[i - m]] /\ v[i] = b[i - m]
      BY <1>3, <1>5, <2>2, Zenon
    <3>3. b[i - m] = F[q[i - m]]
      BY <1>4, <3>1, Zenon
    <3> QED BY <3>2, <3>3, Zenon
  <2> QED BY <2>1, <2>2
<1>8. u = v
  BY <1>3, <1>5, <1>7, SeqEqual
<1> QED BY <1>4, <1>8, Zenon DEF a, b, u, v, ImageJoins

(* Numbers of nothing, of one chunk and of two queues in a row. *)
LEMMA NumbersOf ==
    /\ \A p \in Seq(Payload) : Numbers(p) \in Seq(Nat)
    /\ Numbers(<<>>) = <<>>
    /\ \A d \in Payload : Numbers(<<d>>) = <<d.n>>
    /\ \A p, q \in Seq(Payload) : Numbers(p \o q) = Numbers(p) \o Numbers(q)
<1> DEFINE F == [d \in Payload |-> d.n]
<1>1. F \in [Payload -> Nat]
  BY DEF Payload
<1>2. ASSUME NEW p \in Seq(Payload) PROVE Numbers(p) = Image(F, p)
  <2>1. \A i \in DOMAIN p : p[i].n = F[p[i]]
    OBVIOUS
  <2> QED BY <2>1, Zenon DEF Numbers, Image
<1> HIDE DEF F
<1>3. ASSUME NEW p \in Seq(Payload), NEW q \in Seq(Payload)
      PROVE  Numbers(p) \in Seq(Nat) /\ Numbers(p \o q) = Numbers(p) \o Numbers(q)
  <2>1. p \o q \in Seq(Payload)
    OBVIOUS
  <2>2. Numbers(p) = Image(F, p) /\ Numbers(q) = Image(F, q) /\ Numbers(p \o q) = Image(F, p \o q)
    BY <1>2, <2>1
  <2>3. Image(F, p) \in Seq(Nat) /\ ImageJoins(F, p, q)
    BY <1>1, ImageConcat
  <2> QED BY <2>2, <2>3, Zenon DEF ImageJoins
<1>4. Numbers(<<>>) = <<>> /\ \A d : Numbers(<<d>>) = <<d.n>>
  BY DEF Numbers
<1> QED BY <1>3, <1>4

(* The Data frames of a key. *)
FramesOf(c) == {f \in DataFrames : f.key = c}

(* The chunks of a key in nothing, in one frame and in two queues in a row. *)
LEMMA DataOfQueues ==
    ASSUME NEW c \in Key
    PROVE  /\ \A q \in Seq(Frame) : DataOf(c, q) \in Seq(Payload)
           /\ DataOf(c, <<>>) = <<>>
           /\ \A f \in Frame : DataOf(c, <<f>>) = IF IsDataOf(f, c) THEN <<f.data>> ELSE <<>>
           /\ \A p, q \in Seq(Frame) : DataOf(c, p \o q) = DataOf(c, p) \o DataOf(c, q)
<1> DEFINE F == [f \in DataFrames |-> f.data]
           S == FramesOf(c)
<1>1. F \in [DataFrames -> Payload] /\ S \subseteq DataFrames
  BY DEF DataFrames, FramesOf
<1>2. ASSUME NEW q \in Seq(Frame)
      PROVE  Filter(q, S) \in Seq(DataFrames) /\ DataOf(c, q) = Image(F, Filter(q, S))
  <2>1. Filter(q, S) \in Seq(S)
    BY FilterMembers
  <2> DEFINE s == Filter(q, S)
  <2>2. DataOf(c, q) = [i \in DOMAIN s |-> s[i].data]
    BY Zenon DEF DataOf, FramesOf
  <2> HIDE DEF s, S
  <2>3. s \in Seq(DataFrames)
    BY <1>1, <2>1 DEF s
  <2>4. \A i \in DOMAIN s : s[i].data = F[s[i]]
    BY <2>3
  <2>5. Image(F, s) = [i \in DOMAIN s |-> s[i].data]
    BY <2>4, Zenon DEF Image
  <2> QED BY <2>2, <2>3, <2>5, Zenon DEF s
<1> HIDE DEF F, S
<1>3. ASSUME NEW p \in Seq(Frame), NEW q \in Seq(Frame)
      PROVE  DataOf(c, p) \in Seq(Payload) /\ DataOf(c, p \o q) = DataOf(c, p) \o DataOf(c, q)
  <2> DEFINE a == Filter(p, S)
             b == Filter(q, S)
  <2>0. p \o q \in Seq(Frame)
    OBVIOUS
  <2>1. a \in Seq(DataFrames) /\ b \in Seq(DataFrames)
    BY <1>2, Zenon
  <2>2. Filter(p \o q, S) = a \o b
    BY FilterConcat
  <2>3. /\ DataOf(c, p) = Image(F, a) /\ DataOf(c, q) = Image(F, b)
        /\ DataOf(c, p \o q) = Image(F, a \o b)
    BY <1>2, <2>0, <2>2, Zenon
  <2> HIDE DEF a, b
  <2>4. Image(F, a) \in Seq(Payload) /\ ImageJoins(F, a, b)
    BY <1>1, <2>1, ImageConcat
  <2> QED BY <2>3, <2>4, Zenon DEF ImageJoins
<1>4. DataOf(c, <<>>) = <<>>
  <2>1. Filter(<<>>, S) = <<>>
    BY FilterEmpty
  <2> DEFINE s == Filter(<<>>, S)
  <2>2. DataOf(c, <<>>) = [i \in DOMAIN s |-> s[i].data]
    BY Zenon DEF DataOf, S, FramesOf
  <2> HIDE DEF s
  <2>3. s = <<>>
    BY <2>1 DEF s
  <2> QED BY <2>2, <2>3
<1>5. ASSUME NEW f \in Frame
      PROVE  DataOf(c, <<f>>) = IF IsDataOf(f, c) THEN <<f.data>> ELSE <<>>
  <2>1. Filter(<<f>>, S) = IF f \in S THEN <<f>> ELSE <<>>
    BY FilterOne
  <2>2. f \in S <=> IsDataOf(f, c)
    BY FrameKinds DEF IsDataOf, S, FramesOf, DataFrames
  <2>3. DataOf(c, <<f>>) = IF f \in S THEN <<f.data>> ELSE <<>>
    <3> DEFINE s == Filter(<<f>>, S)
    <3>1. DataOf(c, <<f>>) = [i \in DOMAIN s |-> s[i].data]
      BY Zenon DEF DataOf, S, FramesOf
    <3> HIDE DEF s
    <3>2. CASE f \in S
      <4>1. s = <<f>>
        BY <2>1, <3>2 DEF s
      <4> QED BY <3>1, <3>2, <4>1
    <3>3. CASE f \notin S
      <4>1. s = <<>>
        BY <2>1, <3>3 DEF s
      <4> QED BY <3>1, <3>3, <4>1
    <3> QED BY <3>2, <3>3
  <2> QED BY <2>2, <2>3, Zenon
<1> QED BY <1>3, <1>4, <1>5, Zenon

(* A chunk is queued; a chunk is taken. *)
LEMMA NumbersMove ==
    ASSUME NEW q \in Seq(Payload)
    PROVE  /\ \A d \in Payload : Numbers(Append(q, d)) = Numbers(q) \o <<d.n>>
           /\ q # <<>> => Numbers(q) = <<Head(q).n>> \o Numbers(Tail(q))
<1>1. ASSUME NEW d \in Payload PROVE Numbers(Append(q, d)) = Numbers(q) \o <<d.n>>
  <2>1. Append(q, d) = q \o <<d>> /\ <<d>> \in Seq(Payload)
    OBVIOUS
  <2> QED BY <2>1, NumbersOf, Zenon
<1>2. ASSUME q # <<>> PROVE Numbers(q) = <<Head(q).n>> \o Numbers(Tail(q))
  <2>1. Head(q) \in Payload /\ Tail(q) \in Seq(Payload) /\ q = <<Head(q)>> \o Tail(q)
    BY <1>2
  <2> DEFINE h == Head(q)
             t == Tail(q)
  <2>2. <<h>> \in Seq(Payload)
    BY <2>1
  <2> HIDE DEF h, t
  <2>3. Numbers(q) = Numbers(<<h>>) \o Numbers(t)
    BY <2>1, <2>2, NumbersOf, Zenon DEF h, t
  <2>4. Numbers(<<h>>) = <<h.n>>
    BY <2>1, NumbersOf, Zenon DEF h
  <2> QED BY <2>3, <2>4, Zenon DEF h, t
<1> QED BY <1>1, <1>2, Zenon

(* Sequences of numbers one after the other. *)
LEMMA Joined ==
    /\ \A a, b, d \in Seq(Nat) : (a \o b) \o d = a \o (b \o d)
    /\ \A a, b \in Seq(Nat) : a \o b \in Seq(Nat)
    /\ \A a \in Seq(Nat) : a \o <<>> = a /\ <<>> \o a = a
    /\ \A n \in Nat : <<n>> \in Seq(Nat)
    /\ <<>> \in Seq(Nat)
<1>1. \A a, b, d \in Seq(Nat) : (a \o b) \o d = a \o (b \o d)
  BY SMTT(60)
<1>2. \A a, b \in Seq(Nat) : a \o b \in Seq(Nat)
  OBVIOUS
<1>3. \A a \in Seq(Nat) : a \o <<>> = a /\ <<>> \o a = a
  OBVIOUS
<1>4. <<>> \in Seq(Nat) /\ \A n \in Nat : <<n>> \in Seq(Nat)
  OBVIOUS
<1> QED BY <1>1, <1>2, <1>3, <1>4, Zenon

(* The numbers of s are consecutive and end in e. *)
Run(s, e) == \A i \in DOMAIN s : s[i] = e - Len(s) + i

(* A run can grow by the next number and lose its first. *)
LEMMA Runs ==
    ASSUME NEW s \in Seq(Nat), NEW e \in Nat
    PROVE  /\ Run(<<>>, e)
           /\ Run(s, e) => Run(s \o <<e + 1>>, e + 1)
           /\ \A x \in Nat : Run(<<x>> \o s, e) => Run(s, e)
<1>1. Run(<<>>, e)
  BY DEF Run
<1>2. ASSUME Run(s, e) PROVE Run(s \o <<e + 1>>, e + 1)
  <2> DEFINE r == s \o <<e + 1>>
  <2>1. /\ Len(r) = Len(s) + 1 /\ DOMAIN r = 1..(Len(s) + 1)
        /\ \A i \in 1..Len(s) : r[i] = s[i]
        /\ r[Len(s) + 1] = e + 1
        /\ DOMAIN s = 1..Len(s) /\ Len(s) \in Nat
    OBVIOUS
  <2> HIDE DEF r
  <2>2. Run(r, e + 1)
    BY <1>2, <2>1 DEF Run
  <2> QED BY <2>2 DEF r
<1>3. ASSUME NEW x \in Nat, Run(<<x>> \o s, e) PROVE Run(s, e)
  <2> DEFINE r == <<x>> \o s
  <2>1. /\ Len(r) = Len(s) + 1 /\ DOMAIN r = 1..(Len(s) + 1)
        /\ \A i \in 1..Len(s) : r[i + 1] = s[i]
        /\ DOMAIN s = 1..Len(s) /\ Len(s) \in Nat
    OBVIOUS
  <2> HIDE DEF r
  <2>2. Run(r, e)
    BY <1>3 DEF r
  <2> SUFFICES ASSUME NEW i \in 1..Len(s) PROVE s[i] = e - Len(s) + i
    BY <2>1 DEF Run
  <2>3. r[i + 1] = e - Len(r) + (i + 1)
    <3>1. i + 1 \in DOMAIN r
      BY <2>1
    <3> QED BY <2>2, <3>1, Zenon DEF Run
  <2> QED BY <2>1, <2>3
<1> QED BY <1>1, <1>2, <1>3

-----------------------------------------------------------------------------
(* Nothing of a user's stream is lost behind the connection in the map.    *)

(* The numbers of the chunks of a key in a queue of frames. *)
Chunks(c, q) == Numbers(DataOf(c, q))

(* The numbers of the chunks of a key, along a queue of frames. *)
LEMMA ChunksOf ==
    ASSUME NEW c \in Key
    PROVE  /\ \A q \in Seq(Frame) : Chunks(c, q) \in Seq(Nat)
           /\ Chunks(c, <<>>) = <<>>
           /\ \A f \in Frame : Chunks(c, <<f>>) = IF IsDataOf(f, c) THEN <<f.data.n>> ELSE <<>>
           /\ \A p, q \in Seq(Frame) : Chunks(c, p \o q) = Chunks(c, p) \o Chunks(c, q)
<1>1. ASSUME NEW q \in Seq(Frame) PROVE DataOf(c, q) \in Seq(Payload) /\ Chunks(c, q) \in Seq(Nat)
  BY DataOfQueues, NumbersOf, Zenon DEF Chunks
<1>2. Chunks(c, <<>>) = <<>>
  BY DataOfQueues, NumbersOf, Zenon DEF Chunks
<1>3. ASSUME NEW f \in Frame
      PROVE  Chunks(c, <<f>>) = IF IsDataOf(f, c) THEN <<f.data.n>> ELSE <<>>
  <2>1. DataOf(c, <<f>>) = IF IsDataOf(f, c) THEN <<f.data>> ELSE <<>>
    BY DataOfQueues, Zenon
  <2>2. IsDataOf(f, c) => f.data \in Payload
    BY FrameKinds DEF IsDataOf, DataFrames
  <2> QED BY <2>1, <2>2, NumbersOf, Zenon DEF Chunks
<1>4. ASSUME NEW p \in Seq(Frame), NEW q \in Seq(Frame)
      PROVE  Chunks(c, p \o q) = Chunks(c, p) \o Chunks(c, q)
  <2>1. DataOf(c, p \o q) = DataOf(c, p) \o DataOf(c, q)
    BY DataOfQueues, Zenon
  <2> QED BY <1>1, <2>1, NumbersOf, Zenon DEF Chunks
<1> QED BY <1>1, <1>2, <1>3, <1>4, Zenon

(* A frame is queued; a frame is taken. *)
LEMMA ChunksMove ==
    ASSUME NEW c \in Key, NEW q \in Seq(Frame)
    PROVE  /\ \A f \in Frame : Chunks(c, Append(q, f)) =
                 IF IsDataOf(f, c) THEN Chunks(c, q) \o <<f.data.n>> ELSE Chunks(c, q)
           /\ q # <<>> => Chunks(c, q) =
                 IF IsDataOf(Head(q), c) THEN <<Head(q).data.n>> \o Chunks(c, Tail(q))
                 ELSE Chunks(c, Tail(q))
<1>1. ASSUME NEW f \in Frame
      PROVE  Chunks(c, Append(q, f)) =
                 IF IsDataOf(f, c) THEN Chunks(c, q) \o <<f.data.n>> ELSE Chunks(c, q)
  <2>1. Append(q, f) = q \o <<f>> /\ <<f>> \in Seq(Frame)
    OBVIOUS
  <2>2. Chunks(c, Append(q, f)) = Chunks(c, q) \o Chunks(c, <<f>>)
    BY <2>1, ChunksOf, Zenon
  <2>3. Chunks(c, <<f>>) = IF IsDataOf(f, c) THEN <<f.data.n>> ELSE <<>>
    BY ChunksOf, Zenon
  <2>4. Chunks(c, q) \o <<>> = Chunks(c, q)
    BY ChunksOf, Joined, Zenon
  <2> QED BY <2>2, <2>3, <2>4, Zenon
<1>2. ASSUME q # <<>>
      PROVE  Chunks(c, q) =
                 IF IsDataOf(Head(q), c) THEN <<Head(q).data.n>> \o Chunks(c, Tail(q))
                 ELSE Chunks(c, Tail(q))
  <2>1. Head(q) \in Frame /\ Tail(q) \in Seq(Frame) /\ q = <<Head(q)>> \o Tail(q)
    BY <1>2
  <2> DEFINE h == Head(q)
             t == Tail(q)
  <2>2. <<h>> \in Seq(Frame)
    BY <2>1
  <2> HIDE DEF h, t
  <2>3. Chunks(c, q) = Chunks(c, <<h>>) \o Chunks(c, t)
    <3>1. \A p, r \in Seq(Frame) : Chunks(c, p \o r) = Chunks(c, p) \o Chunks(c, r)
      BY ChunksOf, Zenon
    <3>2. q = <<h>> \o t /\ t \in Seq(Frame)
      BY <2>1, Zenon DEF h, t
    <3> QED BY <2>2, <3>1, <3>2, Zenon
  <2>4. Chunks(c, <<h>>) = IF IsDataOf(h, c) THEN <<h.data.n>> ELSE <<>>
    BY <2>1, ChunksOf, Zenon DEF h
  <2>5. <<>> \o Chunks(c, t) = Chunks(c, t)
    BY <2>1, ChunksOf, Joined, Zenon DEF t
  <2> QED BY <2>3, <2>4, <2>5, Zenon DEF h, t
<1> QED BY <1>1, <1>2, Zenon

(* The chunks of c between its read task and the main task of the client,  *)
(* both included, and the chunks connection k has been handed.             *)
InHand(c)  == Chunks(c, Held(cpend, Pending))
OnLink(c)  == Chunks(c, s2c)
Reading(c) == IF eread[c] = "send" THEN <<echunk[c]>> ELSE <<>>
Way(c)     == InHand(c) \o (OnLink(c) \o Reading(c))
Got(k)     == Numbers(igot[k]) \o Numbers(to_internal[k])

(* Connection k is the one in the map for c and its service is there. *)
Serves(k, c) == k = proxy_conns[c] /\ ~iclosed[k]

(* Both ends of the way from the server to the client are there. *)
Up == swriter = "run" /\ cmain # "ended"

(* What is on the way is a run up to the last chunk read, and continues    *)
(* what the connection in the map has been handed.                         *)
Complete ==
    Up => \A c \in Key :
             /\ Run(Way(c), echunk[c])
             /\ \A k \in Inst : Serves(k, c) => Run(Got(k) \o Way(c), echunk[c])

(* These are sequences of numbers. *)
WayTyped ==
    /\ \A c \in Key : /\ InHand(c) \in Seq(Nat) /\ OnLink(c) \in Seq(Nat)
                      /\ Reading(c) \in Seq(Nat) /\ Way(c) \in Seq(Nat)
                      /\ echunk[c] \in Nat
    /\ \A k \in Inst : Got(k) \in Seq(Nat)

(* By their types. *)
LEMMA WayType == TypeOK => WayTyped
<1> SUFFICES ASSUME TypeOK PROVE WayTyped
  OBVIOUS
<1>1. ASSUME NEW c \in Key
      PROVE  /\ InHand(c) \in Seq(Nat) /\ OnLink(c) \in Seq(Nat) /\ Reading(c) \in Seq(Nat)
             /\ Way(c) \in Seq(Nat) /\ echunk[c] \in Nat
  <2>1. Held(cpend, Pending) \in Seq(Frame)
    <3>1. Pending => cpend \in Frame
      BY DEF Pending, TypeOK, ClientTypeOK, Frame
    <3>2. <<>> \in Seq(Frame) /\ \A f \in Frame : <<f>> \in Seq(Frame)
      OBVIOUS
    <3> QED BY <3>1, <3>2, Zenon DEF Held
  <2>2. s2c \in Seq(Frame)
    BY DEF TypeOK, LinkTypeOK
  <2>3. InHand(c) \in Seq(Nat) /\ OnLink(c) \in Seq(Nat)
    BY <2>1, <2>2, ChunksOf, Zenon DEF InHand, OnLink
  <2>4. echunk[c] \in Nat
    BY FramesAssumption DEF TypeOK, ServerTypeOK
  <2>5. Reading(c) \in Seq(Nat)
    BY <2>4, Joined, Zenon DEF Reading
  <2> QED BY <2>3, <2>4, <2>5, Joined, Zenon DEF Way
<1>2. ASSUME NEW k \in Inst PROVE Got(k) \in Seq(Nat)
  <2>1. igot[k] \in Seq(Payload) /\ to_internal[k] \in Seq(Payload)
    BY DEF TypeOK, ClientTypeOK
  <2> QED BY <2>1, NumbersOf, Joined, Zenon DEF Got
<1> QED BY <1>1, <1>2, Zenon DEF WayTyped

-----------------------------------------------------------------------------
(* What a step may do to the stream of a key: leave it, read the next      *)
(* chunk, or take the first chunk off the way, to the connection in the    *)
(* map if there is one.                                                    *)
Stays(c) ==
    /\ Way(c)' = Way(c) /\ echunk'[c] = echunk[c]
    /\ \A k \in Inst : Serves(k, c)' => \/ Serves(k, c) /\ Got(k)' = Got(k)
                                        \/ Got(k)' = <<>>

(* The read task of c takes the next chunk from the user. *)
Grows(c) ==
    /\ Way(c)' = Way(c) \o <<echunk[c] + 1>> /\ echunk'[c] = echunk[c] + 1
    /\ \A k \in Inst : Serves(k, c)' => Serves(k, c) /\ Got(k)' = Got(k)

(* The main task of the client is done with the first chunk on the way. *)
Passes(c) ==
    \E x \in Nat :
        /\ Way(c) = <<x>> \o Way(c)' /\ echunk'[c] = echunk[c]
        /\ \A k \in Inst : Serves(k, c)' => Serves(k, c) /\ Got(k)' = Got(k) \o <<x>>

(* Such a step keeps the streams complete. *)
LEMMA CompleteKept ==
    ASSUME TypeOK, TypeOK', Complete, Up' => Up,
           Up' => \A c \in Key : Stays(c) \/ Grows(c) \/ Passes(c)
    PROVE  Complete'
<1> SUFFICES ASSUME Up', NEW c \in Key
             PROVE  /\ Run(Way(c), echunk[c])'
                    /\ \A k \in Inst : Serves(k, c)' => Run(Got(k) \o Way(c), echunk[c])'
  BY Zenon DEF Complete
<1> DEFINE w == Way(c)
           v == Way(c)'
           e == echunk[c]
<1>1. /\ Run(w, e)
      /\ \A k \in Inst : Serves(k, c) => Run(Got(k) \o w, e)
  BY Zenon DEF Complete
<1>2. /\ w \in Seq(Nat) /\ e \in Nat /\ \A k \in Inst : Got(k) \in Seq(Nat)
  BY WayType, Zenon DEF WayTyped
<1>3. v \in Seq(Nat)
  <2>1. (TypeOK => WayTyped)'
    BY WayType, PTL
  <2> QED BY <2>1, Zenon DEF WayTyped
<1>0. \A a, b, d \in Seq(Nat) : (a \o b) \o d = a \o (b \o d)
  BY Joined, Zenon
<1>4. /\ \A a, b \in Seq(Nat) : a \o b \in Seq(Nat)
      /\ \A a \in Seq(Nat) : <<>> \o a = a
      /\ \A n \in Nat : <<n>> \in Seq(Nat)
  BY Joined, Zenon
<1>5. \A s \in Seq(Nat), n \in Nat :
         /\ Run(s, n) => Run(s \o <<n + 1>>, n + 1)
         /\ \A x \in Nat : Run(<<x>> \o s, n) => Run(s, n)
  BY Runs, Zenon
<1>6. e + 1 \in Nat
  BY <1>2
<1>7. Stays(c) \/ Grows(c) \/ Passes(c)
  BY Zenon
<1>8. CASE Stays(c)
  <2>1. v = w /\ echunk'[c] = e
    BY <1>8, Zenon DEF Stays
  <2>2. ASSUME NEW k \in Inst, Serves(k, c)' PROVE Run(Got(k)' \o v, e)
    <3>1. CASE Serves(k, c) /\ Got(k)' = Got(k)
      BY <1>1, <2>1, <3>1, Zenon
    <3>2. CASE Got(k)' = <<>>
      BY <1>1, <1>2, <1>4, <2>1, <3>2, Zenon
    <3> QED BY <1>8, <2>2, <3>1, <3>2, Zenon DEF Stays
  <2> HIDE DEF v, w, e
  <2>3. Run(v, e)
    BY <1>1, <2>1, Zenon
  <2> QED BY <2>1, <2>2, <2>3, Zenon DEF v, Run
<1>9. CASE Grows(c)
  <2>1. v = w \o <<e + 1>> /\ echunk'[c] = e + 1
    BY <1>9, Zenon DEF Grows
  <2>2. ASSUME NEW k \in Inst, Serves(k, c)' PROVE Run(Got(k)' \o v, e + 1)
    <3>1. Serves(k, c) /\ Got(k)' = Got(k)
      BY <1>9, <2>2, Zenon DEF Grows
    <3> DEFINE g == Got(k)
    <3>2. g \in Seq(Nat) /\ w \in Seq(Nat) /\ <<e + 1>> \in Seq(Nat)
      BY <1>2, <1>4, <1>6, Zenon
    <3>3. (g \o w) \o <<e + 1>> = g \o (w \o <<e + 1>>)
      BY <1>0, <3>2, ZenonT(60)
    <3>4. Run((g \o w) \o <<e + 1>>, e + 1)
      <4>1. g \o w \in Seq(Nat)
        BY <1>4, <3>2, Zenon
      <4> QED BY <1>1, <1>2, <1>5, <3>1, <4>1, Zenon
    <3> QED BY <2>1, <3>1, <3>3, <3>4, Zenon
  <2>3. Run(v, e + 1)
    <3>1. Run(w, e) => Run(w \o <<e + 1>>, e + 1)
      BY <1>2, <1>5, Zenon
    <3> QED BY <1>1, <2>1, <3>1, Zenon
  <2>4. \A k \in Inst : Serves(k, c)' => Run(Got(k)' \o v, echunk'[c])
    BY <2>1, <2>2, Zenon
  <2>5. Run(v, echunk'[c])
    BY <2>1, <2>3, Zenon
  <2> QED BY <2>4, <2>5, Zenon DEF Run
<1>10. CASE Passes(c)
  <2>1. PICK x \in Nat : /\ w = <<x>> \o v /\ echunk'[c] = e
                         /\ \A k \in Inst : Serves(k, c)' => Serves(k, c) /\ Got(k)' = Got(k) \o <<x>>
    BY <1>10, Zenon DEF Passes
  <2>2. ASSUME NEW k \in Inst, Serves(k, c)' PROVE Run(Got(k)' \o v, e)
    <3> DEFINE g == Got(k)
    <3>1. Serves(k, c) /\ Got(k)' = g \o <<x>>
      BY <2>1, <2>2, Zenon
    <3>2. g \in Seq(Nat) /\ <<x>> \in Seq(Nat) /\ v \in Seq(Nat)
      BY <1>2, <1>3, <1>4, Zenon
    <3>3. (g \o <<x>>) \o v = g \o (<<x>> \o v)
      BY <1>0, <3>2, ZenonT(60)
    <3>4. Run(g \o (<<x>> \o v), e)
      BY <1>1, <2>1, <3>1, Zenon
    <3> QED BY <3>1, <3>3, <3>4, Zenon
  <2>3. Run(v, e)
    BY <1>1, <1>2, <1>3, <1>5, <2>1, Zenon
  <2> QED BY <2>1, <2>2, <2>3, Zenon DEF Run
<1> QED BY <1>7, <1>8, <1>9, <1>10

-----------------------------------------------------------------------------
(* Every step does one of these.                                           *)

(* No stream changes in the hands of the main task, on the link, in the  *)
(* read tasks of the server and in the connections of the client.          *)
HandStays    == \A c \in Key : InHand(c)' = InHand(c)
LinkStays    == \A c \in Key : OnLink(c)' = OnLink(c)
ReadersStay  == \A c \in Key : Reading(c)' = Reading(c) /\ echunk'[c] = echunk[c]
ConnsStay    == \A c \in Key, k \in Inst : Serves(k, c)' => Serves(k, c) /\ Got(k)' = Got(k)

(* Together: no stream changes. *)
LEMMA AllStays ==
    ASSUME HandStays, LinkStays, ReadersStay, ConnsStay
    PROVE  \A c \in Key : Stays(c)
<1> SUFFICES ASSUME NEW c \in Key PROVE Stays(c)
  OBVIOUS
<1>1. Way(c)' = Way(c) /\ echunk'[c] = echunk[c]
  BY Zenon DEF HandStays, LinkStays, ReadersStay, Way
<1>2. \A k \in Inst : Serves(k, c)' => Serves(k, c) /\ Got(k)' = Got(k)
  BY Zenon DEF ConnsStay
<1> QED BY <1>1, <1>2, Zenon DEF Stays

(* Nothing is queued, or a frame without data, or such a frame is taken. *)
LEMMA LinkStaysBy ==
    ASSUME TypeOK,
           \/ s2c' = s2c
           \/ \E f \in Frame : f.type # "Data" /\ s2c' = Append(s2c, f)
           \/ s2c # <<>> /\ Head(s2c).type # "Data" /\ s2c' = Tail(s2c)
    PROVE  LinkStays
<1> SUFFICES ASSUME NEW c \in Key PROVE OnLink(c)' = OnLink(c)
  BY DEF LinkStays
<1>0. s2c \in Seq(Frame)
  BY DEF TypeOK, LinkTypeOK
<1>1. CASE s2c' = s2c
  BY <1>1, Zenon DEF OnLink
<1>2. ASSUME NEW f \in Frame, f.type # "Data", s2c' = Append(s2c, f) PROVE OnLink(c)' = OnLink(c)
  BY <1>0, <1>2, ChunksMove, Zenon DEF OnLink, IsDataOf
<1>3. CASE s2c # <<>> /\ Head(s2c).type # "Data" /\ s2c' = Tail(s2c)
  BY <1>0, <1>3, ChunksMove, Zenon DEF OnLink, IsDataOf
<1> QED BY <1>1, <1>2, <1>3

(* The server takes no chunk off the way and puts none on it but those of  *)
(* the read tasks.                                                         *)
LEMMA ServerLinkStays ==
    ASSUME TypeOK, ServerNext, Up', \A c \in Key : ~ESend(c)
    PROVE  LinkStays
<1> USE DEF linkVars
<1>1. CASE MainLoopStep
  <2>1. CASE SRegister \/ SRegisterOverLimit \/ SPing \/ SIgnore \/ SData
    <3>1. s2c' = s2c
      BY <2>1 DEF SRegister, SRegisterOverLimit, SPing, SIgnore, SData, ServerReads
    <3> QED BY <3>1, LinkStaysBy
  <2>2. CASE SRoute \/ SRouteError \/ SStop
    <3>1. s2c' = s2c
      BY <2>2 DEF SRoute, SRouteError, SStop
    <3> QED BY <3>1, LinkStaysBy
  <2>3. CASE SSend
    <3>1. s2c' = s2c \/ s2c' = Append(s2c, spend)
      BY <2>3 DEF SSend, ToClient
    <3>2. spend \in Frame /\ spend.type # "Data"
      BY <2>3, AnswerIsNoData DEF SSend
    <3> QED BY <3>1, <3>2, LinkStaysBy
  <2> QED BY <1>1, <2>1, <2>2, <2>3 DEF MainLoopStep
<1>2. CASE ServerWriterStep
  <2>1. swriter' = "done"
    BY <1>2 DEF ServerWriterStep, SWriterEnds, SWriterFails, ServerWriteFails
  <2> QED BY <2>1 DEF Up
<1>3. ASSUME NEW p \in ProxyId, ListenerStep(p) \/ LAccept(p) PROVE LinkStays
  <2>1. CASE LBind(p) \/ LBindFails(p) \/ LPermit(p) \/ LAbort(p) \/ LAccept(p)
    <3>1. s2c' = s2c
      BY <2>1 DEF LBind, LBindFails, LPermit, LAbort, LAccept
    <3> QED BY <3>1, LinkStaysBy
  <2>2. CASE LAck(p)
    <3>1. s2c' = s2c \/ s2c' = Append(s2c, new_reg_ack_frame(lentry[p], TRUE, p))
      BY <2>2 DEF LAck, ToClient
    <3>2. /\ new_reg_ack_frame(lentry[p], TRUE, p) \in Frame
          /\ new_reg_ack_frame(lentry[p], TRUE, p).type # "Data"
      BY <2>2, AnswerIsNoData DEF LAck
    <3> QED BY <3>1, <3>2, LinkStaysBy
  <2>3. CASE LReject(p)
    <3>1. s2c' = s2c \/ s2c' = Append(s2c, new_reg_ack_frame(lentry[p], FALSE, 0))
      BY <2>3 DEF LReject, ToClient
    <3>2. /\ new_reg_ack_frame(lentry[p], FALSE, 0) \in Frame
          /\ new_reg_ack_frame(lentry[p], FALSE, 0).type # "Data"
      BY <2>3, AnswerIsNoData DEF LReject
    <3> QED BY <3>1, <3>2, LinkStaysBy
  <2> QED BY <1>3, <2>1, <2>2, <2>3 DEF ListenerStep
<1>4. ASSUME NEW c \in Key, ExternalReadStep(c) \/ ExternalWriteStep(c) \/ ERead(c) \/ EClose(c)
      PROVE  LinkStays
  <2>1. s2c' = s2c
    BY <1>4 DEF ExternalReadStep, EReadEnds, ExternalWriteStep, EWrite, EWriteEnds, ERead, EClose
  <2> QED BY <2>1, LinkStaysBy
<1> QED BY <1>1, <1>2, <1>3, <1>4 DEF ServerNext

(* A step of the server other than that of a read task with a chunk. *)
LEMMA ServerReadersStay ==
    ASSUME TypeOK, Accepted, ServerNext, Up', \A c \in Key : ~ESend(c) /\ ~ERead(c)
    PROVE  ReadersStay
<1>0. SUFFICES /\ echunk' = echunk
               /\ \A c \in Key : eread'[c] = "send" <=> eread[c] = "send"
  BY Zenon DEF ReadersStay, Reading
<1> USE DEF serverVars, extVars
<1>1. CASE MainLoopStep \/ ServerWriterStep
  <2>1. UNCHANGED <<echunk, eread>>
    BY <1>1, MainLeavesUsers
  <2> QED BY <2>1
<1>2. ASSUME NEW p \in ProxyId, ListenerStep(p) \/ LAccept(p)
      PROVE  echunk' = echunk /\ \A c \in Key : eread'[c] = "send" <=> eread[c] = "send"
  <2>1. CASE LBind(p) \/ LBindFails(p) \/ LAck(p) \/ LReject(p)
    BY <2>1, RegistrationLeavesUsers
  <2>2. CASE LAccept(p)
    <3> DEFINE b == <<p, next_conn_id[p]>>
    <3>1. b \in Key /\ echunk' = echunk /\ eread' = [eread EXCEPT ![b] = "wait"]
      BY <2>2, FramesAssumption DEF LAccept, Key, ConnId, TypeOK, ServerTypeOK
    <3>2. eread[b] = "none"
      BY <3>1, FramesAssumption DEF Accepted, TypeOK, ServerTypeOK
    <3> HIDE DEF b
    <3> QED BY <3>1, <3>2 DEF TypeOK, ServerTypeOK
  <2>3. CASE LPermit(p) \/ LAbort(p)
    <3> DEFINE b == <<p, next_conn_id[p] - 1>>
    <3>1. /\ echunk' = echunk
          /\ \/ eread' = eread
             \/ /\ listener[p] = "permit"
                /\ eread' = [eread EXCEPT ![b] = "read"] \/ eread' = [eread EXCEPT ![b] = "done"]
      BY <2>3 DEF LPermit, LAbort
    <3>2. listener[p] = "permit" => eread[b] = "wait"
      BY DEF Accepted
    <3> HIDE DEF b
    <3> QED BY <3>1, <3>2 DEF TypeOK, ServerTypeOK
  <2> QED BY <1>2, <2>1, <2>2, <2>3 DEF ListenerStep
<1>3. ASSUME NEW b \in Key, ExternalReadStep(b) \/ ExternalWriteStep(b) \/ EClose(b)
      PROVE  echunk' = echunk /\ \A c \in Key : eread'[c] = "send" <=> eread[c] = "send"
  <2>1. CASE EReadEnds(b)
    <3>1. /\ echunk' = echunk /\ eread[b] = "read" /\ eread' = [eread EXCEPT ![b] = "done"]
      BY <2>1 DEF EReadEnds, Up, linkVars
    <3> QED BY <3>1 DEF TypeOK, ServerTypeOK
  <2>2. CASE ExternalWriteStep(b) \/ EClose(b)
    BY <2>2 DEF ExternalWriteStep, EWrite, EWriteEnds, EClose
  <2> QED BY <1>3, <2>1, <2>2 DEF ExternalReadStep
<1> QED BY <1>1, <1>2, <1>3 DEF ServerNext

(* The client is left alone. *)
LEMMA ClientStreamsStay ==
    ASSUME UNCHANGED clientVars
    PROVE  HandStays /\ ConnsStay
<1>1. UNCHANGED <<cmain, cpend, proxy_conns, iclosed, igot, to_internal>>
  BY DEF clientVars, cMainVars, instVars
<1>2. \A c \in Key : InHand(c)' = InHand(c)
  BY <1>1, Zenon DEF InHand, Pending
<1>3. \A c \in Key, k \in Inst : Serves(k, c)' => Serves(k, c) /\ Got(k)' = Got(k)
  BY <1>1, Zenon DEF Serves, Got
<1> QED BY <1>2, <1>3, Zenon DEF HandStays, ConnsStay

(* The read task of b has a chunk and queues it. *)
LEMMA SendStays ==
    ASSUME TypeOK, NEW b \in Key, ESend(b), UNCHANGED clientVars
    PROVE  \A c \in Key : Stays(c)
<1> DEFINE f == new_data_frame(ExternalChunk(b), b)
<1>1. f \in Frame /\ f.type = "Data" /\ f.key = b /\ f.data.n = echunk[b]
  BY ConstructorsType, ExternalChunkType DEF TypeOK, ESend, new_data_frame, ExternalChunk
<1>2. /\ s2c \in Seq(Frame) /\ s2c' = Append(s2c, f) /\ echunk' = echunk
      /\ eread[b] = "send" /\ eread'[b] = "read"
      /\ \A c \in Key : c # b => eread'[c] = eread[c]
  BY DEF ESend, ToClient, TypeOK, LinkTypeOK, ServerTypeOK
<1> HIDE DEF f
<1>3. HandStays /\ ConnsStay /\ WayTyped
  BY ClientStreamsStay, WayType, Zenon
<1> SUFFICES ASSUME NEW c \in Key PROVE Stays(c)
  OBVIOUS
<1>4. OnLink(c)' \o Reading(c)' = OnLink(c) \o Reading(c)
  <2>1. CASE c = b
    <3>1. OnLink(c)' = OnLink(c) \o <<echunk[c]>>
      <4>1. IsDataOf(f, c) /\ f.data.n = echunk[c]
        BY <1>1, <2>1 DEF IsDataOf
      <4>2. \A g \in Frame : Chunks(c, Append(s2c, g)) =
               IF IsDataOf(g, c) THEN Chunks(c, s2c) \o <<g.data.n>> ELSE Chunks(c, s2c)
        BY <1>2, ChunksMove, Zenon
      <4>3. Chunks(c, Append(s2c, f)) = Chunks(c, s2c) \o <<f.data.n>>
        BY <1>1, <4>1, <4>2, Zenon
      <4> QED BY <1>2, <4>1, <4>3, Zenon DEF OnLink
    <3>2. Reading(c) = <<echunk[c]>> /\ Reading(c)' = <<>>
      BY <1>2, <2>1 DEF Reading
    <3>3. OnLink(c) \o <<echunk[c]>> \in Seq(Nat)
      BY <1>3, <3>2, Joined, Zenon DEF WayTyped
    <3> QED BY <3>1, <3>2, <3>3, Joined, Zenon
  <2>2. CASE c # b
    <3>1. OnLink(c)' = OnLink(c)
      BY <1>1, <1>2, <2>2, ChunksMove, Zenon DEF OnLink, IsDataOf
    <3>2. Reading(c)' = Reading(c)
      BY <1>2, <2>2, Zenon DEF Reading
    <3> QED BY <3>1, <3>2, Zenon
  <2> QED BY <2>1, <2>2
<1>5. Way(c)' = Way(c) /\ echunk'[c] = echunk[c]
  BY <1>2, <1>3, <1>4, Zenon DEF HandStays, Way
<1> QED BY <1>3, <1>5, Zenon DEF Stays, ConnsStay

(* The read task of b takes a chunk from the socket. *)
LEMMA ReadGrows ==
    ASSUME TypeOK, NEW b \in Key, ERead(b), UNCHANGED clientVars
    PROVE  \A c \in Key : Stays(c) \/ Grows(c)
<1>1. /\ echunk'[b] = echunk[b] + 1 /\ eread[b] = "read" /\ eread'[b] = "send"
      /\ \A c \in Key : c # b => echunk'[c] = echunk[c] /\ eread'[c] = eread[c]
      /\ s2c' = s2c
  BY DEF ERead, TypeOK, ServerTypeOK, linkVars
<1>2. HandStays /\ ConnsStay /\ WayTyped
  BY ClientStreamsStay, WayType, Zenon
<1>3. LinkStays
  BY <1>1, LinkStaysBy
<1> SUFFICES ASSUME NEW c \in Key PROVE Stays(c) \/ Grows(c)
  OBVIOUS
<1>4. CASE c = b
  <2> DEFINE h == InHand(c)
             l == OnLink(c)
             e == echunk[c] + 1
  <2>1. Reading(c) = <<>> /\ Reading(c)' = <<e>> /\ echunk'[c] = e
    BY <1>1, <1>4 DEF Reading
  <2>2. h \in Seq(Nat) /\ l \in Seq(Nat) /\ <<e>> \in Seq(Nat)
    BY <1>2 DEF WayTyped
  <2>3. Way(c)' = h \o (l \o <<e>>)
    BY <1>2, <1>3, <2>1, Zenon DEF HandStays, LinkStays, Way
  <2>4. Way(c) = h \o l
    BY <2>1, <2>2, Joined, Zenon DEF Way
  <2> HIDE DEF h, l, e
  <2>5. (h \o l) \o <<e>> = h \o (l \o <<e>>)
    <3>1. \A x, y, z \in Seq(Nat) : (x \o y) \o z = x \o (y \o z)
      BY Joined, Zenon
    <3> QED BY <2>2, <3>1, ZenonT(60)
  <2>6. Way(c)' = Way(c) \o <<e>>
    BY <2>3, <2>4, <2>5, Zenon
  <2> QED BY <1>2, <2>1, <2>6, Zenon DEF Grows, ConnsStay, e
<1>5. CASE c # b
  <2>1. Reading(c)' = Reading(c) /\ echunk'[c] = echunk[c]
    BY <1>1, <1>5, Zenon DEF Reading
  <2>2. Way(c)' = Way(c)
    BY <1>2, <1>3, <2>1, Zenon DEF HandStays, LinkStays, Way
  <2> QED BY <1>2, <2>1, <2>2, Zenon DEF Stays, ConnsStay
<1> QED BY <1>4, <1>5

(* Every step of the server. *)
LEMMA CompleteServer ==
    ASSUME TypeOK, Accepted, ServerNext, UNCHANGED clientVars, Up'
    PROVE  \A c \in Key : Stays(c) \/ Grows(c) \/ Passes(c)
<1>1. ASSUME NEW b \in Key, ESend(b) PROVE \A c \in Key : Stays(c)
  BY <1>1, SendStays
<1>2. ASSUME NEW b \in Key, ERead(b) PROVE \A c \in Key : Stays(c) \/ Grows(c)
  BY <1>2, ReadGrows
<1>3. CASE \A c \in Key : ~ESend(c) /\ ~ERead(c)
  <2>1. LinkStays /\ ReadersStay /\ HandStays /\ ConnsStay
    BY <1>3, ServerLinkStays, ServerReadersStay, ClientStreamsStay
  <2> QED BY <2>1, AllStays
<1> QED BY <1>1, <1>2, <1>3

(* The server is left alone. *)
LEMMA ServerStreamsStay ==
    ASSUME UNCHANGED serverVars
    PROVE  ReadersStay
<1>1. UNCHANGED <<eread, echunk>>
  BY DEF serverVars, extVars
<1> QED BY <1>1, Zenon DEF ReadersStay, Reading

(* The main task does not take up or put down a chunk. *)
LEMMA HandStaysBy ==
    ASSUME cpend' = cpend, Pending' <=> Pending
    PROVE  HandStays
<1>1. Held(cpend, Pending)' = Held(cpend, Pending)
  BY DEF Held
<1> QED BY <1>1, Zenon DEF HandStays, InHand

(* The main task has no frame in hand before and after. *)
LEMMA HandEmptyBy ==
    ASSUME ~Pending, ~Pending'
    PROVE  HandStays
<1>1. Held(cpend, Pending)' = <<>> /\ Held(cpend, Pending) = <<>>
  BY DEF Held
<1> QED BY <1>1, Zenon DEF HandStays, InHand

(* The maps and the connections are left alone. *)
LEMMA ConnsStayBy ==
    ASSUME UNCHANGED <<proxy_conns, iclosed, igot, to_internal>>
    PROVE  ConnsStay
  BY Zenon DEF ConnsStay, Serves, Got

(* The main task takes up a chunk. *)
LEMMA TakeStays ==
    ASSUME TypeOK, TypeOK', s2c # <<>>, s2c' = Tail(s2c), cpend' = Head(s2c), ~Pending, Pending',
           ReadersStay, ConnsStay
    PROVE  \A c \in Key : Stays(c)
<1> SUFFICES ASSUME NEW c \in Key PROVE Stays(c)
  OBVIOUS
<1>1. /\ Head(s2c) \in Frame /\ Tail(s2c) \in Seq(Frame) /\ s2c = <<Head(s2c)>> \o Tail(s2c)
      /\ <<Head(s2c)>> \in Seq(Frame)
  BY DEF TypeOK, LinkTypeOK
<1> DEFINE h == Chunks(c, <<Head(s2c)>>)
           l == OnLink(c)'
           r == Reading(c)
<1>2. InHand(c) = <<>> /\ InHand(c)' = h
  <2>1. Held(cpend, Pending) = <<>> /\ Held(cpend, Pending)' = <<Head(s2c)>>
    BY DEF Held
  <2> QED BY <2>1, ChunksOf, Zenon DEF InHand
<1>3. OnLink(c) = h \o l /\ h \in Seq(Nat) /\ l \in Seq(Nat)
  BY <1>1, ChunksOf, Zenon DEF OnLink
<1>4. r \in Seq(Nat) /\ Reading(c)' = r /\ echunk'[c] = echunk[c]
  BY WayType, Zenon DEF WayTyped, ReadersStay
<1>5. Way(c)' = h \o (l \o r)
  BY <1>2, <1>4, Zenon DEF Way
<1>6. Way(c) = (h \o l) \o r
  <2>1. Way(c) = <<>> \o ((h \o l) \o r)
    BY <1>2, <1>3, Zenon DEF Way
  <2>2. (h \o l) \o r \in Seq(Nat)
    BY <1>3, <1>4, Joined, Zenon
  <2> QED BY <2>1, <2>2, Joined, Zenon
<1> HIDE DEF h, l, r
<1>7. (h \o l) \o r = h \o (l \o r)
  <2>1. h \in Seq(Nat) /\ l \in Seq(Nat) /\ r \in Seq(Nat)
    BY <1>3, <1>4, Zenon
  <2>2. \A x, y, z \in Seq(Nat) : (x \o y) \o z = x \o (y \o z)
    BY Joined, Zenon
  <2> QED BY <2>1, <2>2, ZenonT(60)
<1>8. Way(c)' = Way(c)
  BY <1>5, <1>6, <1>7, Zenon
<1> QED BY <1>4, <1>8, Zenon DEF Stays, ConnsStay

(* The main task throws away the chunk at the head of the link. *)
LEMMA SkipPasses ==
    ASSUME TypeOK, TypeOK', s2c # <<>>, s2c' = Tail(s2c), Head(s2c) \in DataFrames,
           ~Pending, ~Pending', ReadersStay, ConnsStay,
           \A c \in Key, k \in Inst : c = Head(s2c).key => ~Serves(k, c)'
    PROVE  \A c \in Key : Stays(c) \/ Passes(c)
<1> SUFFICES ASSUME NEW c \in Key PROVE Stays(c) \/ Passes(c)
  OBVIOUS
<1> DEFINE f == Head(s2c)
<1>1. /\ f.data.n \in Nat /\ s2c \in Seq(Frame)
      /\ IsDataOf(f, c) <=> f.key = c
  BY DEF TypeOK, LinkTypeOK, DataFrames, Payload, IsDataOf
<1>2. OnLink(c) = IF IsDataOf(f, c) THEN <<f.data.n>> \o OnLink(c)' ELSE OnLink(c)'
  BY <1>1, ChunksMove, Zenon DEF OnLink
<1> HIDE DEF f
<1>3. InHand(c) = <<>> /\ InHand(c)' = <<>>
  <2>1. Held(cpend, Pending) = <<>> /\ Held(cpend, Pending)' = <<>>
    BY DEF Held
  <2> QED BY <2>1, ChunksOf, Zenon DEF InHand
<1>4. Reading(c)' = Reading(c) /\ echunk'[c] = echunk[c]
  BY Zenon DEF ReadersStay
<1>5. CASE f.key # c
  <2>1. Way(c)' = Way(c)
    BY <1>1, <1>2, <1>3, <1>4, <1>5, Zenon DEF Way
  <2> QED BY <1>4, <2>1, Zenon DEF Stays, ConnsStay
<1>6. CASE f.key = c
  <2> DEFINE x == f.data.n
             l == OnLink(c)'
             r == Reading(c)
  <2>1. x \in Nat /\ <<x>> \in Seq(Nat) /\ l \in Seq(Nat) /\ r \in Seq(Nat)
    <3>1. (TypeOK => WayTyped)'
      BY WayType, PTL
    <3> QED BY <1>1, <3>1, WayType, Joined, Zenon DEF WayTyped
  <2>2. OnLink(c) = <<x>> \o l
    BY <1>1, <1>2, <1>6, Zenon
  <2>3. Way(c) = (<<x>> \o l) \o r
    <3>1. Way(c) = <<>> \o ((<<x>> \o l) \o r)
      BY <1>3, <2>2, Zenon DEF Way
    <3>2. (<<x>> \o l) \o r \in Seq(Nat)
      BY <2>1, Joined, Zenon
    <3> QED BY <3>1, <3>2, Joined, Zenon
  <2>4. Way(c)' = l \o r
    <3>1. Way(c)' = <<>> \o (l \o r)
      BY <1>3, <1>4, Zenon DEF Way
    <3>2. l \o r \in Seq(Nat)
      BY <2>1, Joined, Zenon
    <3> QED BY <3>1, <3>2, Joined, Zenon
  <2> HIDE DEF x, l, r
  <2>5. (<<x>> \o l) \o r = <<x>> \o (l \o r)
    <3>1. <<x>> \in Seq(Nat) /\ l \in Seq(Nat) /\ r \in Seq(Nat)
      BY <2>1, Zenon
    <3>2. \A u, y, z \in Seq(Nat) : (u \o y) \o z = u \o (y \o z)
      BY Joined, Zenon
    <3> QED BY <3>1, <3>2, ZenonT(60)
  <2>6. Way(c) = <<x>> \o Way(c)'
    BY <2>3, <2>4, <2>5, Zenon
  <2>7. \A k \in Inst : ~Serves(k, c)'
    BY <1>6, Zenon DEF f
  <2> QED BY <1>4, <2>1, <2>6, <2>7, Zenon DEF Passes
<1> QED BY <1>5, <1>6

(* The main task puts down the chunk it holds. *)
LEMMA DropPasses ==
    ASSUME TypeOK, TypeOK', Pending, ~Pending', LinkStays, ReadersStay,
           \A c \in Key, k \in Inst : Serves(k, c)' =>
               /\ Serves(k, c)
               /\ Got(k)' = IF c = cpend.key THEN Got(k) \o <<cpend.data.n>> ELSE Got(k)
    PROVE  \A c \in Key : Stays(c) \/ Passes(c)
<1> SUFFICES ASSUME NEW c \in Key PROVE Stays(c) \/ Passes(c)
  OBVIOUS
<1>1. cpend \in Frame /\ cpend.type = "Data" /\ cpend.data.n \in Nat
  BY DEF TypeOK, ClientTypeOK, Pending, Frame, DataFrames, Payload
<1> DEFINE x == cpend.data.n
           w == OnLink(c) \o Reading(c)
<1>2. InHand(c) = (IF cpend.key = c THEN <<x>> ELSE <<>>) /\ InHand(c)' = <<>>
  <2>1. Held(cpend, Pending) = <<cpend>> /\ Held(cpend, Pending)' = <<>>
    BY DEF Held
  <2> QED BY <1>1, <2>1, ChunksOf, Zenon DEF InHand, IsDataOf
<1>3. w \in Seq(Nat)
  BY WayType, Joined, Zenon DEF WayTyped
<1>4. Reading(c)' = Reading(c) /\ OnLink(c)' = OnLink(c) /\ echunk'[c] = echunk[c]
  BY Zenon DEF ReadersStay, LinkStays
<1>5. Way(c)' = w
  <2>1. Way(c)' = <<>> \o w
    BY <1>2, <1>4, Zenon DEF Way
  <2> QED BY <1>3, <2>1, Joined, Zenon
<1>6. CASE cpend.key = c
  <2>1. Way(c) = <<x>> \o w
    BY <1>2, <1>6, Zenon DEF Way
  <2>2. Way(c) = <<x>> \o Way(c)'
    BY <1>5, <2>1, Zenon
  <2>3. \A k \in Inst : Serves(k, c)' => Serves(k, c) /\ Got(k)' = Got(k) \o <<x>>
    BY <1>6, Zenon
  <2> QED BY <1>1, <1>4, <2>2, <2>3, Zenon DEF Passes
<1>7. CASE cpend.key # c
  <2>1. Way(c) = <<>> \o w
    BY <1>2, <1>7, Zenon DEF Way
  <2>2. Way(c)' = Way(c)
    BY <1>3, <1>5, <2>1, Joined, Zenon
  <2>3. \A k \in Inst : Serves(k, c)' => Serves(k, c) /\ Got(k)' = Got(k)
    BY <1>7, Zenon
  <2> QED BY <1>4, <2>2, <2>3, Zenon DEF Stays
<1> QED BY <1>6, <1>7

(* The connection in the map is the one the main task delivers to. *)
LEMMA SenderServes ==
    ASSUME TypeOK, ClientMaps, cmain = "deliver", NEW c \in Key, NEW k \in Inst, k = proxy_conns[c]
    PROVE  k = csender <=> c = cpend.key
<1>1. csender \in Inst /\ ikey[csender] = cpend.key /\ ikey[k] = c
  BY DEF TypeOK, ClientTypeOK, ClientMaps, EntryHasReader, Inst, NoInst
<1>2. c = cpend.key => k <= csender /\ csender <= k
  BY <1>1 DEF ClientMaps, Inst, NoInst
<1> QED BY <1>1, <1>2 DEF Inst

(* The main task. *)
LEMMA CompleteMain ==
    ASSUME TypeOK, TypeOK', ClientMaps, Phases, ClientMainStep \/ CWriterFails \/ CPing,
           UNCHANGED serverVars, Up'
    PROVE  \A c \in Key : Stays(c) \/ Grows(c) \/ Passes(c)
<1> USE DEF clientVars, cMainVars, instVars, linkVars
<1>0. ReadersStay
  BY ServerStreamsStay
<1>1. CASE CRegister \/ CPing \/ CWriterFails
  <2>1. /\ s2c' = s2c /\ UNCHANGED <<cpend, proxy_conns, iclosed, igot, to_internal>>
        /\ Pending' <=> Pending
    BY <1>1 DEF CRegister, CPing, CWriterFails, ToServer, ClientWriteFails, Pending
  <2>2. LinkStays /\ HandStays /\ ConnsStay
    BY <2>1, LinkStaysBy, HandStaysBy, ConnsStayBy
  <2> QED BY <1>0, <2>2, AllStays
<1>2. CASE CReturn \/ CStop
  BY <1>2 DEF CReturn, CStop, Up
<1>3. CASE CRegistered \/ CIgnore
  <2>1. /\ s2c # <<>> /\ Head(s2c).type # "Data" /\ s2c' = Tail(s2c)
        /\ UNCHANGED <<proxy_conns, iclosed, igot, to_internal>>
        /\ ~Pending /\ ~Pending'
    BY <1>3 DEF CRegistered, CIgnore, ClientReads, Pending
  <2>2. LinkStays /\ HandStays /\ ConnsStay
    BY <2>1, LinkStaysBy, HandEmptyBy, ConnsStayBy
  <2> QED BY <1>0, <2>2, AllStays
<1>4. CASE CData
  <2>1. /\ s2c # <<>> /\ s2c' = Tail(s2c) /\ Head(s2c) \in DataFrames /\ ~Pending
        /\ UNCHANGED <<proxy_conns, iclosed, igot, to_internal>>
    BY <1>4, LinkOps, FrameKinds DEF CData, ClientReads, TypeOK, Pending
  <2>2. ConnsStay
    BY <2>1, ConnsStayBy
  <2>3. CASE Registered(Head(s2c).key[1])
    <3>1. cpend' = Head(s2c) /\ Pending'
      BY <1>4, <2>3 DEF CData, Pending
    <3> QED BY <1>0, <2>1, <2>2, <3>1, TakeStays
  <2>4. CASE ~Registered(Head(s2c).key[1])
    <3>1. ~Pending'
      BY <1>4, <2>4 DEF CData, Pending
    <3>2. ASSUME NEW c \in Key, NEW k \in Inst, c = Head(s2c).key PROVE ~Serves(k, c)'
      <4>1. SUFFICES ASSUME k = proxy_conns[c] PROVE FALSE
        BY <2>1 DEF Serves
      <4>2. ikey[k] = c /\ iread[k] # "none"
        BY <4>1 DEF ClientMaps, EntryHasReader, Inst, NoInst
      <4>3. Registered(c[1])
        BY <4>2 DEF Phases, DialsRegisteredOnly, Registered
      <4> QED BY <2>4, <3>2, <4>3
    <3> QED BY <1>0, <2>1, <2>2, <3>1, <3>2, SkipPasses
  <2> QED BY <2>3, <2>4
<1>5. CASE CConnect
  <2>a. PICK j \in Inst : j = ninst + 1
    BY <1>5, FramesAssumption DEF CConnect, TypeOK, ClientTypeOK, Inst
  <2>0. igot[j] = <<>> /\ to_internal[j] = <<>>
    BY <2>a, FramesAssumption DEF TypeOK, ClientTypeOK, ClientMaps
  <2>1. /\ s2c' = s2c /\ cpend' = cpend /\ (Pending' <=> Pending)
        /\ UNCHANGED <<iclosed, igot, to_internal>>
        /\ proxy_conns' = [proxy_conns EXCEPT ![cpend.key] = j]
    BY <1>5, <2>a DEF CConnect, Pending
  <2>2. LinkStays /\ HandStays
    BY <2>1, LinkStaysBy, HandStaysBy
  <2>3. Got(j)' = <<>>
    <3>1. igot'[j] = <<>> /\ to_internal'[j] = <<>>
      BY <2>0, <2>1
    <3>2. Got(j)' = <<>> \o <<>>
      BY <3>1, NumbersOf, Zenon DEF Got
    <3> QED BY <3>2
  <2>4. \A k \in Inst : Got(k)' = Got(k)
    BY <2>1, Zenon DEF Got
  <2>5. \A c \in Key, k \in Inst : Serves(k, c)' => k = j \/ Serves(k, c)
    BY <2>1 DEF Serves, TypeOK, ClientTypeOK
  <2>6. ASSUME NEW c \in Key PROVE Stays(c)
    <3>1. Way(c)' = Way(c) /\ echunk'[c] = echunk[c]
      BY <1>0, <2>2, Zenon DEF LinkStays, HandStays, ReadersStay, Way
    <3> QED BY <2>3, <2>4, <2>5, <3>1, Zenon DEF Stays
  <2> QED BY <2>6
<1>6. CASE CConnectFails \/ CDeliverError
  <2>1. /\ s2c' = s2c /\ Pending /\ ~Pending' /\ UNCHANGED <<iclosed, igot, to_internal>>
        /\ cpend.key \in Key
        /\ proxy_conns' = proxy_conns \/ proxy_conns' = [proxy_conns EXCEPT ![cpend.key] = NoInst]
        /\ proxy_conns'[cpend.key] = NoInst
    <3>1. Pending
      BY <1>6 DEF CConnectFails, CDeliverError, Pending
    <3>2. cpend.key \in Key
      BY <3>1, PendingType
    <3> QED BY <1>6, <3>1, <3>2 DEF CConnectFails, CDeliverError, Pending, TypeOK, ClientTypeOK,
                                    ClientMaps, ConnectIsVacant
  <2>2. LinkStays
    BY <2>1, LinkStaysBy
  <2>3. \A k \in Inst : Got(k)' = Got(k)
    BY <2>1, Zenon DEF Got
  <2>4. ASSUME NEW c \in Key, NEW k \in Inst, Serves(k, c)' PROVE Serves(k, c) /\ c # cpend.key
    BY <2>1, <2>4 DEF Serves, TypeOK, ClientTypeOK, Inst, NoInst
  <2>5. \A c \in Key, k \in Inst : Serves(k, c)' =>
               /\ Serves(k, c)
               /\ Got(k)' = IF c = cpend.key THEN Got(k) \o <<cpend.data.n>> ELSE Got(k)
    BY <2>3, <2>4, Zenon
  <2> QED BY <1>0, <2>1, <2>2, <2>5, DropPasses
<1>7. CASE CDeliver
  <2>1. /\ s2c' = s2c /\ Pending /\ ~Pending' /\ UNCHANGED <<proxy_conns, iclosed, igot>>
        /\ cmain = "deliver" /\ csender \in Inst
        /\ to_internal' = [to_internal EXCEPT ![csender] = Append(@, cpend.data)]
    BY <1>7 DEF CDeliver, Pending, TypeOK, ClientTypeOK
  <2>2. cpend.data \in Payload
    BY <2>1, PendingType
  <2>3. LinkStays
    BY <2>1, LinkStaysBy
  <2>5. ASSUME NEW k \in Inst, k = csender PROVE Got(k)' = Got(k) \o <<cpend.data.n>>
    <3> DEFINE d == cpend.data
               a == Numbers(igot[k])
               b == Numbers(to_internal[k])
    <3>1. /\ to_internal[k] \in Seq(Payload) /\ igot[k] \in Seq(Payload) /\ igot'[k] = igot[k]
          /\ to_internal'[k] = Append(to_internal[k], d)
      BY <2>1, <2>5 DEF TypeOK, ClientTypeOK
    <3>3. Numbers(to_internal'[k]) = b \o <<d.n>>
      BY <2>2, <3>1, NumbersMove, Zenon
    <3>4. Got(k)' = a \o (b \o <<d.n>>)
      BY <3>1, <3>3, Zenon DEF Got
    <3>5. a \in Seq(Nat) /\ b \in Seq(Nat) /\ <<d.n>> \in Seq(Nat)
      <4>1. d.n \in Nat
        BY <2>2 DEF Payload
      <4> QED BY <3>1, <4>1, NumbersOf, Joined, Zenon
    <3> HIDE DEF a, b, d
    <3>6. (a \o b) \o <<d.n>> = a \o (b \o <<d.n>>)
      <4>1. \A x, y, z \in Seq(Nat) : (x \o y) \o z = x \o (y \o z)
        BY Joined, Zenon
      <4> QED BY <3>5, <4>1, ZenonT(60)
    <3> QED BY <3>4, <3>6, Zenon DEF Got, a, b, d
  <2>6. ASSUME NEW k \in Inst, k # csender PROVE Got(k)' = Got(k)
    <3>1. to_internal'[k] = to_internal[k] /\ igot'[k] = igot[k]
      BY <2>1, <2>6 DEF TypeOK, ClientTypeOK
    <3> QED BY <3>1, Zenon DEF Got
  <2>7. ASSUME NEW c \in Key, NEW k \in Inst, Serves(k, c)'
        PROVE  Serves(k, c) /\ (k = csender <=> c = cpend.key)
    <3>1. Serves(k, c) /\ k = proxy_conns[c]
      BY <2>1, <2>7 DEF Serves
    <3> QED BY <2>1, <3>1, SenderServes
  <2>8. \A c \in Key, k \in Inst : Serves(k, c)' =>
               /\ Serves(k, c)
               /\ Got(k)' = IF c = cpend.key THEN Got(k) \o <<cpend.data.n>> ELSE Got(k)
    BY <2>5, <2>6, <2>7, Zenon
  <2> QED BY <1>0, <2>1, <2>3, <2>8, DropPasses
<1> QED BY <1>1, <1>2, <1>3, <1>4, <1>5, <1>6, <1>7 DEF ClientMainStep

(* The tasks of an internal connection. *)
LEMMA CompleteInternal ==
    ASSUME TypeOK, ClientMaps, UNCHANGED serverVars, NEW k \in Inst,
           InternalReadStep(k) \/ InternalWriteStep(k) \/ IRead(k) \/ IClose(k)
    PROVE  \A c \in Key : Stays(c)
<1> USE DEF cMainVars, linkVars
<1>1. s2c' = s2c /\ UNCHANGED <<cpend, cmain>>
  BY DEF InternalReadStep, InternalWriteStep, ISend, IReadEnds, IWrite, IWriteEnds,
         IRead, IClose, ToServer
<1>2. LinkStays /\ HandStays /\ ReadersStay
  <2>1. Pending' <=> Pending
    BY <1>1 DEF Pending
  <2> QED BY <1>1, <2>1, LinkStaysBy, HandStaysBy, ServerStreamsStay
<1>3. SUFFICES ConnsStay
  BY <1>2, AllStays
<1>4. CASE ISend(k) \/ IRead(k)
  BY <1>4, ConnsStayBy DEF ISend, IRead
<1>5. CASE IReadEnds(k) \/ IClose(k)
  <2>1. UNCHANGED <<igot, to_internal>>
    BY <1>5 DEF IReadEnds, IClose
  <2>2. ASSUME NEW c \in Key, NEW j \in Inst, Serves(j, c)' PROVE Serves(j, c)
    <3>1. CASE IReadEnds(k)
      <4>1. iclosed' = iclosed /\ (proxy_conns'[c] = proxy_conns[c] \/ proxy_conns'[c] = NoInst)
        BY <3>1 DEF IReadEnds, TypeOK, ClientTypeOK
      <4>2. j # NoInst
        BY DEF Inst, NoInst
      <4> QED BY <2>2, <4>1, <4>2, Zenon DEF Serves
    <3>2. CASE IClose(k)
      <4>1. proxy_conns' = proxy_conns /\ (iclosed[j] => iclosed'[j])
        BY <3>2 DEF IClose, TypeOK, ClientTypeOK
      <4> QED BY <2>2, <4>1, Zenon DEF Serves
    <3> QED BY <1>5, <3>1, <3>2
  <2>3. \A j \in Inst : Got(j)' = Got(j)
    BY <2>1, Zenon DEF Got
  <2> QED BY <2>2, <2>3, Zenon DEF ConnsStay
<1>6. CASE InternalWriteStep(k)
  <2>1. /\ UNCHANGED <<iclosed, proxy_conns>>
        /\ \A j \in Inst : j # k => to_internal'[j] = to_internal[j] /\ igot'[j] = igot[j]
    BY <1>6 DEF InternalWriteStep, IWrite, IWriteEnds, TypeOK, ClientTypeOK
  <2>2. \A j \in Inst : j # k => Got(j)' = Got(j)
    BY <2>1, Zenon DEF Got
  <2>3. ASSUME ~iclosed[k] PROVE Got(k)' = Got(k)
    <3> DEFINE q == to_internal[k]
               g == igot[k]
    <3>0. q \in Seq(Payload) /\ g \in Seq(Payload)
      BY DEF TypeOK, ClientTypeOK
    <3>1. CASE IWriteEnds(k)
      <4>1. to_internal'[k] = q /\ igot'[k] = g
        BY <2>3, <3>1 DEF IWriteEnds, TypeOK, ClientTypeOK
      <4> QED BY <4>1, Zenon DEF Got
    <3>2. CASE IWrite(k)
      <4>1. q # <<>> /\ to_internal'[k] = Tail(q) /\ igot'[k] = Append(g, Head(q))
        BY <2>3, <3>2 DEF IWrite, TypeOK, ClientTypeOK
      <4>a. Head(q) \in Payload /\ Tail(q) \in Seq(Payload)
        <5> HIDE DEF q
        <5> QED BY <3>0, <4>1
      <4>2. Head(q) \in Payload /\ Head(q).n \in Nat /\ Tail(q) \in Seq(Payload)
        <5>1. \A d \in Payload : d.n \in Nat
          BY DEF Payload
        <5> QED BY <4>a, <5>1, Zenon
      <4> DEFINE a == Numbers(g)
                 h == <<Head(q).n>>
                 b == Numbers(Tail(q))
      <4>3. Got(k)' = (a \o h) \o b
        BY <3>0, <4>1, <4>2, NumbersMove, Zenon DEF Got
      <4>4. Got(k) = a \o (h \o b)
        BY <3>0, <4>1, NumbersMove, Zenon DEF Got
      <4>5. a \in Seq(Nat) /\ h \in Seq(Nat) /\ b \in Seq(Nat)
        BY <3>0, <4>2, NumbersOf, Joined, Zenon
      <4> HIDE DEF a, h, b
      <4>6. (a \o h) \o b = a \o (h \o b)
        <5>1. \A x, y, z \in Seq(Nat) : (x \o y) \o z = x \o (y \o z)
          BY Joined, Zenon
        <5> QED BY <4>5, <5>1, ZenonT(60)
      <4> QED BY <4>3, <4>4, <4>6, Zenon
    <3> QED BY <1>6, <3>1, <3>2 DEF InternalWriteStep
  <2>4. \A c \in Key, j \in Inst : Serves(j, c)' => Serves(j, c) /\ ~iclosed[j]
    BY <2>1, Zenon DEF Serves
  <2> QED BY <2>2, <2>3, <2>4, Zenon DEF ConnsStay
<1> QED BY <1>4, <1>5, <1>6 DEF InternalReadStep

-----------------------------------------------------------------------------
(* The inductive invariant behind ForwardComplete. *)
Forwarding == TypeOK /\ ClientMaps /\ Phases /\ Accepted /\ RouteWhileReading /\ Complete

(* Nothing has been read at the start. *)
LEMMA ForwardingInit == Init => Forwarding
<1> SUFFICES ASSUME Init PROVE Forwarding
  OBVIOUS
<1>1. TypeOK /\ ClientMaps
  BY InitType, InitMaps DEF Init
<1>2. Phases
  BY DEF Init, ClientInit, Phases, DialsRegisteredOnly
<1>3. Accepted /\ RouteWhileReading
  BY DEF Init, ServerInit, Accepted, RouteWhileReading
<1>4. Complete
  <2>1. /\ s2c = <<>> /\ ~Pending
        /\ \A c \in Key : eread[c] = "none" /\ echunk[c] = 0 /\ proxy_conns[c] \notin Inst
    BY DEF Init, LinkInit, ServerInit, ClientInit, Pending, Inst, NoInst
  <2>2. ASSUME NEW c \in Key PROVE Way(c) = <<>>
    <3>1. InHand(c) = <<>> /\ OnLink(c) = <<>>
      BY <2>1, ChunksOf, Zenon DEF InHand, OnLink, Held
    <3>2. Reading(c) = <<>>
      BY <2>1 DEF Reading
    <3> QED BY <3>1, <3>2, Joined, Zenon DEF Way
  <2>3. \A c \in Key : Run(Way(c), echunk[c])
    BY <2>2 DEF Run
  <2>4. \A c \in Key, k \in Inst : ~Serves(k, c)
    BY <2>1 DEF Serves
  <2> QED BY <2>3, <2>4, Zenon DEF Complete
<1> QED BY <1>1, <1>2, <1>3, <1>4 DEF Forwarding

(* A session that is down does not come up again. *)
LEMMA StaysDown ==
    ASSUME TypeOK, [Next]_vars, Up'
    PROVE  Up
<1>1. swriter = "run"
  <2>1. LinkEffect
    BY NextEffect
  <2> QED BY <2>1 DEF LinkEffect, ToClient, ToServer, ServerReads, ClientReads,
                      ServerWriteFails, ClientWriteFails, Up
<1>2. cmain # "ended"
  <2>1. CASE UNCHANGED clientVars
    BY <2>1 DEF Up, clientVars, cMainVars
  <2>2. CASE ClientMainStep
    BY <2>2 DEF ClientMainStep, CRegister, CRegistered, CReturn, CData, CConnect, CConnectFails,
                CDeliver, CDeliverError, CIgnore, CStop
  <2>3. CASE CWriterFails \/ CPing
    BY <2>3 DEF Up, CWriterFails, CPing, clientVars, cMainVars
  <2>4. ASSUME NEW k \in Inst,
               InternalReadStep(k) \/ InternalWriteStep(k) \/ IRead(k) \/ IClose(k)
        PROVE  cmain # "ended"
    BY <2>4 DEF Up, InternalReadStep, InternalWriteStep, ISend, IReadEnds, IWrite, IWriteEnds,
                IRead, IClose, cMainVars
  <2> QED BY <2>1, <2>2, <2>3, <2>4 DEF Next, ClientNext, vars
<1> QED BY <1>1, <1>2 DEF Up

(* Every step of the session keeps it. *)
LEMMA ForwardingStep == Forwarding /\ [Next]_vars => Forwarding'
<1> SUFFICES ASSUME Forwarding, [Next]_vars PROVE Forwarding'
  OBVIOUS
<1>0. TypeOK /\ ClientMaps /\ Phases /\ Accepted /\ RouteWhileReading /\ Complete /\ TypeOK'
  BY NextType DEF Forwarding
<1>1. Up' => Up
  BY <1>0, StaysDown
<1>2. CASE ServerNext /\ UNCHANGED clientVars
  <2>1. ClientMaps' /\ Phases'
    BY <1>0, <1>2 DEF ClientMaps, EntryHasReader, ConnectIsVacant, Phases,
                DialsRegisteredOnly, Registered, clientVars, cMainVars, instVars
  <2>2. Accepted' /\ RouteWhileReading'
    BY <1>0, <1>2, RoutesStep DEF TypeOK
  <2>3. Up' => \A c \in Key : Stays(c) \/ Grows(c) \/ Passes(c)
    BY <1>0, <1>2, CompleteServer
  <2>4. Complete'
    BY <1>0, <1>1, <2>3, CompleteKept
  <2> QED BY <1>0, <2>1, <2>2, <2>4 DEF Forwarding
<1>3. CASE ClientNext /\ UNCHANGED serverVars
  <2>1. ClientMaps' /\ Phases'
    BY <1>0, <1>3, MapsStep, PhasesStep DEF TypeOK
  <2>2. Accepted' /\ RouteWhileReading'
    BY <1>0, <1>3 DEF Accepted, RouteWhileReading, serverVars, sMainVars, listenVars, extVars
  <2>3. Up' => \A c \in Key : Stays(c) \/ Grows(c) \/ Passes(c)
    <3>1. CASE ClientMainStep \/ CWriterFails \/ CPing
      BY <1>0, <1>3, <3>1, CompleteMain
    <3>2. ASSUME NEW k \in Inst,
                 InternalReadStep(k) \/ InternalWriteStep(k) \/ IRead(k) \/ IClose(k)
          PROVE  \A c \in Key : Stays(c)
      BY <1>0, <1>3, <3>2, CompleteInternal
    <3> QED BY <1>3, <3>1, <3>2 DEF ClientNext
  <2>4. Complete'
    BY <1>0, <1>1, <2>3, CompleteKept
  <2> QED BY <1>0, <2>1, <2>2, <2>4 DEF Forwarding
<1>4. CASE (NetworkCut /\ UNCHANGED <<serverVars, clientVars>>) \/ UNCHANGED vars
  <2>1. s2c' = s2c /\ UNCHANGED serverVars /\ UNCHANGED clientVars
    BY <1>4 DEF NetworkCut, vars, linkVars
  <2>2. ClientMaps' /\ Phases'
    BY <1>0, <2>1 DEF ClientMaps, EntryHasReader, ConnectIsVacant, Phases,
                DialsRegisteredOnly, Registered, clientVars, cMainVars, instVars
  <2>3. Accepted' /\ RouteWhileReading'
    BY <1>0, <2>1 DEF Accepted, RouteWhileReading, serverVars, sMainVars, listenVars, extVars
  <2>4. \A c \in Key : Stays(c)
    <3>1. LinkStays /\ HandStays /\ ReadersStay /\ ConnsStay
      BY <1>0, <2>1, LinkStaysBy, ClientStreamsStay, ServerStreamsStay
    <3> QED BY <3>1, AllStays
  <2>5. Complete'
    BY <1>0, <1>1, <2>4, CompleteKept
  <2> QED BY <1>0, <2>2, <2>3, <2>5 DEF Forwarding
<1> QED BY <1>2, <1>3, <1>4 DEF Next

(* The stream of ForwardComplete is what the invariant speaks of: a frame  *)
(* whose connection is being dialled is not for a key in the map.          *)
LEMMA StreamIsComplete ==
    ASSUME TypeOK, ClientMaps, NEW c \in Key, NEW k \in Inst, k = proxy_conns[c]
    PROVE  Numbers(igot[k] \o to_internal[k] \o DataOf(c, Held(cpend, cmain = "deliver") \o s2c))
              \o (IF eread[c] = "send" THEN <<echunk[c]>> ELSE <<>>)
           = Got(k) \o Way(c)
<1> DEFINE g == igot[k]
           t == to_internal[k]
           p == Held(cpend, cmain = "deliver")
           d == DataOf(c, p \o s2c)
           h == Chunks(c, p)
           l == OnLink(c)
           r == Reading(c)
           a == Got(k)
<1>1. g \in Seq(Payload) /\ t \in Seq(Payload) /\ s2c \in Seq(Frame)
  BY DEF TypeOK, LinkTypeOK, ClientTypeOK
<1>2. p \in Seq(Frame)
  <2>1. cmain = "deliver" => cpend \in Frame
    BY DEF TypeOK, ClientTypeOK, Frame
  <2>2. <<>> \in Seq(Frame) /\ \A f \in Frame : <<f>> \in Seq(Frame)
    OBVIOUS
  <2> QED BY <2>1, <2>2, Zenon DEF Held
<1>3. h = InHand(c)
  <2>1. CASE cmain = "connect"
    <3>1. Pending /\ cpend \in Frame /\ cpend.key # c
      BY <2>1 DEF Pending, ClientMaps, ConnectIsVacant, TypeOK, ClientTypeOK, Frame, Inst, NoInst
    <3>2. ~(cmain = "deliver")
      BY <2>1
    <3>3. p = <<>> /\ Held(cpend, Pending) = <<cpend>>
      BY <3>1, <3>2, Zenon DEF Held
    <3> QED BY <3>1, <3>3, ChunksOf, Zenon DEF InHand, IsDataOf
  <2>2. CASE cmain # "connect"
    <3>1. Pending <=> cmain = "deliver"
      BY <2>2 DEF Pending
    <3>2. Held(cpend, Pending) = p
      BY <3>1, Zenon DEF Held
    <3> QED BY <3>2, Zenon DEF InHand
  <2> QED BY <2>1, <2>2
<1> HIDE DEF p
<1>4. p \o s2c \in Seq(Frame)
  BY <1>1, <1>2
<1>5. d \in Seq(Payload) /\ Numbers(d) = h \o l
  <2>1. d \in Seq(Payload)
    BY <1>4, DataOfQueues, Zenon
  <2>2. Chunks(c, p \o s2c) = h \o l
    BY <1>1, <1>2, ChunksOf, Zenon DEF OnLink
  <2> QED BY <2>1, <2>2, Zenon DEF Chunks
<1> HIDE DEF g, t, d
<1>6. g \o t \in Seq(Payload)
  BY <1>1
<1>7. Numbers((g \o t) \o d) = a \o (h \o l)
  <2>1. Numbers((g \o t) \o d) = Numbers(g \o t) \o Numbers(d)
    BY <1>5, <1>6, NumbersOf, Zenon
  <2>2. Numbers(g \o t) = a
    BY <1>1, NumbersOf, Zenon DEF Got, g, t
  <2> QED BY <1>5, <2>1, <2>2, Zenon
<1>8. a \in Seq(Nat) /\ h \in Seq(Nat) /\ l \in Seq(Nat) /\ r \in Seq(Nat)
  BY <1>3, WayType, Zenon DEF WayTyped
<1>9. Way(c) = h \o (l \o r)
  BY <1>3, Zenon DEF Way
<1>10. Numbers((g \o t) \o d) \o r = (a \o (h \o l)) \o r
  BY <1>7, Zenon
<1> HIDE DEF a, h, l, r
<1>11. (a \o (h \o l)) \o r = a \o (h \o (l \o r))
  <2>1. \A x, y, z \in Seq(Nat) : (x \o y) \o z = x \o (y \o z)
    BY Joined, Zenon
  <2>2. h \o l \in Seq(Nat)
    BY <1>8, Joined, Zenon
  <2>3. (a \o (h \o l)) \o r = a \o ((h \o l) \o r)
    BY <1>8, <2>1, <2>2, ZenonT(60)
  <2>4. (h \o l) \o r = h \o (l \o r)
    BY <1>8, <2>1, ZenonT(60)
  <2> QED BY <2>3, <2>4, Zenon
<1>12. Numbers((g \o t) \o d) \o r = a \o Way(c)
  BY <1>9, <1>10, <1>11, Zenon
<1> QED BY <1>12, Zenon DEF a, r, g, t, d, p, Reading

(* While a connection is in the map and its service has not closed it, no  *)
(* byte of its user is lost between the socket of the user and the service,*)
(* however the queues fill, whichever connections come and go beside it    *)
(* and whatever the cached maps hold.                                      *)
THEOREM ForwardsAll == Spec => []ForwardComplete
<1>1. Forwarding => ForwardComplete
  <2> SUFFICES ASSUME Forwarding, NEW c \in Key, proxy_conns[c] # NoInst,
                      ~iclosed[proxy_conns[c]], swriter = "run", cmain # "ended",
                      NEW s, s = Numbers(igot[proxy_conns[c]] \o to_internal[proxy_conns[c]]
                                         \o DataOf(c, Held(cpend, cmain = "deliver") \o s2c))
                                 \o (IF eread[c] = "send" THEN <<echunk[c]>> ELSE <<>>)
               PROVE  Run(s, echunk[c])
    BY Zenon DEF ForwardComplete, Run
  <2>1. TypeOK /\ ClientMaps /\ Complete
    BY DEF Forwarding
  <2>2. PICK k \in Inst : k = proxy_conns[c]
    BY <2>1 DEF TypeOK, ClientTypeOK, Inst, NoInst
  <2>3. s = Got(k) \o Way(c)
    BY <2>1, <2>2, StreamIsComplete, Zenon
  <2>4. Run(Got(k) \o Way(c), echunk[c])
    BY <2>1, <2>2, Zenon DEF Complete, Up, Serves
  <2> QED BY <2>3, <2>4, Zenon
<1> QED BY <1>1, ForwardingInit, ForwardingStep, PTL DEF Spec

-----------------------------------------------------------------------------
(* Nothing a service answers is lost on its way to a user who is there.    *)

(* The chunks of connection k. *)
OfInst(k) == {d \in Payload : d.inst = k}

(* The numbers of the chunks of connection k among the chunks of a queue,  *)
(* and among the chunks of c in a queue of frames.                         *)
Part(k, q)       == Numbers(Filter(q, OfInst(k)))
Answers(c, k, q) == Part(k, DataOf(c, q))

(* The chunks of k in nothing, in one chunk and in two queues in a row. *)
LEMMA PartOf ==
    ASSUME NEW k \in Inst
    PROVE  /\ \A q \in Seq(Payload) : Part(k, q) \in Seq(Nat)
           /\ Part(k, <<>>) = <<>>
           /\ \A d \in Payload : Part(k, <<d>>) = IF d.inst = k THEN <<d.n>> ELSE <<>>
           /\ \A p, q \in Seq(Payload) : Part(k, p \o q) = Part(k, p) \o Part(k, q)
<1> DEFINE S == OfInst(k)
<1>1. ASSUME NEW q \in Seq(Payload) PROVE Filter(q, S) \in Seq(Payload)
  BY FilterType
<1>2. \A q \in Seq(Payload) : Part(k, q) \in Seq(Nat)
  BY <1>1, NumbersOf, Zenon DEF Part
<1>3. Part(k, <<>>) = <<>>
  <2>1. Filter(<<>>, S) = <<>>
    BY FilterEmpty
  <2> QED BY <2>1, NumbersOf, Zenon DEF Part
<1>4. ASSUME NEW d \in Payload PROVE Part(k, <<d>>) = IF d.inst = k THEN <<d.n>> ELSE <<>>
  <2>1. Filter(<<d>>, S) = IF d \in S THEN <<d>> ELSE <<>>
    BY FilterOne
  <2>2. d \in S <=> d.inst = k
    BY DEF OfInst
  <2> QED BY <2>1, <2>2, NumbersOf, Zenon DEF Part
<1>5. ASSUME NEW p \in Seq(Payload), NEW q \in Seq(Payload)
      PROVE  Part(k, p \o q) = Part(k, p) \o Part(k, q)
  <2>1. Filter(p \o q, S) = Filter(p, S) \o Filter(q, S)
    BY FilterConcat
  <2>2. \A u, v \in Seq(Payload) : Numbers(u \o v) = Numbers(u) \o Numbers(v)
    BY NumbersOf, Zenon
  <2>3. Filter(p, S) \in Seq(Payload) /\ Filter(q, S) \in Seq(Payload)
    BY <1>1
  <2>4. Numbers(Filter(p, S) \o Filter(q, S)) = Numbers(Filter(p, S)) \o Numbers(Filter(q, S))
    <3> DEFINE u == Filter(p, S)
               v == Filter(q, S)
    <3>1. u \in Seq(Payload) /\ v \in Seq(Payload)
      BY <2>3, Zenon
    <3> HIDE DEF u, v
    <3>2. Numbers(u \o v) = Numbers(u) \o Numbers(v)
      BY <2>2, <3>1, Zenon
    <3> QED BY <3>2, Zenon DEF u, v
  <2> QED BY <2>1, <2>4, Zenon DEF Part
<1> QED BY <1>2, <1>3, <1>4, <1>5, Zenon

(* A chunk is queued; a chunk is taken. *)
LEMMA PartMove ==
    ASSUME NEW k \in Inst, NEW q \in Seq(Payload)
    PROVE  /\ \A d \in Payload : Part(k, Append(q, d)) = Part(k, q) \o Part(k, <<d>>)
           /\ q # <<>> => /\ Head(q) \in Payload /\ Tail(q) \in Seq(Payload)
                          /\ Part(k, q) = Part(k, <<Head(q)>>) \o Part(k, Tail(q))
<1>0. \A p, r \in Seq(Payload) : Part(k, p \o r) = Part(k, p) \o Part(k, r)
  BY PartOf, Zenon
<1>1. ASSUME NEW d \in Payload PROVE Part(k, Append(q, d)) = Part(k, q) \o Part(k, <<d>>)
  <2>1. Append(q, d) = q \o <<d>> /\ <<d>> \in Seq(Payload)
    OBVIOUS
  <2> QED BY <1>0, <2>1, Zenon
<1>2. ASSUME q # <<>>
      PROVE  /\ Head(q) \in Payload /\ Tail(q) \in Seq(Payload)
             /\ Part(k, q) = Part(k, <<Head(q)>>) \o Part(k, Tail(q))
  <2>1. Head(q) \in Payload /\ Tail(q) \in Seq(Payload) /\ q = <<Head(q)>> \o Tail(q)
    BY <1>2
  <2> DEFINE h == Head(q)
             t == Tail(q)
  <2>2. <<h>> \in Seq(Payload)
    BY <2>1
  <2> HIDE DEF h, t
  <2>3. Part(k, q) = Part(k, <<h>>) \o Part(k, t)
    BY <1>0, <2>1, <2>2, Zenon DEF h, t
  <2> QED BY <2>1, <2>3, Zenon DEF h, t
<1> QED BY <1>1, <1>2, Zenon

(* The answers of k to c along a queue of frames. *)
LEMMA AnswersOf ==
    ASSUME NEW c \in Key, NEW k \in Inst
    PROVE  /\ \A q \in Seq(Frame) : Answers(c, k, q) \in Seq(Nat)
           /\ Answers(c, k, <<>>) = <<>>
           /\ \A f \in Frame : Answers(c, k, <<f>>) =
                 IF IsDataOf(f, c) THEN Part(k, <<f.data>>) ELSE <<>>
           /\ \A p, q \in Seq(Frame) : Answers(c, k, p \o q) = Answers(c, k, p) \o Answers(c, k, q)
<1>1. ASSUME NEW q \in Seq(Frame) PROVE DataOf(c, q) \in Seq(Payload) /\ Answers(c, k, q) \in Seq(Nat)
  BY DataOfQueues, PartOf, Zenon DEF Answers
<1>2. Answers(c, k, <<>>) = <<>>
  BY DataOfQueues, PartOf, Zenon DEF Answers
<1>3. ASSUME NEW f \in Frame
      PROVE  Answers(c, k, <<f>>) = IF IsDataOf(f, c) THEN Part(k, <<f.data>>) ELSE <<>>
  BY DataOfQueues, PartOf, Zenon DEF Answers
<1>4. ASSUME NEW p \in Seq(Frame), NEW q \in Seq(Frame)
      PROVE  Answers(c, k, p \o q) = Answers(c, k, p) \o Answers(c, k, q)
  <2>1. DataOf(c, p \o q) = DataOf(c, p) \o DataOf(c, q)
    BY DataOfQueues, Zenon
  <2>2. DataOf(c, p) \in Seq(Payload) /\ DataOf(c, q) \in Seq(Payload)
    BY <1>1, Zenon
  <2>3. \A u, v \in Seq(Payload) : Part(k, u \o v) = Part(k, u) \o Part(k, v)
    BY PartOf, Zenon
  <2>4. Part(k, DataOf(c, p) \o DataOf(c, q)) = Part(k, DataOf(c, p)) \o Part(k, DataOf(c, q))
    BY <2>2, <2>3, Zenon
  <2> QED BY <2>1, <2>4, Zenon DEF Answers
<1> QED BY <1>1, <1>2, <1>3, <1>4, Zenon

(* A frame is queued; a frame is taken. *)
LEMMA AnswersMove ==
    ASSUME NEW c \in Key, NEW k \in Inst, NEW q \in Seq(Frame)
    PROVE  /\ \A f \in Frame : Answers(c, k, Append(q, f)) =
                 IF IsDataOf(f, c) THEN Answers(c, k, q) \o Part(k, <<f.data>>) ELSE Answers(c, k, q)
           /\ q # <<>> => Answers(c, k, q) =
                 IF IsDataOf(Head(q), c) THEN Part(k, <<Head(q).data>>) \o Answers(c, k, Tail(q))
                 ELSE Answers(c, k, Tail(q))
<1>0. \A p, r \in Seq(Frame) : Answers(c, k, p \o r) = Answers(c, k, p) \o Answers(c, k, r)
  BY AnswersOf, Zenon
<1>1. ASSUME NEW f \in Frame
      PROVE  Answers(c, k, Append(q, f)) =
                 IF IsDataOf(f, c) THEN Answers(c, k, q) \o Part(k, <<f.data>>) ELSE Answers(c, k, q)
  <2>1. Append(q, f) = q \o <<f>> /\ <<f>> \in Seq(Frame)
    OBVIOUS
  <2>2. Answers(c, k, Append(q, f)) = Answers(c, k, q) \o Answers(c, k, <<f>>)
    BY <1>0, <2>1, Zenon
  <2>3. Answers(c, k, <<f>>) = IF IsDataOf(f, c) THEN Part(k, <<f.data>>) ELSE <<>>
    BY AnswersOf, Zenon
  <2>4. Answers(c, k, q) \o <<>> = Answers(c, k, q)
    <3>1. Answers(c, k, q) \in Seq(Nat)
      BY AnswersOf, Zenon
    <3> QED BY <3>1, Joined, Zenon
  <2> QED BY <2>2, <2>3, <2>4, Zenon
<1>2. ASSUME q # <<>>
      PROVE  Answers(c, k, q) =
                 IF IsDataOf(Head(q), c) THEN Part(k, <<Head(q).data>>) \o Answers(c, k, Tail(q))
                 ELSE Answers(c, k, Tail(q))
  <2>1. Head(q) \in Frame /\ Tail(q) \in Seq(Frame) /\ q = <<Head(q)>> \o Tail(q)
    BY <1>2
  <2> DEFINE h == Head(q)
             t == Tail(q)
  <2>2. <<h>> \in Seq(Frame)
    BY <2>1
  <2> HIDE DEF h, t
  <2>3. Answers(c, k, q) = Answers(c, k, <<h>>) \o Answers(c, k, t)
    BY <1>0, <2>1, <2>2, Zenon DEF h, t
  <2>4. Answers(c, k, <<h>>) = IF IsDataOf(h, c) THEN Part(k, <<h.data>>) ELSE <<>>
    BY <2>1, AnswersOf, Zenon DEF h
  <2>5. <<>> \o Answers(c, k, t) = Answers(c, k, t)
    <3>1. Answers(c, k, t) \in Seq(Nat)
      BY <2>1, AnswersOf, Zenon DEF t
    <3> QED BY <3>1, Joined, Zenon
  <2> QED BY <2>3, <2>4, <2>5, Zenon DEF h, t
<1> QED BY <1>1, <1>2, Zenon

(* A queue without chunks of k holds nothing of k. *)
LEMMA NoPart ==
    ASSUME NEW k \in Inst, NEW q \in Seq(Payload), \A d \in Elems(q) : d.inst # k
    PROVE  Part(k, q) = <<>>
<1>1. \A i \in DOMAIN q : q[i] \notin OfInst(k)
  BY DEF Elems, OfInst
<1>2. Filter(q, OfInst(k)) = <<>>
  BY <1>1, FilterNone
<1> QED BY <1>2, NumbersOf, Zenon DEF Part

(* No Data frame of c in the queue carries a chunk of k. *)
LEMMA NoAnswers ==
    ASSUME NEW c \in Key, NEW k \in Inst, NEW q \in Seq(Frame),
           \A f \in Elems(q) : f.type = "Data" /\ f.key = c => f.data.inst # k
    PROVE  Answers(c, k, q) = <<>>
<1> DEFINE S == FramesOf(c)
           s == Filter(q, S)
<1>1. q \in Seq(Elems(q))
  BY DEF Elems
<1>2. s \in Seq(Elems(q)) /\ s \in Seq(S)
  BY <1>1, FilterType, FilterMembers
<1>3. DataOf(c, q) = [i \in DOMAIN s |-> s[i].data] /\ DataOf(c, q) \in Seq(Payload)
  BY DataOfQueues, Zenon DEF DataOf, FramesOf
<1> HIDE DEF s, S
<1>4. \A i \in DOMAIN s : s[i] \in Elems(q) /\ s[i] \in S
  BY <1>2
<1>5. \A f \in S : f.type = "Data" /\ f.key = c
  BY DEF S, FramesOf, DataFrames
<1>6. \A d \in Elems(DataOf(c, q)) : d.inst # k
  <2>1. \A i \in DOMAIN s : s[i].data.inst # k
    BY <1>4, <1>5, Zenon
  <2> DEFINE r == DataOf(c, q)
  <2>2. DOMAIN r = DOMAIN s /\ \A i \in DOMAIN s : r[i] = s[i].data
    BY <1>3
  <2> QED BY <2>1, <2>2, Zenon DEF Elems
<1> QED BY <1>3, <1>6, NoPart, Zenon DEF Answers

(* The numbers from 1 to n. *)
UpTo(n) == [i \in 1..n |-> i]

(* These are built up one number at a time. *)
LEMMA UpToNext ==
    ASSUME NEW n \in Nat
    PROVE  UpTo(n) \in Seq(Nat) /\ UpTo(0) = <<>> /\ UpTo(n) \o <<n + 1>> = UpTo(n + 1)
<1>1. UpTo(n) \in Seq(Nat) /\ Len(UpTo(n)) = n /\ \A i \in 1..n : UpTo(n)[i] = i
  BY DEF UpTo
<1>2. UpTo(0) = <<>>
  BY DEF UpTo
<1> DEFINE s == UpTo(n)
           r == s \o <<n + 1>>
<1>3. /\ r \in Seq(Nat) /\ Len(r) = n + 1 /\ r[n + 1] = n + 1
      /\ \A i \in 1..n : r[i] = s[i]
  <2> HIDE DEF s
  <2>1. s \in Seq(Nat) /\ Len(s) = n
    BY <1>1 DEF s
  <2> QED BY <2>1
<1>4. r = [i \in 1..(n + 1) |-> r[i]]
  <2> HIDE DEF r
  <2> QED BY <1>3
<1>5. \A i \in 1..(n + 1) : r[i] = i
  <2> HIDE DEF r
  <2> QED BY <1>1, <1>3
<1>6. r = UpTo(n + 1)
  <2> HIDE DEF r
  <2> QED BY <1>4, <1>5, Zenon DEF UpTo
<1> QED BY <1>1, <1>2, <1>6

(* The answers of k to the user of c, from what the user has received back *)
(* to what the read task of k holds.                                       *)
Taken(k)     == IF iread[k] = "send" THEN <<ichunk[k]>> ELSE <<>>
Behind(c, k) == Answers(c, k, c2s) \o Taken(k)
Routed(c, k) == Answers(c, k, Held(spend, smain = "route"))
Back(c, k)   == Part(k, eout[c]) \o (Part(k, to_remote[c]) \o (Routed(c, k) \o Behind(c, k)))

(* A read task that has not ended. *)
Live == {"wait", "read", "send"}

(* k was opened for c, whose user is there, and the session is up. *)
Listens(c, k) ==
    ikey[k] = c /\ eread[c] \in Live /\ ~eclosed[c] /\ smain # "ended" /\ cwriter = "run"

(* Every answer taken from k is in the stream, once and in order. *)
Answered == \A c \in Key, k \in Inst : Listens(c, k) => Back(c, k) = UpTo(ichunk[k])

(* These are sequences of numbers. *)
BackTyped ==
    /\ \A c \in Key, k \in Inst :
          /\ Part(k, eout[c]) \in Seq(Nat) /\ Part(k, to_remote[c]) \in Seq(Nat)
          /\ Routed(c, k) \in Seq(Nat) /\ Answers(c, k, c2s) \in Seq(Nat)
          /\ Behind(c, k) \in Seq(Nat)
    /\ \A k \in Inst : Taken(k) \in Seq(Nat) /\ ichunk[k] \in Nat

(* By their types. *)
LEMMA BackType == TypeOK => BackTyped
<1> SUFFICES ASSUME TypeOK PROVE BackTyped
  OBVIOUS
<1>1. ASSUME NEW k \in Inst PROVE Taken(k) \in Seq(Nat) /\ ichunk[k] \in Nat
  <2>1. ichunk[k] \in Nat
    BY FramesAssumption DEF TypeOK, ClientTypeOK
  <2> QED BY <2>1, Joined, Zenon DEF Taken
<1>2. ASSUME NEW c \in Key, NEW k \in Inst
      PROVE  /\ Part(k, eout[c]) \in Seq(Nat) /\ Part(k, to_remote[c]) \in Seq(Nat)
             /\ Routed(c, k) \in Seq(Nat) /\ Answers(c, k, c2s) \in Seq(Nat)
             /\ Behind(c, k) \in Seq(Nat)
  <2>1. eout[c] \in Seq(Payload) /\ to_remote[c] \in Seq(Payload) /\ c2s \in Seq(Frame)
    BY DEF TypeOK, LinkTypeOK, ServerTypeOK
  <2>2. Held(spend, smain = "route") \in Seq(Frame)
    <3>1. smain = "route" => spend \in Frame
      BY DEF TypeOK, ServerTypeOK, Frame
    <3>2. <<>> \in Seq(Frame) /\ \A f \in Frame : <<f>> \in Seq(Frame)
      OBVIOUS
    <3> QED BY <3>1, <3>2, Zenon DEF Held
  <2>3. Part(k, eout[c]) \in Seq(Nat) /\ Part(k, to_remote[c]) \in Seq(Nat)
    BY <2>1, PartOf, Zenon
  <2>4. Routed(c, k) \in Seq(Nat) /\ Answers(c, k, c2s) \in Seq(Nat)
    BY <2>1, <2>2, AnswersOf, Zenon DEF Routed
  <2> QED BY <1>1, <2>3, <2>4, Joined, Zenon DEF Behind
<1> QED BY <1>1, <1>2, Zenon DEF BackTyped

(* What a step may do about the answers of k to c: leave them, take the    *)
(* next one from the service, or be the one that opens k.                  *)
Keeps(c, k)  == Listens(c, k) /\ Back(c, k)' = Back(c, k) /\ ichunk'[k] = ichunk[k]
Adds(c, k)   == /\ Listens(c, k)
                /\ Back(c, k)' = Back(c, k) \o <<ichunk[k] + 1>>
                /\ ichunk'[k] = ichunk[k] + 1
Starts(c, k) == Back(c, k)' = <<>> /\ ichunk'[k] = 0

(* Such a step loses no answer. *)
LEMMA AnsweredKept ==
    ASSUME TypeOK, Answered,
           \A c \in Key, k \in Inst : Listens(c, k)' => Keeps(c, k) \/ Adds(c, k) \/ Starts(c, k)
    PROVE  Answered'
<1> SUFFICES ASSUME NEW c \in Key, NEW k \in Inst, Listens(c, k)'
             PROVE  Back(c, k)' = UpTo(ichunk'[k])
  BY Zenon DEF Answered, UpTo
<1>0. ichunk[k] \in Nat
  BY BackType, Zenon DEF BackTyped
<1>1. UpTo(0) = <<>> /\ UpTo(ichunk[k]) \o <<ichunk[k] + 1>> = UpTo(ichunk[k] + 1)
  BY <1>0, UpToNext, Zenon
<1>2. CASE Keeps(c, k)
  BY <1>2, Zenon DEF Keeps, Answered
<1>3. CASE Adds(c, k)
  BY <1>1, <1>3, Zenon DEF Adds, Answered
<1>4. CASE Starts(c, k)
  BY <1>1, <1>4, Zenon DEF Starts
<1> QED BY <1>2, <1>3, <1>4, Zenon

-----------------------------------------------------------------------------
(* A key in use on the client, or on its way there, was accepted. *)
Known ==
    /\ \A f \in Elems(s2c) : f.type = "Data" => eread[f.key] # "none"
    /\ Pending => eread[cpend.key] # "none"
    /\ \A k \in Inst : ikey[k] \in Key => eread[ikey[k]] # "none"

(* While the main loop runs, the table of an accepted connection is in the *)
(* outer map, and the write task of a user who is there is there too.      *)
Tables ==
    /\ smain # "ended" =>
          /\ \A p \in ProxyId : listener[p] # "none" => p \in proxy_routing
          /\ \A c \in Key : eread[c] # "none" => c[1] \in proxy_routing
          /\ \A c \in Key : ewrite[c] = "done" => eread[c] = "done" \/ eclosed[c]
    /\ \A c \in Key : eread[c] \in {"none", "wait"} => ewrite[c] = "none"

(* A connection that has not been opened has answered nothing. *)
Unused == \A k \in Inst : k > ninst => ichunk[k] = 0

(* A connection the server has accepted stays known, and one that is done  *)
(* stays done.                                                             *)
ReadersGoOn ==
    \A c \in Key : /\ eread[c] # "none" => eread'[c] # "none"
                   /\ eread[c] = "done" => eread'[c] = "done"

(* No step of the server takes a read task back. *)
LEMMA ReadersMove ==
    ASSUME ServerTypeOK, Accepted, ServerNext
    PROVE  ReadersGoOn
<1> USE DEF ReadersGoOn, serverVars, extVars
<1>1. CASE MainLoopStep \/ ServerWriterStep
  <2>1. eread' = eread
    BY <1>1, MainLeavesUsers
  <2> QED BY <2>1
<1>2. ASSUME NEW p \in ProxyId, ListenerStep(p) \/ LAccept(p) PROVE ReadersGoOn
  <2>1. CASE LBind(p) \/ LBindFails(p) \/ LAck(p) \/ LReject(p)
    BY <2>1, RegistrationLeavesUsers
  <2>2. CASE LAccept(p)
    <3> DEFINE b == <<p, next_conn_id[p]>>
    <3>1. b \in Key /\ eread' = [eread EXCEPT ![b] = "wait"]
      BY <2>2, FramesAssumption DEF LAccept, Key, ConnId, ServerTypeOK
    <3>2. eread[b] = "none"
      BY <3>1, FramesAssumption DEF Accepted, ServerTypeOK
    <3> HIDE DEF b
    <3> QED BY <3>1, <3>2 DEF ServerTypeOK
  <2>3. CASE LPermit(p) \/ LAbort(p)
    <3> DEFINE b == <<p, next_conn_id[p] - 1>>
    <3>1. \/ eread' = eread
          \/ /\ listener[p] = "permit"
             /\ eread' = [eread EXCEPT ![b] = "read"] \/ eread' = [eread EXCEPT ![b] = "done"]
      BY <2>3 DEF LPermit, LAbort
    <3>2. listener[p] = "permit" => eread[b] = "wait"
      BY DEF Accepted
    <3> HIDE DEF b
    <3> QED BY <3>1, <3>2 DEF ServerTypeOK
  <2> QED BY <1>2, <2>1, <2>2, <2>3 DEF ListenerStep
<1>3. ASSUME NEW b \in Key,
             ExternalReadStep(b) \/ ExternalWriteStep(b) \/ ERead(b) \/ EClose(b)
      PROVE  ReadersGoOn
  <2>1. \/ eread' = eread
        \/ /\ eread[b] \in {"read", "send"}
           /\ \E s \in {"read", "send", "done"} : eread' = [eread EXCEPT ![b] = s]
    BY <1>3 DEF ExternalReadStep, ESend, EReadEnds, ExternalWriteStep, EWrite, EWriteEnds,
                ERead, EClose
  <2> QED BY <2>1 DEF ServerTypeOK
<1> QED BY <1>1, <1>2, <1>3 DEF ServerNext

(* Only a read task with a chunk puts data on the link. *)
LEMMA ServerDataOnly ==
    ASSUME LinkTypeOK, ServerTypeOK, ServerNext, \A c \in Key : ~ESend(c)
    PROVE  \A f \in Elems(s2c') : f \in Elems(s2c) \/ f.type # "Data"
<1> DEFINE Goal == \A f \in Elems(s2c') : f \in Elems(s2c) \/ f.type # "Data"
<1> SUFFICES Goal
  OBVIOUS
<1> USE DEF linkVars
<1>0. s2c \in Seq(Frame)
  BY DEF LinkTypeOK
<1>1. ASSUME NEW g \in Frame, g.type # "Data", s2c' = Append(s2c, g) PROVE Goal
  BY <1>0, <1>1, ElemsOf
<1>2. ASSUME s2c' = s2c PROVE Goal
  BY <1>2
<1> HIDE DEF Goal
<1>3. CASE MainLoopStep
  <2>1. CASE SSend
    <3>1. s2c' = s2c \/ s2c' = Append(s2c, spend)
      BY <2>1 DEF SSend, ToClient
    <3>2. spend \in Frame /\ spend.type # "Data"
      BY <2>1 DEF SSend, ServerTypeOK, RegisterAckFrames, ControlFrames, Frame
    <3> QED BY <1>1, <1>2, <3>1, <3>2
  <2>2. CASE SRegister \/ SRegisterOverLimit \/ SPing \/ SIgnore \/ SData
    BY <1>2, <2>2 DEF SRegister, SRegisterOverLimit, SPing, SIgnore, SData, ServerReads
  <2>3. CASE SRoute \/ SRouteError \/ SStop
    BY <1>2, <2>3 DEF SRoute, SRouteError, SStop
  <2> QED BY <1>3, <2>1, <2>2, <2>3 DEF MainLoopStep
<1>4. CASE ServerWriterStep
  <2>1. s2c' = s2c \/ s2c' = <<>>
    BY <1>4 DEF ServerWriterStep, SWriterEnds, SWriterFails, ServerWriteFails
  <2>2. ASSUME s2c' = <<>> PROVE Goal
    BY <1>0, <2>2, ElemsOf DEF Goal
  <2> QED BY <1>2, <2>1, <2>2
<1>5. ASSUME NEW p \in ProxyId, ListenerStep(p) \/ LAccept(p) PROVE Goal
  <2>1. CASE LAck(p)
    <3>1. /\ new_reg_ack_frame(lentry[p], TRUE, p) \in Frame
          /\ new_reg_ack_frame(lentry[p], TRUE, p).type # "Data"
      BY <2>1, ConstructorsType DEF LAck, ServerTypeOK, new_reg_ack_frame
    <3> QED BY <1>1, <1>2, <2>1, <3>1 DEF LAck, ToClient
  <2>2. CASE LReject(p)
    <3>1. /\ new_reg_ack_frame(lentry[p], FALSE, 0) \in Frame
          /\ new_reg_ack_frame(lentry[p], FALSE, 0).type # "Data"
      BY <2>2, ZeroProxy, ConstructorsType DEF LReject, ServerTypeOK, new_reg_ack_frame
    <3> QED BY <1>1, <1>2, <2>2, <3>1 DEF LReject, ToClient
  <2>3. CASE LBind(p) \/ LBindFails(p) \/ LPermit(p) \/ LAbort(p) \/ LAccept(p)
    BY <1>2, <2>3 DEF LBind, LBindFails, LPermit, LAbort, LAccept
  <2> QED BY <1>5, <2>1, <2>2, <2>3 DEF ListenerStep
<1>6. ASSUME NEW c \in Key, ExternalReadStep(c) \/ ExternalWriteStep(c) \/ ERead(c) \/ EClose(c)
      PROVE  Goal
  <2>1. s2c' = s2c
    BY <1>6 DEF ExternalReadStep, EReadEnds, ExternalWriteStep, EWrite, EWriteEnds, ERead, EClose
  <2> QED BY <1>2, <2>1
<1> QED BY <1>3, <1>4, <1>5, <1>6 DEF ServerNext

(* The server keeps what is known. *)
LEMMA KnownServer ==
    ASSUME LinkTypeOK, LinkTypeOK', ServerTypeOK, ClientTypeOK, Accepted, Known, ServerNext,
           UNCHANGED clientVars
    PROVE  Known'
<1>1. ReadersGoOn
  BY ReadersMove
<1>2. UNCHANGED <<cmain, cpend, ikey>>
  BY DEF clientVars, cMainVars, instVars
<1>3. \A f \in Elems(s2c') : f.type = "Data" => f.key \in Key
  <2>1. \A f \in Elems(s2c') : f \in Frame
    BY ElemsOf DEF LinkTypeOK
  <2> QED BY <2>1, FrameKinds DEF DataFrames
<1>4. \A f \in Elems(s2c') : f.type = "Data" => f \in Elems(s2c) \/ eread[f.key] # "none"
  <2>0. s2c \in Seq(Frame)
    BY DEF LinkTypeOK
  <2>1. ASSUME NEW c \in Key, ESend(c)
        PROVE  \A f \in Elems(s2c') : f.type = "Data" => f \in Elems(s2c) \/ eread[f.key] # "none"
    <3> DEFINE g == new_data_frame(ExternalChunk(c), c)
    <3>1. g \in Frame /\ g.key = c /\ s2c' = Append(s2c, g) /\ eread[c] # "none"
      BY <2>1, ExternalChunkType, ConstructorsType DEF ESend, ToClient, new_data_frame
    <3> HIDE DEF g
    <3>2. Elems(s2c') = Elems(s2c) \cup {g}
      BY <2>0, <3>1, ElemsOf
    <3> QED BY <3>1, <3>2
  <2>2. CASE \A c \in Key : ~ESend(c)
    BY <2>2, ServerDataOnly
  <2> QED BY <2>1, <2>2
<1>5. \A f \in Elems(s2c') : f.type = "Data" => eread'[f.key] # "none"
  BY <1>1, <1>3, <1>4 DEF Known, ReadersGoOn
<1>6. Pending' => eread'[cpend'.key] # "none"
  <2>1. Pending => cpend.key \in Key
    BY DEF Pending, ClientTypeOK, DataFrames
  <2> QED BY <1>1, <1>2, <2>1 DEF Known, ReadersGoOn, Pending
<1>7. \A k \in Inst : ikey'[k] \in Key => eread'[ikey'[k]] # "none"
  BY <1>1, <1>2 DEF Known, ReadersGoOn
<1> QED BY <1>5, <1>6, <1>7 DEF Known

(* So does the client: it uses the keys it is sent. *)
LEMMA KnownClient ==
    ASSUME TypeOK, Known, ClientNext, UNCHANGED serverVars
    PROVE  Known'
<1> USE DEF clientVars, cMainVars, instVars
<1>0. eread' = eread
  BY DEF serverVars, extVars
<1>1. \A f \in Elems(s2c') : f.type = "Data" => eread'[f.key] # "none"
  BY <1>0, ClientFrames DEF Known, TypeOK
<1>2. ASSUME UNCHANGED <<cpend, ikey>>, Pending' => Pending PROVE Known'
  BY <1>0, <1>1, <1>2 DEF Known
<1>3. CASE CRegister \/ CRegistered \/ CReturn \/ CIgnore \/ CStop \/ CPing \/ CWriterFails
  BY <1>2, <1>3 DEF CRegister, CRegistered, CReturn, CIgnore, CStop, CPing, CWriterFails, Pending
<1>4. CASE CConnectFails \/ CDeliver \/ CDeliverError
  <2>1. ~Pending' /\ ikey' = ikey
    BY <1>4 DEF CConnectFails, CDeliver, CDeliverError, Pending
  <2> QED BY <1>0, <1>1, <2>1 DEF Known
<1>5. CASE CData
  <2>1. Head(s2c) \in Elems(s2c) /\ Head(s2c).type = "Data"
    BY <1>5, ElemsOf DEF CData, ClientReads, TypeOK, LinkTypeOK
  <2>2. eread[Head(s2c).key] # "none"
    BY <2>1 DEF Known
  <2>3. ikey' = ikey /\ (UNCHANGED <<cmain, cpend>> \/ cpend' = Head(s2c))
    BY <1>5 DEF CData
  <2> QED BY <1>0, <1>1, <2>2, <2>3 DEF Known, Pending
<1>6. CASE CConnect
  <2>1. Pending /\ cpend' = cpend /\ ikey' = [ikey EXCEPT ![ninst + 1] = cpend.key]
    BY <1>6 DEF CConnect, Pending
  <2>2. eread[cpend.key] # "none"
    BY <2>1 DEF Known
  <2>3. \A k \in Inst : ikey'[k] = ikey[k] \/ ikey'[k] = cpend.key
    BY <2>1 DEF TypeOK, ClientTypeOK
  <2> QED BY <1>0, <1>1, <2>1, <2>2, <2>3 DEF Known
<1>7. ASSUME NEW k \in Inst,
             InternalReadStep(k) \/ InternalWriteStep(k) \/ IRead(k) \/ IClose(k)
      PROVE  Known'
  <2>1. UNCHANGED <<cmain, cpend, ikey>>
    BY <1>7 DEF InternalReadStep, InternalWriteStep, ISend, IReadEnds, IWrite, IWriteEnds,
                IRead, IClose
  <2> QED BY <1>2, <2>1 DEF Pending
<1> QED BY <1>3, <1>4, <1>5, <1>6, <1>7 DEF ClientNext, ClientMainStep

(* The server keeps its tables. *)
LEMMA TablesServer ==
    ASSUME ServerTypeOK, Accepted, RouteWhileReading, Tables, ServerNext
    PROVE  Tables'
<1> USE DEF serverVars, sMainVars, listenVars, extVars
<1>0. ASSUME UNCHANGED <<proxy_routing, eread, ewrite, eclosed>>,
             smain' # "ended" => smain # "ended",
             \A p \in ProxyId : listener'[p] # "none" => listener[p] # "none"
      PROVE  Tables'
  BY <1>0 DEF Tables
<1>1. CASE SRegister
  <2>1. next_proxy_id \in ProxyId
    BY <1>1, FramesAssumption DEF SRegister, ProxyId, ServerTypeOK
  <2>2. /\ UNCHANGED <<smain, eread, ewrite, eclosed>>
        /\ proxy_routing' = proxy_routing \cup {next_proxy_id}
        /\ \A p \in ProxyId : p # next_proxy_id => listener'[p] = listener[p]
    BY <1>1, <2>1 DEF SRegister, ServerTypeOK
  <2> QED BY <2>2 DEF Tables
<1>2. CASE SRegisterOverLimit \/ SPing \/ SIgnore \/ SData
  BY <1>0, <1>2 DEF SRegisterOverLimit, SPing, SIgnore, SData
<1>3. CASE SRoute \/ SRouteError \/ SSend \/ ServerWriterStep
  <2>1. CASE SRoute \/ SRouteError
    BY <1>0, <2>1 DEF SRoute, SRouteError
  <2>2. CASE SSend \/ ServerWriterStep
    BY <1>0, <2>2 DEF SSend, ServerWriterStep, SWriterEnds, SWriterFails
  <2> QED BY <1>3, <2>1, <2>2
<1>4. CASE SStop
  BY <1>4 DEF SStop, Tables
<1>5. ASSUME NEW p \in ProxyId, ListenerStep(p) \/ LAccept(p) PROVE Tables'
  <2>0. \A q \in ProxyId : listener'[q] # "none" => listener[q] # "none"
    <3>1. listener[p] # "none" /\ \E s : listener' = [listener EXCEPT ![p] = s]
      BY <1>5, ListenerMoves
    <3> QED BY <3>1 DEF ServerTypeOK
  <2>1. CASE LBind(p) \/ LBindFails(p) \/ LAck(p) \/ LReject(p)
    <3>1. UNCHANGED <<smain, proxy_routing, eread, ewrite, eclosed>>
      BY <1>5, <2>1, RegistrationLeavesUsers, ListenerMoves
    <3> QED BY <1>0, <2>0, <3>1
  <2>2. CASE LAccept(p)
    <3> DEFINE b == <<p, next_conn_id[p]>>
    <3>1. /\ b \in Key /\ b[1] = p /\ eread' = [eread EXCEPT ![b] = "wait"]
          /\ UNCHANGED <<smain, proxy_routing, ewrite, eclosed>> /\ listener[p] # "none"
      BY <2>2, FramesAssumption DEF LAccept, Key, ConnId, ServerTypeOK
    <3>2. eread[b] = "none"
      BY <3>1, FramesAssumption DEF Accepted, ServerTypeOK
    <3> HIDE DEF b
    <3>3. /\ eread'[b] = "wait" /\ \A c \in Key : c # b => eread'[c] = eread[c]
      BY <3>1 DEF ServerTypeOK
    <3> QED BY <2>0, <3>1, <3>2, <3>3 DEF Tables
  <2>3. CASE LPermit(p)
    <3> DEFINE b == <<p, next_conn_id[p] - 1>>
    <3>1. /\ eread' = [eread EXCEPT ![b] = "read"] /\ ewrite' = [ewrite EXCEPT ![b] = "run"]
          /\ UNCHANGED <<smain, proxy_routing, eclosed>> /\ listener[p] = "permit"
      BY <2>3 DEF LPermit
    <3>2. eread[b] = "wait" /\ (b \in Key => eread[b] # "none")
      BY <3>1 DEF Accepted
    <3> HIDE DEF b
    <3>3. /\ b \in Key => eread'[b] = "read" /\ ewrite'[b] = "run"
          /\ \A c \in Key : c # b => eread'[c] = eread[c] /\ ewrite'[c] = ewrite[c]
      BY <3>1 DEF ServerTypeOK
    <3> QED BY <2>0, <3>1, <3>2, <3>3 DEF Tables
  <2>4. CASE LAbort(p)
    <3> DEFINE b == <<p, next_conn_id[p] - 1>>
    <3>1. /\ smain' = "ended"
          /\ \/ UNCHANGED <<eread, ewrite>>
             \/ eread' = [eread EXCEPT ![b] = "done"] /\ ewrite' = [ewrite EXCEPT ![b] = "done"]
      BY <2>4 DEF LAbort
    <3> HIDE DEF b
    <3>2. \A c \in Key : eread'[c] \in {"none", "wait"} => ewrite'[c] = "none"
      BY <3>1 DEF Tables, ServerTypeOK
    <3> QED BY <3>1, <3>2 DEF Tables
  <2> QED BY <1>5, <2>1, <2>2, <2>3, <2>4 DEF ListenerStep
<1>6. ASSUME NEW b \in Key, ExternalReadStep(b) \/ ERead(b) PROVE Tables'
  <2>1. /\ UNCHANGED <<smain, proxy_routing, listener, ewrite, eclosed>>
        /\ eread[b] \in {"read", "send"}
        /\ \E s \in {"read", "send", "done"} : eread' = [eread EXCEPT ![b] = s]
    BY <1>6 DEF ExternalReadStep, ESend, EReadEnds, ERead
  <2>2. /\ eread'[b] \notin {"none", "wait"}
        /\ \A c \in Key : c # b => eread'[c] = eread[c]
    BY <2>1 DEF ServerTypeOK
  <2> QED BY <2>1, <2>2 DEF Tables
<1>7. ASSUME NEW b \in Key, EWrite(b) PROVE Tables'
  BY <1>0, <1>7 DEF EWrite
<1>8. ASSUME NEW b \in Key, EClose(b) PROVE Tables'
  <2>1. /\ UNCHANGED <<smain, proxy_routing, listener, eread, ewrite>>
        /\ \A c \in Key : eclosed[c] => eclosed'[c]
    BY <1>8 DEF EClose, ServerTypeOK
  <2> QED BY <2>1 DEF Tables
<1>9. ASSUME NEW b \in Key, EWriteEnds(b) PROVE Tables'
  <2>1. /\ UNCHANGED <<smain, proxy_routing, listener, eread, eclosed>>
        /\ ewrite[b] = "run" /\ (eclosed[b] \/ b \notin routing)
        /\ ewrite'[b] = "done" /\ \A c \in Key : c # b => ewrite'[c] = ewrite[c]
    BY <1>9 DEF EWriteEnds, ServerTypeOK
  <2>2. eread[b] \notin {"none", "wait"}
    BY <2>1 DEF Tables
  <2>3. smain # "ended" => eread[b] = "done" \/ eclosed[b]
    BY <2>1, <2>2 DEF RouteWhileReading, ServerTypeOK
  <2> QED BY <2>1, <2>2, <2>3 DEF Tables
<1> QED BY <1>1, <1>2, <1>3, <1>4, <1>5, <1>6, <1>7, <1>8, <1>9
        DEF ServerNext, MainLoopStep, ExternalWriteStep

(* A connection that is not open has answered nothing. *)
LEMMA UnusedClient ==
    ASSUME ClientTypeOK, ClientMaps, Unused, ClientNext
    PROVE  Unused'
<1> USE DEF clientVars, instVars, Unused
<1>1. CASE ClientMainStep \/ CWriterFails \/ CPing
  <2>1. ichunk' = ichunk /\ (ninst' = ninst \/ ninst' = ninst + 1)
    BY <1>1 DEF ClientMainStep, CRegister, CRegistered, CReturn, CData, CConnect, CConnectFails,
                CDeliver, CDeliverError, CIgnore, CStop, CWriterFails, CPing
  <2>2. ninst \in Nat
    BY FramesAssumption DEF ClientTypeOK
  <2> QED BY <2>1, <2>2 DEF Inst
<1>2. ASSUME NEW k \in Inst,
             InternalReadStep(k) \/ InternalWriteStep(k) \/ IRead(k) \/ IClose(k)
      PROVE  Unused'
  <2>1. CASE IRead(k)
    <3>1. ninst' = ninst /\ k <= ninst /\ \A j \in Inst : j # k => ichunk'[j] = ichunk[j]
      BY <2>1 DEF IRead, ClientMaps, ClientTypeOK
    <3> QED BY <3>1, FramesAssumption DEF Inst, ClientTypeOK
  <2>2. CASE ~IRead(k)
    BY <1>2, <2>2 DEF InternalReadStep, InternalWriteStep, ISend, IReadEnds, IWrite, IWriteEnds,
                      IClose
  <2> QED BY <2>1, <2>2
<1> QED BY <1>1, <1>2 DEF ClientNext

-----------------------------------------------------------------------------
(* The server.                                                             *)

(* The user of a connection the client has was there before. *)
LEMMA ListensServer ==
    ASSUME TypeOK, Accepted, Known, ServerNext, UNCHANGED clientVars,
           NEW c \in Key, NEW k \in Inst, Listens(c, k)'
    PROVE  Listens(c, k)
<1>1. ikey[k] = c
  BY DEF Listens, clientVars, instVars
<1>2. eread[c] \in Live
  <2>1. eread[c] # "none"
    BY <1>1 DEF Known
  <2>2. ReadersGoOn
    BY ReadersMove DEF TypeOK
  <2> QED BY <2>1, <2>2 DEF ReadersGoOn, Listens, Live, TypeOK, ServerTypeOK
<1>3. cwriter = "run"
  <2>1. LinkEffect
    BY ServerEffect
  <2> QED BY <2>1 DEF LinkEffect, ToClient, ToServer, ServerReads, ClientReads,
                      ServerWriteFails, ClientWriteFails, Listens
<1>4. smain # "ended" /\ ~eclosed[c]
  <2> USE DEF Listens, serverVars, sMainVars, extVars
  <2>1. CASE MainLoopStep \/ ServerWriterStep
    BY <2>1, MainLeavesUsers
  <2>2. ASSUME NEW p \in ProxyId, ListenerStep(p) \/ LAccept(p)
        PROVE  smain # "ended" /\ ~eclosed[c]
    BY <2>2, ListenerMoves
  <2>3. ASSUME NEW b \in Key, EClose(b) PROVE smain # "ended" /\ ~eclosed[c]
    BY <2>3 DEF EClose, TypeOK, ServerTypeOK
  <2>4. ASSUME NEW b \in Key, ExternalReadStep(b) \/ ExternalWriteStep(b) \/ ERead(b)
        PROVE  smain # "ended" /\ ~eclosed[c]
    BY <2>4 DEF ExternalReadStep, ESend, EReadEnds, ExternalWriteStep, EWrite, EWriteEnds, ERead
  <2> QED BY <2>1, <2>2, <2>3, <2>4 DEF ServerNext
<1> QED BY <1>1, <1>2, <1>3, <1>4 DEF Listens

(* What the server holds for c, and what it has yet to read. *)
FrontStays(c, k) ==
    /\ Part(k, eout[c])' = Part(k, eout[c])
    /\ Part(k, to_remote[c])' = Part(k, to_remote[c])
    /\ Routed(c, k)' = Routed(c, k)

(* With both unchanged, so is the whole stream of answers. *)
LEMMA BackStays ==
    ASSUME NEW c, NEW k, FrontStays(c, k), Behind(c, k)' = Behind(c, k)
    PROVE  Back(c, k)' = Back(c, k)
  BY Zenon DEF Back, FrontStays

(* There are no answers in no frames. *)
LEMMA AnswersNone == \A c \in Key, k \in Inst : Answers(c, k, <<>>) = <<>>
  BY AnswersOf

(* The main loop holds no answer. *)
LEMMA RoutedNone ==
    ASSUME NEW c \in Key, NEW k \in Inst, smain # "route"
    PROVE  Routed(c, k) = <<>>
<1>1. Held(spend, smain = "route") = <<>>
  BY Zenon DEF Held
<1> QED BY <1>1, AnswersNone, Zenon DEF Routed

(* The answer it holds. *)
LEMMA RoutedOne ==
    ASSUME TypeOK, NEW c \in Key, NEW k \in Inst, smain = "route"
    PROVE  Routed(c, k) = IF spend.key = c THEN Part(k, <<spend.data>>) ELSE <<>>
<1>1. Held(spend, smain = "route") = <<spend>>
  BY Zenon DEF Held
<1>2. spend \in Frame /\ (IsDataOf(spend, c) <=> spend.key = c)
  BY DEF TypeOK, ServerTypeOK, Frame, DataFrames, IsDataOf
<1>3. \A f \in Frame : Answers(c, k, <<f>>) = IF IsDataOf(f, c) THEN Part(k, <<f.data>>) ELSE <<>>
  BY AnswersOf, Zenon
<1>4. Answers(c, k, <<spend>>) = IF IsDataOf(spend, c) THEN Part(k, <<spend.data>>) ELSE <<>>
  BY <1>2, <1>3, Zenon
<1> QED BY <1>1, <1>2, <1>4, Zenon DEF Routed

(* The client is left alone. *)
LEMMA TakenStays ==
    ASSUME UNCHANGED clientVars, NEW k \in Inst
    PROVE  Taken(k)' = Taken(k) /\ ichunk'[k] = ichunk[k]
<1>1. UNCHANGED <<iread, ichunk>>
  BY DEF clientVars, instVars
<1> QED BY <1>1, Zenon DEF Taken

(* No chunk moves on the server, and what it reads is no data. *)
LEMMA BackQuiet ==
    ASSUME TypeOK, UNCHANGED clientVars, UNCHANGED <<eout, to_remote>>,
           \/ c2s' = c2s
           \/ c2s # <<>> /\ Head(c2s).type # "Data" /\ c2s' = Tail(c2s),
           \/ UNCHANGED <<smain, spend>>
           \/ smain # "route" /\ smain' # "route",
           NEW c \in Key, NEW k \in Inst
    PROVE  Back(c, k)' = Back(c, k)
<1>1. Taken(k)' = Taken(k)
  BY TakenStays
<1>2. Answers(c, k, c2s)' = Answers(c, k, c2s)
  <2>1. CASE c2s' = c2s
    BY <2>1, Zenon
  <2>2. CASE c2s # <<>> /\ Head(c2s).type # "Data" /\ c2s' = Tail(c2s)
    <3>1. c2s \in Seq(Frame)
      BY DEF TypeOK, LinkTypeOK
    <3> QED BY <2>2, <3>1, AnswersMove, Zenon DEF IsDataOf
  <2> QED BY <2>1, <2>2
<1>3. Routed(c, k)' = Routed(c, k)
  <2>1. CASE UNCHANGED <<smain, spend>>
    BY <2>1, Zenon DEF Routed
  <2>2. CASE smain # "route" /\ smain' # "route"
    <3>1. Held(spend, smain = "route") = <<>> /\ Held(spend, smain = "route")' = <<>>
      BY <2>2, Zenon DEF Held
    <3> QED BY <3>1, Zenon DEF Routed
  <2> QED BY <2>1, <2>2
<1>4. FrontStays(c, k) /\ Behind(c, k)' = Behind(c, k)
  BY <1>1, <1>2, <1>3, Zenon DEF FrontStays, Behind
<1> QED BY <1>4, BackStays, Zenon

(* An answer is looked up in the table of its proxy, cached or not, and    *)
(* taken in hand when its user has a route.                                *)
LEMMA BackData ==
    ASSUME TypeOK, TypeOK', Tables, RouteWhileReading, SData, UNCHANGED clientVars,
           NEW c \in Key, NEW k \in Inst, Listens(c, k)
    PROVE  Back(c, k)' = Back(c, k)
<1> DEFINE f == Head(c2s)
           key == f.key
           table == RoutingTable(key[1])
           x == Part(k, <<f.data>>)
           l == Answers(c, k, Tail(c2s))
           t == Taken(k)
<1>0. /\ c2s \in Seq(Frame) /\ c2s # <<>> /\ c2s' = Tail(c2s) /\ smain = "read"
      /\ UNCHANGED <<eout, to_remote>>
  BY DEF SData, ServerReads, TypeOK, LinkTypeOK, extVars
<1>1. f \in DataFrames /\ key \in Key /\ key = <<key[1], key[2]>> /\ f.data \in Payload
  <2>1. f \in DataFrames
    BY LinkOps, FrameKinds DEF SData, ServerReads, TypeOK
  <2> QED BY <2>1 DEF DataFrames, Key
<1>2. IsDataOf(f, c) <=> key = c
  BY <1>1 DEF IsDataOf, DataFrames
<1>3. Taken(k)' = t /\ Routed(c, k) = <<>>
  BY <1>0, TakenStays, RoutedNone
<1>4. Answers(c, k, c2s)' = l
  BY <1>0, Zenon
<1>5. /\ Part(k, eout[c])' = Part(k, eout[c])
      /\ Part(k, to_remote[c])' = Part(k, to_remote[c])
  BY <1>0, Zenon
<1>6. x \in Seq(Nat) /\ l \in Seq(Nat) /\ t \in Seq(Nat)
  <2>1. (TypeOK => BackTyped)'
    BY BackType, PTL
  <2>2. l \in Seq(Nat) /\ t \in Seq(Nat)
    BY <1>4, <2>1, BackType, Zenon DEF BackTyped
  <2>3. <<f.data>> \in Seq(Payload)
    BY <1>1
  <2> QED BY <2>2, <2>3, PartOf, Zenon
<1>a. \A g \in Frame : Answers(c, k, <<g>>) = IF IsDataOf(g, c) THEN Part(k, <<g.data>>) ELSE <<>>
  BY AnswersOf, Zenon
<1>7. ASSUME key = c PROVE Routed(c, k)' = x /\ Answers(c, k, c2s) = x \o l
  <2>1. table = c[1] /\ c \in routing /\ table # NoProxy
    <3>1. c[1] \in proxy_routing /\ c[1] \in ProxyId
      BY DEF Listens, Live, Tables, Key
    <3>2. c \in routing
      BY DEF Listens, Live, RouteWhileReading
    <3> QED BY <1>7, <3>1, <3>2, FramesAssumption DEF RoutingTable, ProxyId, NoProxy
  <2>2. <<table, key[2]>> = c
    BY <1>1, <1>7, <2>1
  <2>3. smain' = "route" /\ spend' = new_data_frame(f.data, c)
    BY <2>1, <2>2 DEF SData
  <2>4. spend'.key = c /\ spend'.data = f.data
    BY <2>3 DEF new_data_frame
  <2>5. Routed(c, k)' = x
    <3>1. Held(spend, smain = "route")' = <<spend'>>
      BY <2>3, Zenon DEF Held
    <3>2. spend' \in Frame /\ IsDataOf(spend', c)
      BY <2>3, <2>4 DEF TypeOK, ServerTypeOK, Frame, IsDataOf, new_data_frame
    <3>3. Routed(c, k)' = Part(k, <<spend'.data>>)
      BY <1>a, <3>1, <3>2, Zenon DEF Routed
    <3> QED BY <2>4, <3>3, Zenon
  <2>6. Answers(c, k, c2s) = x \o l
    BY <1>0, <1>2, <1>7, AnswersMove, Zenon
  <2> QED BY <2>5, <2>6
<1>8. ASSUME key # c PROVE Routed(c, k)' = <<>> /\ Answers(c, k, c2s) = l
  <2>1. Answers(c, k, c2s) = l
    BY <1>0, <1>2, <1>8, AnswersMove, Zenon
  <2>2. smain' # "route" \/ (smain' = "route" /\ spend'.key # c)
    <3>1. table # NoProxy => table = key[1]
      BY DEF RoutingTable
    <3>2. \/ smain' = smain
          \/ table # NoProxy /\ spend' = new_data_frame(f.data, <<table, key[2]>>)
      BY DEF SData
    <3> HIDE DEF table
    <3>3. smain' = smain \/ spend'.key = key
      BY <1>1, <3>1, <3>2 DEF new_data_frame
    <3> QED BY <1>0, <1>8, <3>3
  <2>3. Routed(c, k)' = <<>>
    <3>1. CASE smain' # "route"
      <4>1. Held(spend, smain = "route")' = <<>>
        BY <3>1, Zenon DEF Held
      <4> QED BY <4>1, AnswersNone, Zenon DEF Routed
    <3>2. CASE smain' = "route" /\ spend'.key # c
      <4>1. Held(spend, smain = "route")' = <<spend'>>
        BY <3>2, Zenon DEF Held
      <4>2. spend' \in Frame /\ ~IsDataOf(spend', c)
        BY <3>2 DEF TypeOK, ServerTypeOK, Frame, IsDataOf
      <4> QED BY <1>a, <4>1, <4>2, Zenon DEF Routed
    <3> QED BY <2>2, <3>1, <3>2
  <2> QED BY <2>1, <2>3
<1>9. Routed(c, k)' \o Behind(c, k)' = Routed(c, k) \o Behind(c, k)
  <2> HIDE DEF x, l, t
  <2>0. \A a \in Seq(Nat) : <<>> \o a = a
    BY Joined, Zenon
  <2>1. CASE key = c
    <3>1. Routed(c, k)' \o Behind(c, k)' = x \o (l \o t)
      BY <1>3, <1>4, <1>7, <2>1, Zenon DEF Behind
    <3>2. Routed(c, k) \o Behind(c, k) = <<>> \o ((x \o l) \o t)
      BY <1>3, <1>7, <2>1, Zenon DEF Behind, t
    <3>3. (x \o l) \o t = x \o (l \o t) /\ (x \o l) \o t \in Seq(Nat)
      <4>1. \A u, v, w \in Seq(Nat) : (u \o v) \o w = u \o (v \o w)
        BY Joined, Zenon
      <4>2. (x \o l) \o t = x \o (l \o t)
        BY <1>6, <4>1, ZenonT(60)
      <4>3. (x \o l) \o t \in Seq(Nat)
        BY <1>6, Joined, Zenon
      <4> QED BY <4>2, <4>3, Zenon
    <3> QED BY <2>0, <3>1, <3>2, <3>3, Zenon
  <2>2. CASE key # c
    BY <1>3, <1>4, <1>8, <2>2, Zenon DEF Behind, t
  <2> QED BY <2>1, <2>2
<1> QED BY <1>5, <1>9, Zenon DEF Back

(* The answer in hand is queued for the user. *)
LEMMA BackRoute ==
    ASSUME TypeOK, SRoute, UNCHANGED clientVars, NEW c \in Key, NEW k \in Inst
    PROVE  Back(c, k)' = Back(c, k)
<1>0. /\ smain = "route" /\ smain' # "route" /\ c2s' = c2s /\ eout' = eout
      /\ to_remote' = [to_remote EXCEPT ![spend.key] = Append(@, spend.data)]
  BY DEF SRoute, linkVars
<1>1. spend.key \in Key /\ spend.data \in Payload /\ to_remote[c] \in Seq(Payload)
  BY <1>0 DEF TypeOK, ServerTypeOK, DataFrames
<1>2. Behind(c, k)' = Behind(c, k)
  BY <1>0, TakenStays, Zenon DEF Behind
<1>3. Routed(c, k)' = <<>>
  <2>1. Held(spend, smain = "route")' = <<>>
    BY <1>0, Zenon DEF Held
  <2> QED BY <2>1, AnswersNone, Zenon DEF Routed
<1>4. Routed(c, k) = IF spend.key = c THEN Part(k, <<spend.data>>) ELSE <<>>
  BY <1>0, RoutedOne
<1>5. Part(k, eout[c])' = Part(k, eout[c])
  BY <1>0, Zenon
<1>6. CASE spend.key # c
  <2>1. to_remote'[c] = to_remote[c]
    BY <1>0, <1>1, <1>6 DEF TypeOK, ServerTypeOK
  <2>2. FrontStays(c, k)
    BY <1>3, <1>4, <1>5, <1>6, <2>1, Zenon DEF FrontStays
  <2> QED BY <1>2, <2>2, BackStays, Zenon
<1>7. CASE spend.key = c
  <2> DEFINE a == Part(k, to_remote[c])
             x == Part(k, <<spend.data>>)
             r == Behind(c, k)
  <2>1. to_remote'[c] = Append(to_remote[c], spend.data)
    BY <1>0, <1>1, <1>7 DEF TypeOK, ServerTypeOK
  <2>2. Part(k, to_remote[c])' = a \o x
    <3>1. \A q \in Seq(Payload), d \in Payload : Part(k, Append(q, d)) = Part(k, q) \o Part(k, <<d>>)
      BY PartMove, Zenon
    <3> QED BY <1>1, <2>1, <3>1, Zenon
  <2>3. a \in Seq(Nat) /\ x \in Seq(Nat) /\ r \in Seq(Nat)
    <3>1. <<spend.data>> \in Seq(Payload)
      BY <1>1
    <3>2. x \in Seq(Nat)
      BY <3>1, PartOf, Zenon
    <3> QED BY <3>2, BackType, Zenon DEF BackTyped
  <2>4. Back(c, k)' = Part(k, eout[c]) \o ((a \o x) \o (<<>> \o r))
    BY <1>2, <1>3, <1>5, <2>2, Zenon DEF Back
  <2>5. Back(c, k) = Part(k, eout[c]) \o (a \o (x \o r))
    BY <1>4, <1>7, Zenon DEF Back
  <2> HIDE DEF a, x, r
  <2>6. (a \o x) \o (<<>> \o r) = a \o (x \o r)
    <3>1. <<>> \o r = r
      BY <2>3, Joined, Zenon
    <3>2. \A u, v, w \in Seq(Nat) : (u \o v) \o w = u \o (v \o w)
      BY Joined, Zenon
    <3>3. (a \o x) \o r = a \o (x \o r)
      BY <2>3, <3>2, ZenonT(60)
    <3> QED BY <3>1, <3>3, Zenon
  <2> QED BY <2>4, <2>5, <2>6, Zenon
<1> QED BY <1>6, <1>7

(* The answer in hand is dropped: it is not for a user who is there. *)
LEMMA BackRouteError ==
    ASSUME TypeOK, Tables, SRouteError, UNCHANGED clientVars,
           NEW c \in Key, NEW k \in Inst, Listens(c, k)
    PROVE  Back(c, k)' = Back(c, k)
<1>0. /\ smain = "route" /\ smain' # "route" /\ c2s' = c2s /\ UNCHANGED <<eout, to_remote>>
      /\ ewrite[spend.key] = "done"
  BY DEF SRouteError, linkVars, extVars
<1>1. spend.key # c
  BY <1>0 DEF Tables, Listens, Live
<1>2. Behind(c, k)' = Behind(c, k)
  BY <1>0, TakenStays, Zenon DEF Behind
<1>3. Routed(c, k)' = <<>>
  <2>1. Held(spend, smain = "route")' = <<>>
    BY <1>0, Zenon DEF Held
  <2> QED BY <2>1, AnswersNone, Zenon DEF Routed
<1>4. Routed(c, k) = <<>>
  BY <1>0, <1>1, RoutedOne
<1>5. FrontStays(c, k)
  BY <1>0, <1>3, <1>4, Zenon DEF FrontStays
<1> QED BY <1>2, <1>5, BackStays, Zenon

(* The write task of a user who is there. *)
LEMMA BackWrite ==
    ASSUME TypeOK, UNCHANGED clientVars, NEW b \in Key, ExternalWriteStep(b),
           NEW c \in Key, NEW k \in Inst, Listens(c, k)
    PROVE  Back(c, k)' = Back(c, k)
<1>0. /\ UNCHANGED <<smain, spend, c2s>>
      /\ c # b => to_remote'[c] = to_remote[c] /\ eout'[c] = eout[c]
  BY DEF ExternalWriteStep, EWrite, EWriteEnds, sMainVars, linkVars, TypeOK, ServerTypeOK
<1>1. Behind(c, k)' = Behind(c, k) /\ Routed(c, k)' = Routed(c, k)
  BY <1>0, TakenStays, Zenon DEF Behind, Routed
<1>2. CASE to_remote'[c] = to_remote[c] /\ eout'[c] = eout[c]
  <2>1. FrontStays(c, k)
    BY <1>1, <1>2, Zenon DEF FrontStays
  <2> QED BY <1>1, <2>1, BackStays, Zenon
<1>3. CASE c = b /\ EWriteEnds(b)
  <2>1. to_remote'[c] = to_remote[c] /\ eout'[c] = eout[c]
    BY <1>3 DEF EWriteEnds, Listens, TypeOK, ServerTypeOK
  <2> QED BY <1>2, <2>1
<1>4. CASE c = b /\ EWrite(b)
  <2> DEFINE q == to_remote[c]
             a == Part(k, eout[c])
             x == Part(k, <<Head(q)>>)
             l == Part(k, Tail(q))
             r == Routed(c, k) \o Behind(c, k)
  <2>1. /\ q # <<>> /\ to_remote'[c] = Tail(q) /\ eout'[c] = Append(eout[c], Head(q))
        /\ q \in Seq(Payload) /\ eout[c] \in Seq(Payload)
    BY <1>4 DEF EWrite, TypeOK, ServerTypeOK
  <2>2. Head(q) \in Payload /\ Tail(q) \in Seq(Payload) /\ Part(k, q) = x \o l
    BY <2>1, PartMove, Zenon
  <2>3. Part(k, eout[c])' = a \o x /\ Part(k, to_remote[c])' = l
    <3>1. \A s \in Seq(Payload), d \in Payload : Part(k, Append(s, d)) = Part(k, s) \o Part(k, <<d>>)
      BY PartMove, Zenon
    <3> QED BY <2>1, <2>2, <3>1, Zenon
  <2>4. a \in Seq(Nat) /\ x \in Seq(Nat) /\ l \in Seq(Nat) /\ r \in Seq(Nat)
    <3>1. <<Head(q)>> \in Seq(Payload)
      <4> HIDE DEF q
      <4> QED BY <2>2
    <3>2. a \in Seq(Nat) /\ x \in Seq(Nat) /\ l \in Seq(Nat)
      BY <2>1, <2>2, <3>1, PartOf, Zenon
    <3> QED BY <3>2, BackType, Joined, Zenon DEF BackTyped
  <2>5. Back(c, k)' = (a \o x) \o (l \o r)
    BY <1>1, <2>3, Zenon DEF Back
  <2>6. Back(c, k) = a \o ((x \o l) \o r)
    BY <2>2, Zenon DEF Back
  <2> HIDE DEF a, x, l, r
  <2>7. (a \o x) \o (l \o r) = a \o ((x \o l) \o r)
    <3>1. \A u, v, w \in Seq(Nat) : (u \o v) \o w = u \o (v \o w)
      BY Joined, Zenon
    <3>2. l \o r \in Seq(Nat)
      BY <2>4, Joined, Zenon
    <3>3. (a \o x) \o (l \o r) = a \o (x \o (l \o r))
      BY <2>4, <3>1, <3>2, ZenonT(60)
    <3>4. (x \o l) \o r = x \o (l \o r)
      BY <2>4, <3>1, ZenonT(60)
    <3> QED BY <3>3, <3>4, Zenon
  <2> QED BY <2>5, <2>6, <2>7, Zenon
<1> QED BY <1>0, <1>2, <1>3, <1>4 DEF ExternalWriteStep

(* Every step of the server. *)
LEMMA AnsweredServer ==
    ASSUME TypeOK, TypeOK', Accepted, RouteWhileReading, Known, Tables, ServerNext,
           UNCHANGED clientVars, NEW c \in Key, NEW k \in Inst, Listens(c, k)'
    PROVE  Keeps(c, k)
<1>0. Listens(c, k) /\ ichunk'[k] = ichunk[k]
  BY ListensServer, TakenStays
<1> SUFFICES Back(c, k)' = Back(c, k)
  BY <1>0 DEF Keeps
<1> USE DEF serverVars, sMainVars, extVars, linkVars
<1>1. CASE SRegister \/ SRegisterOverLimit \/ SPing \/ SIgnore
  <2>1. /\ UNCHANGED <<eout, to_remote>> /\ smain # "route" /\ smain' # "route"
        /\ c2s # <<>> /\ Head(c2s).type # "Data" /\ c2s' = Tail(c2s)
    BY <1>1 DEF SRegister, SRegisterOverLimit, SPing, SIgnore, ServerReads
  <2> QED BY <2>1, BackQuiet
<1>2. CASE SData
  BY <1>0, <1>2, BackData
<1>3. CASE SRoute \/ SRouteError
  BY <1>0, <1>3, BackRoute, BackRouteError
<1>4. CASE SSend
  <2>1. /\ UNCHANGED <<eout, to_remote>> /\ smain # "route" /\ smain' # "route" /\ c2s' = c2s
    BY <1>4 DEF SSend, ToClient
  <2> QED BY <2>1, BackQuiet
<1>5. CASE SStop
  BY <1>5 DEF SStop, Listens
<1>6. CASE ServerWriterStep
  <2>1. UNCHANGED <<eout, to_remote, c2s, smain, spend>>
    BY <1>6 DEF ServerWriterStep, SWriterEnds, SWriterFails, ServerWriteFails
  <2> QED BY <2>1, BackQuiet
<1>7. ASSUME NEW p \in ProxyId, ListenerStep(p) \/ LAccept(p) PROVE Back(c, k)' = Back(c, k)
  <2>1. UNCHANGED <<eout, to_remote, c2s, smain, spend>>
    BY <1>7, ListenerMoves
  <2> QED BY <2>1, BackQuiet
<1>8. ASSUME NEW b \in Key, ExternalReadStep(b) \/ ERead(b) \/ EClose(b)
      PROVE  Back(c, k)' = Back(c, k)
  <2>1. UNCHANGED <<eout, to_remote, c2s, smain, spend>>
    BY <1>8 DEF ExternalReadStep, ESend, EReadEnds, ERead, EClose, ToClient
  <2> QED BY <2>1, BackQuiet
<1>9. ASSUME NEW b \in Key, ExternalWriteStep(b) PROVE Back(c, k)' = Back(c, k)
  BY <1>0, <1>9, BackWrite
<1> QED BY <1>1, <1>2, <1>3, <1>4, <1>5, <1>6, <1>7, <1>8, <1>9 DEF ServerNext, MainLoopStep

-----------------------------------------------------------------------------
(* The client.                                                             *)

(* The server is left alone. *)
LEMMA FrontIsLeft ==
    ASSUME UNCHANGED serverVars, NEW c \in Key, NEW k \in Inst
    PROVE  FrontStays(c, k)
<1>1. UNCHANGED <<eout, to_remote, smain, spend>>
  BY DEF serverVars, sMainVars, extVars
<1> QED BY <1>1, Zenon DEF FrontStays, Routed

(* A session of which the client still writes was up before. *)
LEMMA ListensClient ==
    ASSUME TypeOK, ClientNext, UNCHANGED serverVars,
           NEW c \in Key, NEW k \in Inst, Listens(c, k)', ikey[k] = c
    PROVE  Listens(c, k)
<1>1. UNCHANGED <<eread, eclosed, smain>>
  BY DEF serverVars, sMainVars, extVars
<1>2. cwriter = "run"
  <2>1. LinkEffect
    BY ClientEffect DEF TypeOK
  <2> QED BY <2>1 DEF LinkEffect, ToClient, ToServer, ServerReads, ClientReads,
                      ServerWriteFails, ClientWriteFails, Listens
<1> QED BY <1>1, <1>2 DEF Listens

(* Neither a chunk of k nor the end of the session. *)
LEMMA BehindStays ==
    ASSUME TypeOK, ClientNext, UNCHANGED serverVars,
           NEW c \in Key, NEW k \in Inst, Listens(c, k)', ikey[k] = c,
           Behind(c, k)' = Behind(c, k), ichunk'[k] = ichunk[k]
    PROVE  Keeps(c, k)
<1>1. Listens(c, k) /\ FrontStays(c, k)
  BY ListensClient, FrontIsLeft
<1>2. Back(c, k)' = Back(c, k)
  BY <1>1, BackStays, Zenon
<1> QED BY <1>1, <1>2 DEF Keeps

(* The read task of j queues the answer it holds. *)
LEMMA BehindSend ==
    ASSUME TypeOK, NEW j \in Inst, ISend(j), NEW c \in Key, NEW k \in Inst, ikey[k] = c
    PROVE  Behind(c, k)' = Behind(c, k)
<1> DEFINE g == new_data_frame(ServiceChunk(j), ikey[j])
           a == Answers(c, k, c2s)
<1>1. /\ g \in Frame /\ g.type = "Data" /\ g.key = ikey[j] /\ g.data = ServiceChunk(j)
      /\ ServiceChunk(j) \in Payload /\ ServiceChunk(j).inst = j /\ ServiceChunk(j).n = ichunk[j]
  BY ServiceChunkType, ConstructorsType
     DEF ISend, TypeOK, ClientTypeOK, new_data_frame, ServiceChunk
<1>2. /\ c2s \in Seq(Frame) /\ c2s' = Append(c2s, g) /\ iread[j] = "send" /\ iread'[j] # "send"
      /\ k # j => iread'[k] = iread[k]
      /\ ichunk' = ichunk
  BY DEF ISend, ToServer, TypeOK, LinkTypeOK, ClientTypeOK
<1> HIDE DEF g
<1>3. \A f \in Frame : Answers(c, k, Append(c2s, f)) =
         IF IsDataOf(f, c) THEN a \o Part(k, <<f.data>>) ELSE a
  BY <1>2, AnswersMove, Zenon
<1>4. a \in Seq(Nat) /\ Taken(k) \in Seq(Nat)
  BY BackType, Zenon DEF BackTyped
<1>5. Part(k, <<g.data>>) = IF j = k THEN <<ichunk[j]>> ELSE <<>>
  <2>1. \A d \in Payload : Part(k, <<d>>) = IF d.inst = k THEN <<d.n>> ELSE <<>>
    BY PartOf, Zenon
  <2>2. g.data \in Payload /\ g.data.inst = j /\ g.data.n = ichunk[j]
    BY <1>1, Zenon
  <2> QED BY <2>1, <2>2, Zenon
<1>6. CASE j = k
  <2>1. IsDataOf(g, c)
    BY <1>1, <1>6 DEF IsDataOf
  <2>2. Answers(c, k, c2s)' = a \o <<ichunk[k]>>
    BY <1>1, <1>2, <1>3, <1>5, <1>6, <2>1, Zenon
  <2>3. Taken(k) = <<ichunk[k]>> /\ Taken(k)' = <<>>
    BY <1>2, <1>6, Zenon DEF Taken
  <2>4. a \o <<ichunk[k]>> \in Seq(Nat)
    BY <1>4, <2>3, Joined, Zenon
  <2> HIDE DEF a
  <2>5. Behind(c, k)' = (a \o <<ichunk[k]>>) \o <<>>
    BY <2>2, <2>3, Zenon DEF Behind
  <2>6. (a \o <<ichunk[k]>>) \o <<>> = a \o <<ichunk[k]>>
    BY <2>4, Joined, Zenon
  <2> QED BY <2>3, <2>5, <2>6, Zenon DEF Behind, a
<1>7. CASE j # k
  <2>1. Taken(k)' = Taken(k)
    BY <1>2, <1>7, Zenon DEF Taken
  <2>2. a \o <<>> = a
    BY <1>4, Joined, Zenon
  <2>3. Answers(c, k, c2s)' = a
    BY <1>1, <1>2, <1>3, <1>5, <1>7, <2>2, Zenon
  <2> QED BY <2>1, <2>3, Zenon DEF Behind
<1> QED BY <1>6, <1>7

(* A piece is added to the last of four or to all of them.                 *)
LEMMA Extend ==
  \A a, b, h, l, e \in Seq(Nat) :
    a \o (b \o (h \o (l \o e))) = (a \o (b \o (h \o l))) \o e
<1> SUFFICES ASSUME NEW a \in Seq(Nat), NEW b \in Seq(Nat), NEW h \in Seq(Nat),
                    NEW l \in Seq(Nat), NEW e \in Seq(Nat)
             PROVE  a \o (b \o (h \o (l \o e))) = (a \o (b \o (h \o l))) \o e
  OBVIOUS
<1> DEFINE Assoc(x, y, z) == (x \o y) \o z = x \o (y \o z)
           u == h \o l
           v == b \o u
<1>1. \A x, y, z \in Seq(Nat) : Assoc(x, y, z)
  BY Joined, Zenon
<1>2. u \in Seq(Nat) /\ v \in Seq(Nat)
  OBVIOUS
<1> HIDE DEF Assoc, u, v
<1>3. Assoc(h, l, e) /\ Assoc(b, u, e) /\ Assoc(a, v, e)
  BY <1>1, <1>2
<1>4. (a \o v) \o e = a \o (v \o e)
  BY <1>3, Zenon DEF Assoc
<1>5. v \o e = b \o (u \o e)
  BY <1>3, Zenon DEF Assoc, v
<1>6. u \o e = h \o (l \o e)
  BY <1>3, Zenon DEF Assoc, u
<1> QED BY <1>4, <1>5, <1>6, Zenon DEF u, v

(* The read task of k takes the next answer from the service. *)
LEMMA BackRead ==
    ASSUME TypeOK, NEW k \in Inst, IRead(k), UNCHANGED serverVars, NEW c \in Key, Listens(c, k)
    PROVE  Adds(c, k)
<1> DEFINE a == Part(k, eout[c])
           b == Part(k, to_remote[c])
           h == Routed(c, k)
           l == Answers(c, k, c2s)
           e == <<ichunk[k] + 1>>
<1>1. /\ iread[k] = "read" /\ iread'[k] = "send" /\ ichunk'[k] = ichunk[k] + 1 /\ c2s' = c2s
      /\ ichunk[k] \in Nat
  BY FramesAssumption DEF IRead, linkVars, TypeOK, ClientTypeOK
<1>2. Taken(k) = <<>> /\ Taken(k)' = e
  BY <1>1 DEF Taken
<1>3. a \in Seq(Nat) /\ b \in Seq(Nat) /\ h \in Seq(Nat) /\ l \in Seq(Nat) /\ e \in Seq(Nat)
  <2>1. e \in Seq(Nat)
    BY <1>1
  <2> QED BY <2>1, BackType, Zenon DEF BackTyped
<1>4. FrontStays(c, k)
  BY FrontIsLeft
<1>5. Back(c, k)' = a \o (b \o (h \o (l \o e)))
  BY <1>1, <1>2, <1>4, Zenon DEF Back, FrontStays, Behind
<1>6. Back(c, k) = a \o (b \o (h \o l))
  <2>1. l \o <<>> = l
    BY <1>3, Joined, Zenon
  <2> QED BY <1>2, <2>1, Zenon DEF Back, Behind
<1> HIDE DEF a, b, h, l, e
<1>7. a \o (b \o (h \o (l \o e))) = (a \o (b \o (h \o l))) \o e
  <2> DEFINE Same(u, v, w, x, y) == u \o (v \o (w \o (x \o y))) = (u \o (v \o (w \o x))) \o y
  <2>1. \A u, v, w, x, y \in Seq(Nat) : Same(u, v, w, x, y)
    BY Extend, Zenon
  <2> HIDE DEF Same
  <2>2. Same(a, b, h, l, e)
    BY <1>3, <2>1
  <2> QED BY <2>2, Zenon DEF Same
<1>8. Back(c, k)' = Back(c, k) \o <<ichunk[k] + 1>>
  BY <1>5, <1>6, <1>7, Zenon DEF e
<1> QED BY <1>1, <1>8, Zenon DEF Adds

(* Nothing of a connection is on the way before it is opened. *)
LEMMA BackFresh ==
    ASSUME TypeOK, ClientMaps, ServiceBytes, Unused, CConnect, UNCHANGED serverVars,
           NEW c \in Key, NEW k \in Inst, k = ninst + 1
    PROVE  Starts(c, k)
<1>1. /\ ikey[k] = <<>> /\ ichunk[k] = 0
  BY FramesAssumption DEF ClientMaps, Unused, TypeOK, ClientTypeOK
<1>2. \A d : FromConn(d, c) => d.inst # k
  BY <1>1, KeyIsPair DEF FromConn
<1>3. eout[c] \in Seq(Payload) /\ to_remote[c] \in Seq(Payload) /\ c2s \in Seq(Frame)
  BY DEF TypeOK, LinkTypeOK, ServerTypeOK
<1>4. Part(k, eout[c]) = <<>> /\ Part(k, to_remote[c]) = <<>>
  <2>1. \A d \in Elems(to_remote[c]) \cup Elems(eout[c]) : d.inst # k
    BY <1>2 DEF ServiceBytes
  <2> QED BY <1>3, <2>1, NoPart
<1>5. Answers(c, k, c2s) = <<>>
  <2>1. \A f \in Elems(c2s) : f.type = "Data" /\ f.key = c => f.data.inst # k
    BY <1>2 DEF ServiceBytes
  <2> QED BY <1>3, <2>1, NoAnswers
<1>6. Routed(c, k) = <<>>
  <2>1. CASE smain = "route"
    <3>1. spend.data \in Payload /\ (spend.key = c => spend.data.inst # k)
      BY <1>2, <2>1 DEF ServiceBytes, TypeOK, ServerTypeOK, DataFrames
    <3>2. spend.key = c => Part(k, <<spend.data>>) = <<>>
      BY <3>1, PartOf, Zenon
    <3> QED BY <2>1, <3>2, RoutedOne
  <2> QED BY <2>1, RoutedNone
<1>7. c2s' = c2s /\ iread'[k] = "read" /\ ichunk' = ichunk
  BY DEF CConnect, linkVars, TypeOK, ClientTypeOK
<1>8. Taken(k)' = <<>>
  BY <1>7 DEF Taken
<1>9. FrontStays(c, k)
  BY FrontIsLeft
<1>10. Back(c, k)' = <<>> \o (<<>> \o (<<>> \o (<<>> \o <<>>)))
  BY <1>4, <1>5, <1>6, <1>7, <1>8, <1>9, Zenon DEF Back, Behind, FrontStays
<1>11. <<>> \o (<<>> \o (<<>> \o (<<>> \o <<>>))) = <<>>
  <2>1. <<>> \o <<>> = <<>>
    BY Joined, Zenon
  <2> QED BY <2>1, Zenon
<1> QED BY <1>1, <1>7, <1>10, <1>11, Zenon DEF Starts

(* Every step of the client. *)
LEMMA AnsweredClient ==
    ASSUME TypeOK, ClientMaps, ServiceBytes, Unused, ClientNext, UNCHANGED serverVars,
           NEW c \in Key, NEW k \in Inst, Listens(c, k)'
    PROVE  Keeps(c, k) \/ Adds(c, k) \/ Starts(c, k)
<1> USE DEF clientVars, cMainVars, instVars, linkVars
<1>0. ASSUME ikey[k] = c, UNCHANGED <<c2s, ichunk>>, iread'[k] = "send" <=> iread[k] = "send"
      PROVE  Keeps(c, k)
  <2>1. Behind(c, k)' = Behind(c, k)
    BY <1>0, Zenon DEF Behind, Taken
  <2> QED BY <1>0, <2>1, BehindStays
<1>1. CASE CRegister \/ CPing
  <2>1. PICK f \in Frame : f.type # "Data" /\ c2s' = Append(c2s, f)
    <3>1. CASE CRegister
      <4>1. RegisterFrame(creg) \in Frame /\ RegisterFrame(creg).type # "Data"
        BY ConstructorsType DEF TypeOK, ClientTypeOK, RegisterFrame
      <4> QED BY <3>1, <4>1 DEF CRegister, ToServer
    <3>2. CASE CPing
      <4>1. new_ping_frame \in Frame /\ new_ping_frame.type # "Data"
        BY ConstructorsType DEF new_ping_frame
      <4> QED BY <3>2, <4>1 DEF CPing, ToServer
    <3> QED BY <1>1, <3>1, <3>2
  <2>2. UNCHANGED <<ikey, iread, ichunk>>
    BY <1>1 DEF CRegister, CPing
  <2>3. Answers(c, k, c2s)' = Answers(c, k, c2s)
    <3>1. c2s \in Seq(Frame)
      BY DEF TypeOK, LinkTypeOK
    <3>2. \A g \in Frame : Answers(c, k, Append(c2s, g)) =
             IF IsDataOf(g, c) THEN Answers(c, k, c2s) \o Part(k, <<g.data>>)
             ELSE Answers(c, k, c2s)
      BY <3>1, AnswersMove, Zenon
    <3> QED BY <2>1, <3>2, Zenon DEF IsDataOf
  <2>4. Behind(c, k)' = Behind(c, k)
    BY <2>2, <2>3, Zenon DEF Behind, Taken
  <2>5. ikey[k] = c /\ ichunk'[k] = ichunk[k]
    BY <2>2 DEF Listens
  <2> QED BY <2>4, <2>5, BehindStays
<1>2. CASE CReturn \/ CStop \/ CWriterFails
  BY <1>2 DEF CReturn, CStop, CWriterFails, ClientWriteFails, Listens
<1>3. CASE CRegistered \/ CIgnore \/ CData
  <2>1. UNCHANGED <<c2s, ikey, iread, ichunk>>
    BY <1>3 DEF CRegistered, CIgnore, CData, ClientReads
  <2> QED BY <1>0, <2>1 DEF Listens
<1>4. CASE CConnectFails \/ CDeliver \/ CDeliverError
  <2>1. UNCHANGED <<c2s, ikey, iread, ichunk>>
    BY <1>4 DEF CConnectFails, CDeliver, CDeliverError
  <2> QED BY <1>0, <2>1 DEF Listens
<1>5. CASE CConnect
  <2>1. CASE k = ninst + 1
    BY <1>5, <2>1, BackFresh
  <2>2. CASE k # ninst + 1
    <3>1. ikey'[k] = ikey[k] /\ iread'[k] = iread[k] /\ UNCHANGED <<c2s, ichunk>>
      BY <1>5, <2>2 DEF CConnect, TypeOK, ClientTypeOK
    <3> QED BY <1>0, <3>1 DEF Listens
  <2> QED BY <2>1, <2>2
<1>6. ASSUME NEW j \in Inst,
             InternalReadStep(j) \/ InternalWriteStep(j) \/ IRead(j) \/ IClose(j)
      PROVE  Keeps(c, k) \/ Adds(c, k)
  <2>1. ikey[k] = c
    BY <1>6 DEF InternalReadStep, InternalWriteStep, ISend, IReadEnds, IWrite, IWriteEnds,
                IRead, IClose, Listens
  <2>2. Listens(c, k)
    BY <2>1, ListensClient
  <2>3. CASE ISend(j)
    <3>1. Behind(c, k)' = Behind(c, k) /\ ichunk'[k] = ichunk[k]
      BY <2>1, <2>3, BehindSend DEF ISend
    <3> QED BY <2>1, <3>1, BehindStays
  <2>4. CASE IRead(j)
    <3>1. CASE j = k
      BY <2>2, <2>4, <3>1, BackRead
    <3>2. CASE j # k
      <4>1. iread'[k] = iread[k] /\ ichunk'[k] = ichunk[k] /\ c2s' = c2s
        BY <2>4, <3>2 DEF IRead, TypeOK, ClientTypeOK
      <4>2. Behind(c, k)' = Behind(c, k)
        BY <4>1, Zenon DEF Behind, Taken
      <4> QED BY <2>1, <4>1, <4>2, BehindStays
    <3> QED BY <3>1, <3>2
  <2>5. CASE IReadEnds(j)
    <3>1. iread[j] = "read"
      BY <2>2, <2>5 DEF IReadEnds, Listens
    <3>2. UNCHANGED <<c2s, ichunk>> /\ (iread'[k] = "send" <=> iread[k] = "send")
      BY <2>5, <3>1 DEF IReadEnds, TypeOK, ClientTypeOK
    <3> QED BY <1>0, <2>1, <3>2
  <2>6. CASE InternalWriteStep(j) \/ IClose(j)
    <3>1. UNCHANGED <<c2s, ichunk, iread>>
      BY <2>6 DEF InternalWriteStep, IWrite, IWriteEnds, IClose
    <3> QED BY <1>0, <2>1, <3>1
  <2> QED BY <1>6, <2>3, <2>4, <2>5, <2>6 DEF InternalReadStep
<1> QED BY <1>1, <1>2, <1>3, <1>4, <1>5, <1>6 DEF ClientNext, ClientMainStep

-----------------------------------------------------------------------------
(* The inductive invariant behind ReplyComplete. *)
Replying ==
    /\ TypeOK /\ ClientMaps /\ Accepted /\ RouteWhileReading /\ ServiceBytes
    /\ Known /\ Tables /\ Unused /\ Answered

(* Nothing has been answered at the start. *)
LEMMA ReplyingInit == Init => Replying
<1> SUFFICES ASSUME Init PROVE Replying
  OBVIOUS
<1>1. TypeOK /\ ClientMaps
  BY InitType, InitMaps DEF Init
<1>2. Accepted /\ RouteWhileReading
  BY DEF Init, ServerInit, Accepted, RouteWhileReading
<1>3. Elems(<<>>) = {}
  BY DEF Elems
<1>4. ServiceBytes
  BY <1>3 DEF Init, LinkInit, ServerInit, ServiceBytes
<1>5. Known
  BY <1>3, KeyIsPair DEF Init, LinkInit, ClientInit, Known, Pending
<1>6. Tables /\ Unused
  BY DEF Init, ServerInit, ClientInit, Tables, Unused
<1>7. Answered
  BY KeyIsPair DEF Init, ClientInit, Answered, Listens
<1> QED BY <1>1, <1>2, <1>4, <1>5, <1>6, <1>7 DEF Replying

(* Every step of the session keeps it. *)
LEMMA ReplyingStep == Replying /\ [Next]_vars => Replying'
<1> SUFFICES ASSUME Replying, [Next]_vars PROVE Replying'
  OBVIOUS
<1>0. /\ TypeOK /\ ClientMaps /\ Accepted /\ RouteWhileReading /\ ServiceBytes
      /\ Known /\ Tables /\ Unused /\ Answered /\ TypeOK'
  BY NextType DEF Replying
<1>1. CASE ServerNext /\ UNCHANGED clientVars
  <2>1. ClientMaps' /\ Unused'
    BY <1>0, <1>1 DEF ClientMaps, EntryHasReader, ConnectIsVacant, Unused,
                      clientVars, cMainVars, instVars
  <2>2. Accepted' /\ RouteWhileReading'
    BY <1>0, <1>1, RoutesStep DEF TypeOK
  <2>3. ServiceBytes'
    BY <1>0, <1>1, ServiceBytesServer DEF TypeOK
  <2>4. Known' /\ Tables'
    BY <1>0, <1>1, KnownServer, TablesServer DEF TypeOK
  <2>5. \A c \in Key, k \in Inst : Listens(c, k)' => Keeps(c, k)
    BY <1>0, <1>1, AnsweredServer
  <2>6. Answered'
    BY <1>0, <2>5, AnsweredKept
  <2> QED BY <1>0, <2>1, <2>2, <2>3, <2>4, <2>6 DEF Replying
<1>2. CASE ClientNext /\ UNCHANGED serverVars
  <2>1. ClientMaps' /\ Unused'
    BY <1>0, <1>2, MapsStep, UnusedClient DEF TypeOK
  <2>2. Accepted' /\ RouteWhileReading' /\ Tables'
    BY <1>0, <1>2 DEF Accepted, RouteWhileReading, Tables, serverVars, sMainVars, listenVars, extVars
  <2>3. ServiceBytes'
    BY <1>0, <1>2, ServiceBytesClient
  <2>4. Known'
    BY <1>0, <1>2, KnownClient
  <2>5. \A c \in Key, k \in Inst : Listens(c, k)' => Keeps(c, k) \/ Adds(c, k) \/ Starts(c, k)
    BY <1>0, <1>2, AnsweredClient
  <2>6. Answered'
    BY <1>0, <2>5, AnsweredKept
  <2> QED BY <1>0, <2>1, <2>2, <2>3, <2>4, <2>6 DEF Replying
<1>3. CASE (NetworkCut /\ UNCHANGED <<serverVars, clientVars>>) \/ UNCHANGED vars
  <2>1. UNCHANGED <<s2c, c2s, cwriter>> /\ UNCHANGED serverVars /\ UNCHANGED clientVars
    BY <1>3 DEF NetworkCut, vars, linkVars
  <2>2. ClientMaps' /\ Unused'
    BY <1>0, <2>1 DEF ClientMaps, EntryHasReader, ConnectIsVacant, Unused,
                      clientVars, cMainVars, instVars
  <2>3. Accepted' /\ RouteWhileReading' /\ Tables'
    BY <1>0, <2>1 DEF Accepted, RouteWhileReading, Tables, serverVars, sMainVars, listenVars, extVars
  <2>4. ServiceBytes' /\ Known'
    BY <1>0, <2>1 DEF ServiceBytes, Known, Pending, FromConn, clientVars, cMainVars, instVars,
                serverVars, sMainVars, extVars
  <2>5. ASSUME NEW c \in Key, NEW k \in Inst, Listens(c, k)' PROVE Keeps(c, k)
    <3>1. Listens(c, k)
      BY <2>1, <2>5 DEF Listens, clientVars, instVars, serverVars, sMainVars, extVars
    <3>2. UNCHANGED <<eout, to_remote, smain, spend>>
      BY <2>1 DEF serverVars, sMainVars, extVars
    <3>3. Back(c, k)' = Back(c, k) /\ ichunk'[k] = ichunk[k]
      BY <1>0, <2>1, <3>2, BackQuiet, TakenStays
    <3> QED BY <3>1, <3>3 DEF Keeps
  <2>6. Answered'
    BY <1>0, <2>5, AnsweredKept
  <2> QED BY <1>0, <2>2, <2>3, <2>4, <2>6 DEF Replying
<1> QED BY <1>1, <1>2, <1>3 DEF Next

(* Five pieces of a stream, joined from either end.                         *)
LEMMA Regroup ==
  \A a, b, h, l, t \in Seq(Nat) :
    ((a \o b) \o (h \o l)) \o t = a \o (b \o (h \o (l \o t)))
<1> SUFFICES ASSUME NEW a \in Seq(Nat), NEW b \in Seq(Nat), NEW h \in Seq(Nat),
                    NEW l \in Seq(Nat), NEW t \in Seq(Nat)
             PROVE  ((a \o b) \o (h \o l)) \o t = a \o (b \o (h \o (l \o t)))
  OBVIOUS
<1> DEFINE Assoc(x, y, z) == (x \o y) \o z = x \o (y \o z)
           u == a \o b
           v == h \o l
           w == l \o t
           z == h \o w
<1>1. \A x, y, q \in Seq(Nat) : Assoc(x, y, q)
  BY Joined, Zenon
<1>2. u \in Seq(Nat) /\ v \in Seq(Nat) /\ w \in Seq(Nat) /\ z \in Seq(Nat)
  OBVIOUS
<1> HIDE DEF Assoc, u, v, w, z
<1>3. Assoc(h, l, t) /\ Assoc(a, b, z) /\ Assoc(u, v, t)
  BY <1>1, <1>2
<1>4. v \o t = z
  BY <1>3, Zenon DEF Assoc, v, w, z
<1>5. u \o z = a \o (b \o z)
  BY <1>3, Zenon DEF Assoc, u
<1>6. (u \o v) \o t = u \o (v \o t)
  BY <1>3, Zenon DEF Assoc
<1> QED BY <1>4, <1>5, <1>6, Zenon DEF u, v, w, z

(* The stream of ReplyComplete is what the invariant speaks of. *)
LEMMA StreamIsBack ==
    ASSUME TypeOK, NEW c \in Key, NEW k \in Inst
    PROVE  Numbers(Filter(eout[c] \o to_remote[c] \o DataOf(c, Held(spend, smain = "route") \o c2s),
                          {d \in Payload : d.inst = k}))
              \o (IF iread[k] = "send" THEN <<ichunk[k]>> ELSE <<>>)
           = Back(c, k)
<1> DEFINE o == eout[c]
           q == to_remote[c]
           p == Held(spend, smain = "route")
           d == DataOf(c, p \o c2s)
           a == Part(k, o)
           b == Part(k, q)
           h == Routed(c, k)
           l == Answers(c, k, c2s)
           t == Taken(k)
<1>1. o \in Seq(Payload) /\ q \in Seq(Payload) /\ c2s \in Seq(Frame)
  BY DEF TypeOK, LinkTypeOK, ServerTypeOK
<1>2. p \in Seq(Frame)
  <2>1. smain = "route" => spend \in Frame
    BY DEF TypeOK, ServerTypeOK, Frame
  <2>2. <<>> \in Seq(Frame) /\ \A f \in Frame : <<f>> \in Seq(Frame)
    OBVIOUS
  <2> QED BY <2>1, <2>2, Zenon DEF Held
<1>3. Answers(c, k, p) = h
  BY Zenon DEF Routed
<1> HIDE DEF p
<1>4. p \o c2s \in Seq(Frame)
  BY <1>1, <1>2
<1>5. d \in Seq(Payload) /\ Part(k, d) = h \o l
  <2>1. d \in Seq(Payload)
    BY <1>4, DataOfQueues, Zenon
  <2>2. \A u, v \in Seq(Frame) : Answers(c, k, u \o v) = Answers(c, k, u) \o Answers(c, k, v)
    BY AnswersOf, Zenon
  <2>3. Answers(c, k, p \o c2s) = Answers(c, k, p) \o l
    BY <1>1, <1>2, <2>2, Zenon
  <2> QED BY <1>3, <2>1, <2>3, Zenon DEF Answers
<1> HIDE DEF o, q, d
<1>6. o \o q \in Seq(Payload)
  BY <1>1
<1>7. Part(k, (o \o q) \o d) = (a \o b) \o (h \o l)
  <2>1. \A u, v \in Seq(Payload) : Part(k, u \o v) = Part(k, u) \o Part(k, v)
    BY PartOf, Zenon
  <2>2. Part(k, (o \o q) \o d) = Part(k, o \o q) \o Part(k, d)
    <3> DEFINE r == o \o q
    <3>1. r \in Seq(Payload) /\ d \in Seq(Payload)
      BY <1>5, <1>6, Zenon
    <3> HIDE DEF r
    <3>2. Part(k, r \o d) = Part(k, r) \o Part(k, d)
      BY <2>1, <3>1, Zenon
    <3> QED BY <3>2, Zenon DEF r
  <2>3. Part(k, o \o q) = a \o b
    BY <1>1, <2>1, Zenon
  <2> QED BY <1>5, <2>2, <2>3, Zenon
<1>8. a \in Seq(Nat) /\ b \in Seq(Nat) /\ h \in Seq(Nat) /\ l \in Seq(Nat) /\ t \in Seq(Nat)
  BY BackType, Zenon DEF BackTyped, o, q
<1>9. Back(c, k) = a \o (b \o (h \o (l \o t)))
  BY Zenon DEF Back, Behind, o, q
<1>10. Part(k, (o \o q) \o d) \o t = ((a \o b) \o (h \o l)) \o t
  BY <1>7, Zenon
<1> HIDE DEF a, b, h, l, t
<1>11. ((a \o b) \o (h \o l)) \o t = a \o (b \o (h \o (l \o t)))
  <2> DEFINE Same(x, y, u, v, w) ==
               ((x \o y) \o (u \o v)) \o w = x \o (y \o (u \o (v \o w)))
  <2>1. \A x, y, u, v, w \in Seq(Nat) : Same(x, y, u, v, w)
    BY Regroup, Zenon
  <2> HIDE DEF Same
  <2>2. Same(a, b, h, l, t)
    BY <1>8, <2>1
  <2> QED BY <2>2, Zenon DEF Same
<1>12. Part(k, (o \o q) \o d) \o t = Back(c, k)
  BY <1>9, <1>10, <1>11, Zenon
<1> QED BY <1>12, Zenon DEF Part, OfInst, o, q, d, p, t, Taken

(* While the user of a key is connected and the session is up, every       *)
(* answer taken from a service for it is with the user or on its way, once *)
(* and in order: the main loop never lacks a route for it, although it     *)
(* caches the table of the last proxy and sends after it has left the map. *)
THEOREM AnswersAll == Spec => []ReplyComplete
<1>1. Replying => ReplyComplete
  <2> SUFFICES ASSUME Replying, NEW c \in Key, NEW k \in Inst, ikey[k] = c,
                      eread[c] \in {"wait", "read", "send"}, ~eclosed[c],
                      smain # "ended", cwriter = "run"
               PROVE  Numbers(Filter(eout[c] \o to_remote[c]
                                        \o DataOf(c, Held(spend, smain = "route") \o c2s),
                                     {d \in Payload : d.inst = k}))
                         \o (IF iread[k] = "send" THEN <<ichunk[k]>> ELSE <<>>)
                      = [i \in 1..ichunk[k] |-> i]
    BY Zenon DEF ReplyComplete
  <2>1. TypeOK /\ Answered
    BY DEF Replying
  <2>2. Back(c, k) = UpTo(ichunk[k])
    BY <2>1, Zenon DEF Answered, Listens, Live
  <2> QED BY <2>1, <2>2, StreamIsBack, Zenon DEF UpTo
<1> QED BY <1>1, ReplyingInit, ReplyingStep, PTL DEF Spec
=============================================================================
