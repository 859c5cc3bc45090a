-------------------------- MODULE ServerOpenProofs --------------------------
(***************************************************************************)
(* The server session against any authenticated peer, for every bound and  *)
(* every set of faults: routes and their users, who is sent whose data,    *)
(* and the account of the registrations.                                   *)
(***************************************************************************)
EXTENDS ServerOpen, SessionProofs, FiniteSetTheorems, FunctionTheorems

(* The part of TypeOK that does not depend on the account of the answers. *)
OpenTypeOK ==
    /\ LinkTypeOK /\ ServerTypeOK
    /\ sent \in 0..MaxFrames /\ asked \in 0..sent /\ answered \in Nat

(* On its whole way through the server a chunk stays with the key its      *)
(* frame names.                                                            *)
Addressed ==
    /\ \A i \in DOMAIN c2s : c2s[i].type = "Data" => c2s[i].data.key = c2s[i].key
    /\ smain = "route" => spend.data.key = spend.key
    /\ \A c \in Key : \A i \in DOMAIN to_remote[c] : to_remote[c][i].key = c

(* Tasks that still have to answer their registration. *)
Answering == {p \in ProxyId : listener[p] \in {"spawned", "ack", "reject"}}

Owed == Cardinality(Answering) + (IF smain = "reply" THEN 1 ELSE 0)

(* The registrations taken from the link less those answered, those whose  *)
(* answer is under way and those a task still has to answer.               *)
Surplus ==
    asked - Count(c2s, "Register") - (answered + Count(s2c, "RegisterAck") + Owed)

SessionUp == smain # "ended" /\ swriter = "run"

(* No answer is sent for a registration that was not made, also once the   *)
(* session is going down; while it is up no registration goes unanswered.  *)
Balance ==
    /\ \A p \in ProxyId : p >= next_proxy_id => listener[p] = "none"
    /\ Surplus >= 0
    /\ SessionUp => Surplus = 0

(* The inductive invariant of the server session. *)
ServerInv ==
    /\ OpenTypeOK
    /\ Accepted /\ RouteWhileReading
    /\ Addressed /\ RoutedToOwner
    /\ Balance

-----------------------------------------------------------------------------
(* How many frames of a kind a queue holds.                                *)

(* A count is a number, and that of an empty queue is zero. *)
LEMMA CountType ==
    ASSUME NEW q \in Seq(Frame), NEW type
    PROVE  /\ Count(q, type) \in Nat
           /\ IsFiniteSet({i \in DOMAIN q : q[i].type = type})
           /\ q = <<>> => Count(q, type) = 0
<1> DEFINE S == {i \in DOMAIN q : q[i].type = type}
<1>1. DOMAIN q = 1..Len(q) /\ Len(q) \in Nat
  OBVIOUS
<1>2. IsFiniteSet(DOMAIN q)
  BY <1>1, FS_Interval
<1>3. IsFiniteSet(S)
  BY <1>2, FS_Subset
<1>4. q = <<>> => S = {}
  OBVIOUS
<1> QED BY <1>3, <1>4, FS_CardinalityType, FS_EmptySet DEF Count

(* A frame put into a queue is counted if it is of the kind. *)
LEMMA CountAppend ==
    ASSUME NEW q \in Seq(Frame), NEW f \in Frame, NEW type
    PROVE  Count(Append(q, f), type) = Count(q, type) + (IF f.type = type THEN 1 ELSE 0)
<1> DEFINE S == {i \in DOMAIN q : q[i].type = type}
           r == Append(q, f)
           T == {i \in DOMAIN r : r[i].type = type}
           n == Len(q) + 1
<1>1. /\ DOMAIN q = 1..Len(q) /\ DOMAIN r = 1..n /\ Len(q) \in Nat
      /\ r[n] = f /\ \A i \in 1..Len(q) : r[i] = q[i]
  OBVIOUS
<1>2. IsFiniteSet(S)
  BY CountType
<1>2a. n \notin S
  BY <1>1
<1>3. T = IF f.type = type THEN S \cup {n} ELSE S
  <2>1. \A i : i \in T <=> i \in S \/ (i = n /\ f.type = type)
    BY <1>1
  <2> HIDE DEF S, T, n
  <2> QED BY <2>1
<1>4. Cardinality(S \cup {n}) = Cardinality(S) + 1
  BY <1>2, <1>2a, FS_AddElement
<1>5. Cardinality(S) \in Nat
  BY <1>2, FS_CardinalityType
<1>6. Count(q, type) = Cardinality(S) /\ Count(r, type) = Cardinality(T)
  BY DEF Count
<1> HIDE DEF S, T, n, r
<1>7. Count(r, type) = Count(q, type) + (IF f.type = type THEN 1 ELSE 0)
  BY <1>3, <1>4, <1>5, <1>6
<1> QED BY <1>7 DEF r

(* A frame taken from a queue was counted if it is of the kind. *)
LEMMA CountTail ==
    ASSUME NEW q \in Seq(Frame), q # <<>>, NEW type
    PROVE  Count(Tail(q), type) = Count(q, type) - (IF Head(q).type = type THEN 1 ELSE 0)
<1> DEFINE S == {i \in DOMAIN q : q[i].type = type}
           r == Tail(q)
           T == {i \in DOMAIN r : r[i].type = type}
           F == [i \in T |-> i + 1]
<1>1. /\ DOMAIN q = 1..Len(q) /\ Len(q) \in Nat \ {0}
      /\ DOMAIN r = 1..(Len(q) - 1) /\ \A i \in DOMAIN r : r[i] = q[i + 1]
      /\ Head(q) = q[1] /\ r \in Seq(Frame)
  OBVIOUS
<1>2. IsFiniteSet(S) /\ IsFiniteSet(T)
  BY <1>1, CountType
<1>3. F \in [T -> S \ {1}] /\ \A a, b \in T : F[a] = F[b] => a = b
  BY <1>1
<1>4. \A s \in S \ {1} : \E i \in T : F[i] = s
  <2> SUFFICES ASSUME NEW s \in S \ {1} PROVE \E i \in T : F[i] = s
    OBVIOUS
  <2>1. s - 1 \in T
    BY <1>1
  <2> QED BY <2>1, <1>1
<1>5. F \in Bijection(T, S \ {1})
  <2> DEFINE U == S \ {1}
  <2>1. /\ F \in [T -> U] /\ \A a, b \in T : F[a] = F[b] => a = b
        /\ \A s \in U : \E i \in T : F[i] = s
    BY <1>3, <1>4
  <2> HIDE DEF T, F, U
  <2>2. F \in Bijection(T, U)
    BY <2>1, Fun_IsBij
  <2> QED BY <2>2 DEF U
<1>6. Cardinality(S \ {1}) = Cardinality(T)
  <2> DEFINE U == S \ {1}
  <2>1. ExistsBijection(T, U)
    BY <1>5, Zenon DEF ExistsBijection
  <2> HIDE DEF T, U
  <2>2. Cardinality(U) = Cardinality(T)
    BY <1>2, <2>1, FS_Bijection
  <2> QED BY <2>2 DEF U
<1>7. Cardinality(S \ {1}) = IF 1 \in S THEN Cardinality(S) - 1 ELSE Cardinality(S)
  BY <1>2, FS_RemoveElement
<1>8. 1 \in S <=> Head(q).type = type
  BY <1>1
<1>9. Cardinality(S) \in Nat
  BY <1>2, FS_CardinalityType
<1>10. Count(q, type) = Cardinality(S) /\ Count(r, type) = Cardinality(T)
  BY DEF Count
<1> HIDE DEF S, T, r
<1>11. Count(r, type) = Count(q, type) - (IF Head(q).type = type THEN 1 ELSE 0)
  BY <1>6, <1>7, <1>8, <1>9, <1>10
<1> QED BY <1>11 DEF r

-----------------------------------------------------------------------------
(* Types and the start.                                                    *)

(* Nothing is running, queued or counted at the start. *)
LEMMA InitServerInv == Init => ServerInv
<1> SUFFICES ASSUME Init PROVE ServerInv
  OBVIOUS
<1> USE FramesAssumption, LinkAssumption, ServerOpenAssumption
<1>1. LinkTypeOK
  <2>1. sreader \in BOOLEAN /\ creader \in BOOLEAN /\ cut \in BOOLEAN
    BY Zenon DEF Init, LinkInit
  <2>2. /\ s2c \in Seq(Frame) /\ Len(s2c) <= LinkCap
        /\ c2s \in Seq(Frame) /\ Len(c2s) <= LinkCap
        /\ swriter = "run" /\ cwriter = "run"
    BY SMT DEF Init, LinkInit
  <2> QED BY <2>1, <2>2 DEF LinkTypeOK
<1>2. OpenTypeOK
  BY <1>1 DEF Init, ServerInit, ServerTypeOK, OpenTypeOK
<1>3. Accepted /\ RouteWhileReading
  BY DEF Init, ServerInit, Accepted, RouteWhileReading
<1>4. Addressed /\ RoutedToOwner
  BY DEF Init, ServerInit, LinkInit, Addressed, RoutedToOwner
<1>5. Balance
  <2>1. Count(c2s, "Register") = 0 /\ Count(s2c, "RegisterAck") = 0
    BY <1>1, CountType DEF Init, LinkInit, LinkTypeOK
  <2>2. Answering = {}
    BY DEF Init, ServerInit, Answering
  <2>3. Owed = 0
    BY <2>2, FS_EmptySet DEF Owed, Init, ServerInit
  <2> QED BY <2>1, <2>3 DEF Balance, Surplus, Init, ServerInit
<1> QED BY <1>2, <1>3, <1>4, <1>5 DEF ServerInv

(* What a peer may send are frames, each Data frame with the key of its    *)
(* payload.                                                                *)
LEMMA PeerFramesType ==
    ASSUME NEW f \in PeerFrames
    PROVE  f \in Frame /\ (f.type = "Data" => f.data.key = f.key)
<1> USE FramesAssumption
<1>1. CASE \E d \in Payload : f = new_data_frame(d, d.key)
  <2>1. PICK d \in Payload : f = new_data_frame(d, d.key)
    BY <1>1
  <2>2. d.key \in Key
    BY DEF Payload
  <2> QED BY <2>1, <2>2, ConstructorsType DEF new_data_frame
<1>2. CASE f = new_reg_ack_frame(1, TRUE, 0)
  <2>1. 1 \in Entry /\ TRUE \in BOOLEAN
    BY DEF Entry
  <2>2. f \in Frame
    BY <1>2, <2>1, ZeroProxy, ConstructorsType
  <2>3. f.type = "RegisterAck"
    BY <1>2 DEF new_reg_ack_frame
  <2> QED BY <2>2, <2>3
<1>3. CASE f \in RegisterFrames \cup ControlFrames \cup {Undecodable}
  BY <1>3 DEF Frame, RegisterFrames, ControlFrames, Undecodable
<1> QED BY <1>1, <1>2, <1>3 DEF PeerFrames

-----------------------------------------------------------------------------
(* Addresses.                                                              *)

(* The conjunct of Addressed about the link. *)
QueueAddressed(q) == \A i \in DOMAIN q : q[i].type = "Data" => q[i].data.key = q[i].key

(* Reading a queue or putting an addressed frame into it keeps it addressed. *)
LEMMA QueueOps ==
    ASSUME NEW q \in Seq(Frame), QueueAddressed(q)
    PROVE  /\ q # <<>> => QueueAddressed(Tail(q))
           /\ q # <<>> /\ Head(q).type = "Data" => Head(q).data.key = Head(q).key
           /\ \A f \in Frame : (f.type = "Data" => f.data.key = f.key)
                                => QueueAddressed(Append(q, f))
<1>1. q # <<>> => /\ 1 \in DOMAIN q /\ Head(q) = q[1]
                  /\ \A i \in DOMAIN Tail(q) : i + 1 \in DOMAIN q /\ Tail(q)[i] = q[i + 1]
  OBVIOUS
<1>2. \A f \in Frame : \A i \in DOMAIN Append(q, f) :
          \/ i \in DOMAIN q /\ Append(q, f)[i] = q[i]
          \/ Append(q, f)[i] = f
  OBVIOUS
<1> QED BY <1>1, <1>2 DEF QueueAddressed

(* What most steps do about addresses: at most they read the link. *)
QuietAddresses ==
    /\ c2s' = c2s \/ (c2s # <<>> /\ c2s' = Tail(c2s))
    /\ smain' = "route" => smain = "route" /\ spend' = spend
    /\ UNCHANGED <<to_remote, eout>>

(* Such a step keeps every chunk with its key. *)
LEMMA AddressesQuiet ==
    ASSUME LinkTypeOK, Addressed, RoutedToOwner, QuietAddresses
    PROVE  Addressed' /\ RoutedToOwner'
<1>1. QueueAddressed(c2s')
  BY QueueOps DEF QuietAddresses, Addressed, QueueAddressed, LinkTypeOK
<1> QED BY <1>1 DEF QuietAddresses, Addressed, QueueAddressed, RoutedToOwner

(* The steps that move no chunk inside the server. *)
LEMMA QuietAddressSteps ==
    ASSUME \/ SRegister \/ SRegisterOverLimit \/ SPing \/ SIgnore
           \/ SRouteError \/ SSend \/ SStop \/ ServerWriterStep
           \/ \E p \in ProxyId : ListenerStep(p) \/ LAccept(p)
           \/ \E c \in Key : ExternalReadStep(c) \/ ERead(c) \/ EClose(c)
    PROVE  QuietAddresses
<1> USE DEF QuietAddresses, linkVars, sMainVars, listenVars, extVars, serverVars
<1>1. CASE SRegister \/ SRegisterOverLimit \/ SPing \/ SIgnore
  BY <1>1 DEF SRegister, SRegisterOverLimit, SPing, SIgnore, ServerReads
<1>2. CASE SRouteError \/ SSend \/ SStop
  BY <1>2 DEF SRouteError, SSend, SStop, ToClient
<1>3. CASE ServerWriterStep
  BY <1>3 DEF ServerWriterStep, SWriterEnds, SWriterFails, ServerWriteFails
<1>4. CASE \E p \in ProxyId : ListenerStep(p) \/ LAccept(p)
  <2>1. PICK p \in ProxyId : ListenerStep(p) \/ LAccept(p)
    BY <1>4
  <2>2. CASE LBind(p) \/ LBindFails(p) \/ LPermit(p) \/ LAbort(p) \/ LAccept(p)
    BY <2>2 DEF LAccept, LBind, LBindFails, LPermit, LAbort
  <2>3. CASE LAck(p) \/ LReject(p)
    BY <2>3 DEF LAck, LReject, ToClient
  <2> QED BY <2>1, <2>2, <2>3 DEF ListenerStep
<1>5. CASE \E c \in Key : ExternalReadStep(c) \/ ERead(c) \/ EClose(c)
  BY <1>5 DEF ExternalReadStep, ERead, EClose, ESend, EReadEnds, ToClient
<1> QED BY <1>1, <1>2, <1>3, <1>4, <1>5

(* The lookup of a Data frame: whichever proxy's table is cached, the key  *)
(* the chunk is routed to is the key of the frame.                         *)
LEMMA AddressesData ==
    ASSUME LinkTypeOK, ServerTypeOK, Addressed, RoutedToOwner, SData
    PROVE  Addressed' /\ RoutedToOwner'
<1> DEFINE f == Head(c2s)
           table == RoutingTable(f.key[1])
<1> USE DEF extVars
<1>1. c2s # <<>> /\ c2s' = Tail(c2s) /\ f.type = "Data" /\ f \in DataFrames
  BY LinkOps, FrameKinds DEF SData, ServerReads
<1>2. f.data.key = f.key /\ QueueAddressed(c2s')
  BY <1>1, QueueOps DEF Addressed, QueueAddressed, LinkTypeOK
<1>3. f.key \in Key /\ f.key = <<f.key[1], f.key[2]>>
  BY <1>1 DEF DataFrames, Key
<1>4. table # NoProxy => table = f.key[1]
  BY DEF RoutingTable
<1>5. \/ UNCHANGED <<smain, spend>>
      \/ table # NoProxy /\ spend' = new_data_frame(f.data, <<table, f.key[2]>>)
  BY DEF SData
<1>6. smain = "read" /\ UNCHANGED <<to_remote, eout>>
  BY DEF SData
<1> HIDE DEF table, f
<1>7. smain' = "route" => spend'.data.key = spend'.key
  BY <1>2, <1>3, <1>4, <1>5, <1>6 DEF new_data_frame
<1> QED BY <1>2, <1>6, <1>7 DEF Addressed, QueueAddressed, RoutedToOwner

(* A chunk moves from the main loop's hand to the channel of its key. *)
LEMMA AddressesRoute ==
    ASSUME ServerTypeOK, Addressed, RoutedToOwner, SRoute
    PROVE  Addressed' /\ RoutedToOwner'
<1> DEFINE d == spend.key
<1>1. d \in Key /\ spend.data \in Payload /\ spend.data.key = d
  BY DEF SRoute, ServerTypeOK, DataFrames, Addressed
<1>2. /\ to_remote' = [to_remote EXCEPT ![d] = Append(to_remote[d], spend.data)]
      /\ smain' = "read" /\ UNCHANGED <<eout, c2s>>
  BY DEF SRoute, linkVars
<1>3. \A i \in DOMAIN Append(to_remote[d], spend.data) :
          Append(to_remote[d], spend.data)[i].key = d
  <2>1. to_remote[d] \in Seq(Payload)
    BY <1>1 DEF ServerTypeOK
  <2>2. \A i \in DOMAIN Append(to_remote[d], spend.data) :
            \/ i \in DOMAIN to_remote[d] /\ Append(to_remote[d], spend.data)[i] = to_remote[d][i]
            \/ Append(to_remote[d], spend.data)[i] = spend.data
    BY <1>1, <2>1
  <2> QED BY <1>1, <2>2 DEF Addressed
<1> HIDE DEF d
<1>4. \A c \in Key : \A i \in DOMAIN to_remote'[c] : to_remote'[c][i].key = c
  BY <1>1, <1>2, <1>3 DEF Addressed, ServerTypeOK
<1> QED BY <1>2, <1>4 DEF Addressed, RoutedToOwner

(* A chunk moves from the channel of its key to the user of its key. *)
LEMMA AddressesWrite ==
    ASSUME ServerTypeOK, Addressed, RoutedToOwner, NEW c \in Key, ExternalWriteStep(c)
    PROVE  Addressed' /\ RoutedToOwner'
<1> USE DEF sMainVars, linkVars
<1>0. UNCHANGED <<c2s, smain, spend>>
  BY DEF ExternalWriteStep, EWrite, EWriteEnds
<1>1. CASE EWrite(c)
  <2> DEFINE q == to_remote[c]
             x == Head(q)
  <2>1. /\ q \in Seq(Payload) /\ q # <<>> /\ eout[c] \in Seq(Payload)
        /\ eout' = [eout EXCEPT ![c] = Append(eout[c], x)]
        /\ to_remote' = [to_remote EXCEPT ![c] = Tail(q)]
    BY <1>1 DEF EWrite, ServerTypeOK
  <2>2. /\ 1 \in DOMAIN q /\ x = q[1] /\ x \in Payload
        /\ \A i \in DOMAIN Tail(q) : i + 1 \in DOMAIN q /\ Tail(q)[i] = q[i + 1]
    BY <2>1
  <2>3. x.key = c /\ \A i \in DOMAIN Tail(q) : Tail(q)[i].key = c
    BY <2>2 DEF Addressed
  <2>4. \A i \in DOMAIN Append(eout[c], x) :
            \/ i \in DOMAIN eout[c] /\ Append(eout[c], x)[i] = eout[c][i]
            \/ Append(eout[c], x)[i] = x
    BY <2>1, <2>2
  <2>5. \A i \in DOMAIN Append(eout[c], x) : Append(eout[c], x)[i].key = c
    BY <2>3, <2>4 DEF RoutedToOwner
  <2> HIDE DEF q, x
  <2>6. \A d \in Key : \A i \in DOMAIN to_remote'[d] : to_remote'[d][i].key = d
    BY <2>1, <2>3 DEF Addressed, ServerTypeOK
  <2>7. RoutedToOwner'
    BY <2>1, <2>5 DEF RoutedToOwner, ServerTypeOK
  <2> QED BY <1>0, <2>6, <2>7 DEF Addressed
<1>2. CASE EWriteEnds(c)
  BY <1>0, <1>2 DEF EWriteEnds, Addressed, RoutedToOwner, ServerTypeOK
<1> QED BY <1>1, <1>2 DEF ExternalWriteStep

-----------------------------------------------------------------------------
(* The account of the registrations.                                       *)

AnswerDue == {"spawned", "ack", "reject"}

(* The tasks that owe an answer are finitely many. *)
LEMMA AnsweringFinite == IsFiniteSet(Answering) /\ Cardinality(Answering) \in Nat
<1>1. IsFiniteSet(ProxyId)
  BY FramesAssumption, FS_Interval DEF ProxyId
<1>2. IsFiniteSet(Answering)
  BY <1>1, FS_Subset DEF Answering
<1> QED BY <1>2, FS_CardinalityType

(* One task changes its state. *)
LEMMA AnsweringChanges ==
    ASSUME ServerTypeOK, NEW p \in ProxyId, NEW s, listener' = [listener EXCEPT ![p] = s]
    PROVE  Cardinality(Answering') = Cardinality(Answering)
               + (IF s \in AnswerDue THEN 1 ELSE 0)
               - (IF listener[p] \in AnswerDue THEN 1 ELSE 0)
<1> DEFINE A == Answering
           B == Answering'
<1>1. /\ \A q \in ProxyId \ {p} : listener'[q] = listener[q]
      /\ listener'[p] = s
  BY DEF ServerTypeOK
<1>2. \A q : q \in B <=> IF q = p THEN s \in AnswerDue ELSE q \in A
  BY <1>1 DEF Answering, AnswerDue
<1>3. p \in A <=> listener[p] \in AnswerDue
  BY DEF Answering, AnswerDue
<1>4. IsFiniteSet(A) /\ Cardinality(A) \in Nat
  BY AnsweringFinite
<1> HIDE DEF A, B
<1>5. B = IF s \in AnswerDue THEN A \cup {p} ELSE A \ {p}
  BY <1>2
<1>6. Cardinality(A \cup {p}) = IF p \in A THEN Cardinality(A) ELSE Cardinality(A) + 1
  BY <1>4, FS_AddElement
<1>7. Cardinality(A \ {p}) = IF p \in A THEN Cardinality(A) - 1 ELSE Cardinality(A)
  BY <1>4, FS_RemoveElement
<1>8. Cardinality(B) = Cardinality(A) + (IF s \in AnswerDue THEN 1 ELSE 0)
                                       - (IF listener[p] \in AnswerDue THEN 1 ELSE 0)
  BY <1>3, <1>4, <1>5, <1>6, <1>7
<1> QED BY <1>8 DEF A, B

(* What every step of the server does to the account. *)
Accounted ==
    /\ \A p \in ProxyId : p >= next_proxy_id' => listener'[p] = "none"
    /\ Surplus' >= Surplus
    /\ SessionUp' => SessionUp /\ Surplus' = Surplus

(* The numbers of the account. *)
LEMMA AccountTypes ==
    ASSUME OpenTypeOK
    PROVE  /\ Count(c2s, "Register") \in Nat /\ Count(s2c, "RegisterAck") \in Nat
           /\ Cardinality(Answering) \in Nat
           /\ asked \in Nat /\ answered \in Nat
           /\ Owed \in Nat /\ Surplus \in Int
<1>1. Count(c2s, "Register") \in Nat /\ Count(s2c, "RegisterAck") \in Nat
  BY CountType DEF OpenTypeOK, LinkTypeOK
<1>2. asked \in Nat /\ answered \in Nat
  BY ServerOpenAssumption DEF OpenTypeOK
<1> QED BY <1>1, <1>2, AnsweringFinite DEF Owed, Surplus

(* The balance is a number in every well-typed state. *)
LEMMA SurplusType == OpenTypeOK => Surplus \in Int
  BY AccountTypes

(* A frame of the server that is put into the link. *)
LEMMA SentCount ==
    ASSUME LinkTypeOK, NEW f \in Frame, ToClient(f)
    PROVE  /\ Count(s2c', "RegisterAck") = Count(s2c, "RegisterAck")
                                           + (IF f.type = "RegisterAck" THEN 1 ELSE 0)
           /\ swriter = "run" /\ UNCHANGED <<c2s, swriter>>
  BY CountAppend DEF ToClient, LinkTypeOK

(* A frame of the peer that is taken from the link. *)
LEMMA ReadCount ==
    ASSUME LinkTypeOK, NEW t, ServerReads(t)
    PROVE  /\ Count(c2s', "Register") = Count(c2s, "Register") - (IF t = "Register" THEN 1 ELSE 0)
           /\ UNCHANGED <<s2c, swriter>>
  BY CountTail DEF ServerReads, LinkTypeOK

(* The main loop answers a registration above the limit itself and leaves  *)
(* every other to the task it spawns; nothing else touches the account.    *)
LEMMA AccountMain ==
    ASSUME OpenTypeOK, Balance, MainLoopStep \/ ServerWriterStep, UNCHANGED openVars
    PROVE  Accounted
<1> USE DEF sMainVars, listenVars, serverVars, openVars, Accounted, SessionUp
<1>0. LinkTypeOK /\ ServerTypeOK /\ UNCHANGED <<asked, answered>>
  BY DEF OpenTypeOK
<1>a. /\ Count(c2s, "Register") \in Nat /\ Count(s2c, "RegisterAck") \in Nat
      /\ Cardinality(Answering) \in Nat
      /\ asked \in Nat /\ answered \in Nat /\ Surplus \in Int
  BY AccountTypes
<1>b. \A p \in ProxyId : p >= next_proxy_id => listener[p] = "none"
  BY DEF Balance
<1>1. CASE SRegister
  <2>1. next_proxy_id \in ProxyId /\ listener[next_proxy_id] = "none" /\ next_proxy_id \in Nat
    BY <1>0, <1>b, <1>1, FramesAssumption DEF SRegister, ProxyId, ServerTypeOK
  <2>2. Cardinality(Answering') = Cardinality(Answering) + 1
    <3>1. listener' = [listener EXCEPT ![next_proxy_id] = "spawned"]
      BY <1>1 DEF SRegister
    <3>2. "spawned" \in AnswerDue /\ listener[next_proxy_id] \notin AnswerDue
      BY <2>1 DEF AnswerDue
    <3>3. Cardinality(Answering') = Cardinality(Answering)
               + (IF "spawned" \in AnswerDue THEN 1 ELSE 0)
               - (IF listener[next_proxy_id] \in AnswerDue THEN 1 ELSE 0)
      BY <1>0, <2>1, <3>1, AnsweringChanges
    <3> QED BY <1>a, <3>2, <3>3
  <2>3. Count(c2s', "Register") = Count(c2s, "Register") - 1 /\ UNCHANGED <<s2c, swriter>>
    BY <1>0, <1>1, ReadCount DEF SRegister
  <2>4. Surplus' = Surplus
    BY <1>0, <1>a, <1>1, <2>2, <2>3 DEF SRegister, Surplus, Owed
  <2>5. \A p \in ProxyId : p >= next_proxy_id' => listener'[p] = "none"
    BY <1>0, <1>b, <1>1, <2>1, FramesAssumption DEF SRegister, ServerTypeOK, ProxyId
  <2> QED BY <1>a, <1>1, <2>3, <2>4, <2>5 DEF SRegister
<1>2. CASE SRegisterOverLimit
  <2>1. Count(c2s', "Register") = Count(c2s, "Register") - 1 /\ UNCHANGED <<s2c, swriter>>
    BY <1>0, <1>2, ReadCount DEF SRegisterOverLimit
  <2>2. Answering' = Answering
    BY <1>2 DEF SRegisterOverLimit, Answering
  <2>3. Surplus' = Surplus
    BY <1>0, <1>a, <1>2, <2>1, <2>2 DEF SRegisterOverLimit, Surplus, Owed
  <2> QED BY <1>a, <1>b, <1>2, <2>1, <2>3 DEF SRegisterOverLimit
<1>3. CASE SPing \/ SIgnore \/ SData
  <2>1. Count(c2s', "Register") = Count(c2s, "Register") /\ UNCHANGED <<s2c, swriter>>
    <3>1. ServerReads("Control") \/ ServerReads("RegisterAck") \/ ServerReads("Data")
      BY <1>3 DEF SPing, SIgnore, SData
    <3>2. ASSUME NEW t \in {"Control", "RegisterAck", "Data"}, ServerReads(t)
          PROVE  Count(c2s', "Register") = Count(c2s, "Register") /\ UNCHANGED <<s2c, swriter>>
      BY <1>0, <1>a, <3>2, ReadCount
    <3> QED BY <3>1, <3>2
  <2>2. Answering' = Answering /\ UNCHANGED <<next_proxy_id, listener>>
    BY <1>3 DEF SPing, SIgnore, SData, Answering
  <2>3. smain = "read" /\ smain' \in {"read", "pong", "route"}
    BY <1>3 DEF SPing, SIgnore, SData
  <2>4. Surplus' = Surplus
    BY <1>0, <1>a, <2>1, <2>2, <2>3 DEF Surplus, Owed
  <2> QED BY <1>a, <1>b, <2>1, <2>2, <2>3, <2>4
<1>4. CASE SRoute \/ SRouteError \/ SStop
  <2>1. UNCHANGED <<s2c, c2s, swriter, next_proxy_id, listener>>
    BY <1>4 DEF SRoute, SRouteError, SStop, linkVars
  <2>2. smain \in {"read", "pong", "route"} /\ smain' \in {"read", "ended"}
    BY <1>4 DEF SRoute, SRouteError, SStop, LoopLeft
  <2>3. Answering' = Answering
    BY <2>1 DEF Answering
  <2>4. Surplus' = Surplus
    BY <1>0, <1>a, <2>1, <2>2, <2>3 DEF Surplus, Owed
  <2> QED BY <1>a, <1>b, <2>1, <2>2, <2>4
<1>5. CASE SSend
  <2>1. /\ smain \in {"reply", "pong"} /\ smain' = "read"
        /\ UNCHANGED <<next_proxy_id, listener>>
    BY <1>5 DEF SSend
  <2>2. Answering' = Answering
    BY <2>1 DEF Answering
  <2>3. CASE ToClient(spend)
    <3>1. /\ smain = "reply" => spend \in RegisterAckFrames
          /\ smain = "pong" => spend \in ControlFrames
      BY <1>0 DEF ServerTypeOK
    <3>2. spend \in Frame /\ (smain = "reply" <=> spend.type = "RegisterAck")
      BY <2>1, <3>1 DEF Frame, RegisterAckFrames, ControlFrames
    <3>3. /\ Count(s2c', "RegisterAck") = Count(s2c, "RegisterAck")
                                           + (IF smain = "reply" THEN 1 ELSE 0)
          /\ swriter = "run" /\ UNCHANGED <<c2s, swriter>>
      BY <1>0, <2>3, <3>2, SentCount
    <3>4. Surplus' = Surplus
      BY <1>0, <1>a, <2>1, <2>2, <3>3 DEF Surplus, Owed
    <3> QED BY <1>a, <1>b, <2>1, <3>3, <3>4
  <2>4. CASE smain = "reply" /\ swriter = "done" /\ UNCHANGED linkVars
    <3>1. UNCHANGED <<s2c, c2s, swriter>>
      BY <2>4 DEF linkVars
    <3>2. Surplus' = Surplus + 1
      BY <1>0, <1>a, <2>1, <2>2, <2>4, <3>1 DEF Surplus, Owed
    <3> QED BY <1>a, <1>b, <2>1, <2>4, <3>1, <3>2
  <2> QED BY <1>5, <2>3, <2>4 DEF SSend
<1>6. CASE SWriterEnds \/ SWriterFails
  <2>1. /\ UNCHANGED <<c2s, smain, next_proxy_id, listener>>
        /\ s2c' = s2c \/ s2c' = <<>>
        /\ swriter' = "done"
    BY <1>6 DEF SWriterEnds, SWriterFails, ServerWriteFails
  <2>2. Answering' = Answering
    BY <2>1 DEF Answering
  <2>3. Count(s2c', "RegisterAck") \in Nat
        /\ Count(s2c', "RegisterAck") <= Count(s2c, "RegisterAck")
    <3>1. Count(<<>>, "RegisterAck") = 0
      <4>1. {i \in DOMAIN <<>> : <<>>[i].type = "RegisterAck"} = {}
        OBVIOUS
      <4> QED BY <4>1, FS_EmptySet DEF Count
    <3> QED BY <1>a, <2>1, <3>1
  <2>4. Surplus' >= Surplus
    <3>1. Owed' = Owed /\ Owed \in Nat
      BY <1>a, <2>1, <2>2 DEF Owed
    <3>2. UNCHANGED <<c2s, asked, answered>>
      BY <1>0, <2>1
    <3> QED BY <1>a, <2>3, <3>1, <3>2 DEF Surplus
  <2> QED BY <1>b, <2>1, <2>4
<1> QED BY <1>1, <1>2, <1>3, <1>4, <1>5, <1>6 DEF MainLoopStep, ServerWriterStep

(* A listener's state changes without an answer being due before or after, *)
(* or with one due both before and after.                                  *)
LEMMA AccountListener ==
    ASSUME OpenTypeOK, Balance, NEW p \in ProxyId, ListenerStep(p) \/ LAccept(p),
           UNCHANGED openVars
    PROVE  Accounted
<1> USE DEF sMainVars, openVars, linkVars, Accounted, SessionUp
<1>0. LinkTypeOK /\ ServerTypeOK /\ UNCHANGED <<asked, answered>>
  BY DEF OpenTypeOK
<1>a. /\ Count(c2s, "Register") \in Nat /\ Count(s2c, "RegisterAck") \in Nat
      /\ Cardinality(Answering) \in Nat
      /\ asked \in Nat /\ answered \in Nat /\ Surplus \in Int
  BY AccountTypes
<1>b. listener[p] # "none" /\ UNCHANGED <<smain, next_proxy_id>>
  BY ListenerMoves
<1>c. PICK s : listener' = [listener EXCEPT ![p] = s]
  BY ListenerMoves
<1>d. s = listener'[p]
  BY <1>0, <1>c DEF ServerTypeOK
<1>e. Cardinality(Answering') = Cardinality(Answering)
         + (IF s \in AnswerDue THEN 1 ELSE 0) - (IF listener[p] \in AnswerDue THEN 1 ELSE 0)
  BY <1>0, <1>c, AnsweringChanges
<1>f. \A q \in ProxyId : q >= next_proxy_id' => listener'[q] = "none"
  BY <1>0, <1>b, <1>c DEF Balance, ServerTypeOK
<1>1. CASE LBind(p) \/ LBindFails(p)
  <2>1. s \in {"ack", "reject"}
    BY <1>0, <1>d, <1>1 DEF LBind, LBindFails, ServerTypeOK
  <2>2. s \in AnswerDue /\ listener[p] \in AnswerDue /\ UNCHANGED <<s2c, c2s, swriter>>
    BY <1>1, <2>1 DEF LBind, LBindFails, AnswerDue
  <2>3. Cardinality(Answering') = Cardinality(Answering)
    BY <1>a, <1>e, <2>2
  <2>4. Surplus' = Surplus
    BY <1>0, <1>a, <1>b, <2>2, <2>3 DEF Surplus, Owed
  <2> QED BY <1>a, <1>b, <1>f, <2>2, <2>4
<1>2. CASE LAck(p) \/ LReject(p)
  <2>1. s \in {"accept", "dead"}
    BY <1>0, <1>d, <1>2 DEF LAck, LReject, ServerTypeOK
  <2>2. s \notin AnswerDue /\ listener[p] \in AnswerDue
    BY <1>2, <2>1 DEF LAck, LReject, AnswerDue
  <2>3. Cardinality(Answering') = Cardinality(Answering) - 1
    BY <1>a, <1>e, <2>2
  <2>4. CASE swriter = "done" /\ UNCHANGED linkVars
    <3>1. Surplus' = Surplus + 1
      BY <1>0, <1>a, <1>b, <2>3, <2>4 DEF Surplus, Owed
    <3> QED BY <1>a, <1>f, <2>4, <3>1
  <2>5. ASSUME NEW x \in BOOLEAN, NEW q \in ProxyId, ToClient(new_reg_ack_frame(lentry[p], x, q))
        PROVE  Accounted
    <3> DEFINE f == new_reg_ack_frame(lentry[p], x, q)
    <3>1. f \in Frame /\ f.type = "RegisterAck"
      BY <1>0, <1>b, ConstructorsType DEF ServerTypeOK, new_reg_ack_frame
    <3>2. /\ Count(s2c', "RegisterAck") = Count(s2c, "RegisterAck") + 1
          /\ swriter = "run" /\ UNCHANGED <<c2s, swriter>>
      BY <1>0, <2>5, <3>1, SentCount
    <3>3. Surplus' = Surplus
      BY <1>0, <1>a, <1>b, <2>3, <3>2 DEF Surplus, Owed
    <3> QED BY <1>a, <1>b, <1>f, <3>2, <3>3
  <2>6. TRUE \in BOOLEAN /\ FALSE \in BOOLEAN
    OBVIOUS
  <2> QED BY <1>2, <2>4, <2>5, <2>6, ZeroProxy DEF LAck, LReject
<1>3. CASE LAccept(p) \/ LPermit(p)
  <2>1. s \in {"accept", "permit"}
    BY <1>0, <1>d, <1>3 DEF LAccept, LPermit, ServerTypeOK
  <2>2. s \notin AnswerDue /\ listener[p] \notin AnswerDue /\ UNCHANGED <<s2c, c2s, swriter>>
    BY <1>3, <2>1 DEF LAccept, LPermit, AnswerDue
  <2>3. Cardinality(Answering') = Cardinality(Answering)
    BY <1>a, <1>e, <2>2
  <2>4. Surplus' = Surplus
    BY <1>0, <1>a, <1>b, <2>2, <2>3 DEF Surplus, Owed
  <2> QED BY <1>a, <1>b, <1>f, <2>2, <2>4
<1>4. CASE LAbort(p)
  <2>1. s \notin AnswerDue
    BY <1>0, <1>d, <1>4 DEF LAbort, AnswerDue, ServerTypeOK
  <2>2. smain = "ended" /\ UNCHANGED <<s2c, c2s, swriter>>
    BY <1>4 DEF LAbort
  <2>3. Cardinality(Answering') \in Int /\ Cardinality(Answering') <= Cardinality(Answering)
    BY <1>a, <1>e, <2>1
  <2>4. Surplus' >= Surplus
    BY <1>0, <1>a, <1>b, <2>2, <2>3 DEF Surplus, Owed
  <2> QED BY <1>a, <1>b, <1>f, <2>2, <2>4
<1> QED BY <1>1, <1>2, <1>3, <1>4 DEF ListenerStep

(* The tasks of external connections put only Data frames into the link. *)
LEMMA AccountExternal ==
    ASSUME OpenTypeOK, Balance, NEW c \in Key,
           ExternalReadStep(c) \/ ExternalWriteStep(c) \/ ERead(c) \/ EClose(c),
           UNCHANGED openVars
    PROVE  Accounted
<1> USE DEF sMainVars, listenVars, openVars, linkVars, Accounted, SessionUp
<1>0. LinkTypeOK /\ ServerTypeOK /\ UNCHANGED <<asked, answered>>
  BY DEF OpenTypeOK
<1>a. /\ Count(c2s, "Register") \in Nat /\ Count(s2c, "RegisterAck") \in Nat
      /\ Cardinality(Answering) \in Nat
      /\ asked \in Nat /\ answered \in Nat /\ Surplus \in Int
  BY AccountTypes
<1>1. UNCHANGED <<smain, next_proxy_id, listener, c2s, swriter>>
  BY DEF ExternalReadStep, ExternalWriteStep, ERead, EClose, ESend, EReadEnds, EWrite,
         EWriteEnds, ToClient
<1>2. Count(s2c', "RegisterAck") = Count(s2c, "RegisterAck")
  <2>1. CASE ESend(c)
    <3> DEFINE f == new_data_frame(ExternalChunk(c), c)
    <3>1. f \in Frame /\ f.type # "RegisterAck"
      BY <1>0, <2>1, ExternalChunkType, ConstructorsType DEF ESend, new_data_frame
    <3>2. ToClient(f)
      BY <2>1 DEF ESend
    <3> QED BY <1>0, <1>a, <3>1, <3>2, SentCount
  <2>2. CASE ~ESend(c)
    <3>1. s2c' = s2c
      BY <2>2 DEF ExternalReadStep, ExternalWriteStep, ERead, EClose, EReadEnds, EWrite, EWriteEnds
    <3> QED BY <3>1
  <2> QED BY <2>1, <2>2
<1>3. Answering' = Answering
  BY <1>1 DEF Answering
<1>4. Surplus' = Surplus
  BY <1>0, <1>a, <1>1, <1>2, <1>3 DEF Surplus, Owed
<1> QED BY <1>a, <1>1, <1>4 DEF Balance

-----------------------------------------------------------------------------
(* The whole specification.                                                *)

(* Every step of the server keeps the invariant. *)
LEMMA ServerStep ==
    ASSUME ServerInv, ServerNext, UNCHANGED openVars
    PROVE  ServerInv'
<1>0. OpenTypeOK /\ LinkTypeOK /\ ServerTypeOK
  BY DEF ServerInv, OpenTypeOK
<1>1. OpenTypeOK'
  BY <1>0, ServerNextType DEF OpenTypeOK, openVars
<1>2. Accepted' /\ RouteWhileReading'
  BY <1>0, RoutesStep DEF ServerInv
<1>3. Addressed' /\ RoutedToOwner'
  <2>0. Addressed /\ RoutedToOwner
    BY DEF ServerInv
  <2>1. CASE SData
    BY <1>0, <2>0, <2>1, AddressesData
  <2>2. CASE SRoute
    BY <1>0, <2>0, <2>2, AddressesRoute
  <2>3. ASSUME NEW c \in Key, ExternalWriteStep(c) PROVE Addressed' /\ RoutedToOwner'
    BY <1>0, <2>0, <2>3, AddressesWrite
  <2>4. CASE QuietAddresses
    BY <1>0, <2>0, <2>4, AddressesQuiet
  <2> QED BY <2>1, <2>2, <2>3, <2>4, QuietAddressSteps DEF ServerNext, MainLoopStep
<1>4. Accounted
  BY <1>0, AccountMain, AccountListener, AccountExternal DEF ServerInv, ServerNext
<1>5. Balance'
  <2>0. (OpenTypeOK => Surplus \in Int)'
    BY SurplusType, PTL
  <2>1. Surplus \in Int /\ Surplus' \in Int
    BY <1>0, <1>1, <2>0, SurplusType
  <2> QED BY <1>4, <2>1 DEF Accounted, Balance, ServerInv
<1> QED BY <1>1, <1>2, <1>3, <1>5 DEF ServerInv

(* A step of the peer moves nothing inside the server. *)
LEMMA PeerKeeps ==
    ASSUME ServerInv, UNCHANGED serverVars
    PROVE  ServerTypeOK' /\ Accepted' /\ RouteWhileReading' /\ RoutedToOwner' /\ Answering' = Answering
<1> USE DEF serverVars, sMainVars, listenVars, extVars, ServerInv, OpenTypeOK
<1>1. ServerTypeOK'
  BY DEF ServerTypeOK
<1>2. Accepted' /\ RouteWhileReading' /\ RoutedToOwner'
  BY DEF Accepted, RouteWhileReading, RoutedToOwner
<1>3. Answering' = Answering
  BY DEF Answering
<1> QED BY <1>1, <1>2, <1>3

(* Sending, reading and closing on the peer's side. *)
LEMMA PeerStep ==
    ASSUME ServerInv, (\E f \in PeerFrames : PeerSends(f)) \/ PeerReads \/ PeerCloses
    PROVE  ServerInv'
<1> USE ServerOpenAssumption DEF serverVars, sMainVars, listenVars, extVars, SessionUp
<1>0. LinkTypeOK /\ OpenTypeOK /\ Balance /\ Addressed
  BY DEF ServerInv, OpenTypeOK
<1>a. /\ Count(c2s, "Register") \in Nat /\ Count(s2c, "RegisterAck") \in Nat
      /\ Cardinality(Answering) \in Nat
      /\ asked \in Nat /\ answered \in Nat /\ sent \in Nat /\ Surplus \in Int
  BY <1>0, AccountTypes DEF OpenTypeOK
<1>b. UNCHANGED serverVars
  BY DEF PeerSends, PeerReads, PeerCloses
<1>c. ServerTypeOK' /\ Accepted' /\ RouteWhileReading' /\ RoutedToOwner' /\ Answering' = Answering
  BY <1>b, PeerKeeps
<1>1. ASSUME NEW f \in PeerFrames, PeerSends(f) PROVE ServerInv'
  <2>1. f \in Frame /\ (f.type = "Data" => f.data.key = f.key)
    BY PeerFramesType
  <2>2. LinkTypeOK' /\ c2s' = Append(c2s, f) /\ UNCHANGED <<s2c, swriter>>
    BY <1>0, <1>1, <2>1, LinkOps DEF PeerSends, ToServer
  <2>3. Count(c2s', "Register") = Count(c2s, "Register") + (IF f.type = "Register" THEN 1 ELSE 0)
    BY <1>0, <2>1, <2>2, CountAppend DEF LinkTypeOK
  <2>4. asked' = asked + (IF f.type = "Register" THEN 1 ELSE 0) /\ answered' = answered
    BY <1>1 DEF PeerSends
  <2>5. Surplus' = Surplus
    BY <1>a, <1>b, <1>c, <2>2, <2>3, <2>4 DEF Surplus, Owed
  <2>6. Balance'
    BY <1>0, <1>a, <1>b, <2>2, <2>5 DEF Balance
  <2>7. OpenTypeOK'
    BY <1>0, <1>a, <1>c, <1>1, <2>2, <2>4 DEF OpenTypeOK, PeerSends
  <2>8. QueueAddressed(c2s')
    BY <1>0, <2>1, <2>2, QueueOps DEF Addressed, QueueAddressed, LinkTypeOK
  <2>9. Addressed'
    BY <1>0, <1>b, <2>8 DEF Addressed, QueueAddressed
  <2> QED BY <1>c, <2>6, <2>7, <2>9 DEF ServerInv
<1>2. CASE PeerReads
  <2>1. /\ s2c # <<>> /\ s2c' = Tail(s2c) /\ UNCHANGED <<c2s, swriter>>
        /\ UNCHANGED <<sent, asked>>
        /\ answered' = answered + (IF Head(s2c).type = "RegisterAck" THEN 1 ELSE 0)
    BY <1>2 DEF PeerReads
  <2>2. s2c' \in Seq(Frame) /\ Len(s2c') <= LinkCap
    BY <1>0, <2>1, DequeueType, LinkAssumption DEF LinkTypeOK
  <2>3. LinkTypeOK'
    BY <1>0, <1>2, <2>2 DEF LinkTypeOK, PeerReads
  <2>4. Count(s2c', "RegisterAck") = Count(s2c, "RegisterAck")
                                     - (IF Head(s2c).type = "RegisterAck" THEN 1 ELSE 0)
    BY <1>0, <2>1, CountTail DEF LinkTypeOK
  <2>5. Surplus' = Surplus
    BY <1>a, <1>b, <1>c, <2>1, <2>4 DEF Surplus, Owed
  <2>6. Balance'
    BY <1>0, <1>a, <1>b, <2>1, <2>5 DEF Balance
  <2>7. OpenTypeOK'
    BY <1>0, <1>a, <1>c, <2>1, <2>3 DEF OpenTypeOK
  <2>8. Addressed'
    BY <1>0, <1>b, <2>1 DEF Addressed
  <2> QED BY <1>c, <2>6, <2>7, <2>8 DEF ServerInv
<1>3. CASE PeerCloses
  <2>1. UNCHANGED <<s2c, c2s, swriter, sent, asked, answered>>
    BY <1>3 DEF PeerCloses, openVars
  <2>2. creader' \in BOOLEAN
    BY <1>3, Zenon DEF PeerCloses
  <2>3. LinkTypeOK'
    BY <1>0, <1>3, <2>2 DEF LinkTypeOK, PeerCloses
  <2>4. Surplus' = Surplus
    BY <1>b, <1>c, <2>1 DEF Surplus, Owed
  <2>5. Balance'
    BY <1>0, <1>a, <1>b, <2>1, <2>4 DEF Balance
  <2>6. OpenTypeOK' /\ Addressed'
    BY <1>0, <1>b, <1>c, <2>1, <2>3 DEF OpenTypeOK, Addressed
  <2> QED BY <1>c, <2>5, <2>6 DEF ServerInv
<1> QED BY <1>1, <1>2, <1>3

(* Every step keeps the invariant. *)
LEMMA NextServerInv == ServerInv /\ [Next]_vars => ServerInv'
<1> SUFFICES ASSUME ServerInv, [Next]_vars PROVE ServerInv'
  OBVIOUS
<1>1. CASE UNCHANGED vars
  <2>1. UNCHANGED serverVars /\ UNCHANGED <<linkVars, openVars>>
    BY <1>1 DEF vars
  <2>2. ServerTypeOK' /\ Accepted' /\ RouteWhileReading' /\ RoutedToOwner' /\ Answering' = Answering
    BY <2>1, PeerKeeps
  <2>3. OpenTypeOK' /\ Addressed'
    BY <2>1, <2>2 DEF ServerInv, OpenTypeOK, LinkTypeOK, linkVars, openVars, Addressed,
                      serverVars, sMainVars, extVars
  <2>4. Balance'
    BY <2>1, <2>2 DEF ServerInv, Balance, Surplus, Owed, SessionUp, linkVars, openVars,
                      serverVars, sMainVars, listenVars
  <2> QED BY <2>2, <2>3, <2>4 DEF ServerInv
<1> QED BY <1>1, ServerStep, PeerStep DEF Next

-----------------------------------------------------------------------------
(* Type correctness of the server against any peer: no frame, in whatever  *)
(* order, makes the main loop wait for a send without a frame or a route,  *)
(* and the peer never reads more answers than it made registrations.       *)
THEOREM ServerTypeCorrect == Spec => []TypeOK
<1>1. ServerInv => TypeOK
  <2> SUFFICES ASSUME ServerInv PROVE TypeOK
    OBVIOUS
  <2>1. /\ Count(c2s, "Register") \in Nat /\ Count(s2c, "RegisterAck") \in Nat
        /\ asked \in Nat /\ answered \in Nat /\ Owed \in Nat
    BY AccountTypes DEF ServerInv
  <2>2. Surplus >= 0
    BY DEF ServerInv, Balance
  <2>3. answered \in 0..asked
    BY <2>1, <2>2 DEF Surplus
  <2> QED BY <2>3 DEF ServerInv, OpenTypeOK, TypeOK
<1> QED BY InitServerInv, NextServerInv, <1>1, PTL DEF Spec

(* While a session is up every registration taken from the link is         *)
(* answered once, by the main loop or by the task it spawned, whatever the *)
(* peer sends and in whichever order the tasks run.                        *)
THEOREM RegistrationsAnsweredOnce == Spec => []AnsweredOnce
<1>1. ServerInv => AnsweredOnce
  <2> SUFFICES ASSUME ServerInv, smain # "ended", swriter = "run"
               PROVE  asked - Count(c2s, "Register")
                        = answered + Count(s2c, "RegisterAck") + Cardinality(Answering)
                          + (IF smain = "reply" THEN 1 ELSE 0)
    BY DEF AnsweredOnce, Answering
  <2>1. /\ Count(c2s, "Register") \in Nat /\ Count(s2c, "RegisterAck") \in Nat
        /\ asked \in Nat /\ answered \in Nat /\ Cardinality(Answering) \in Nat
    BY AccountTypes DEF ServerInv
  <2>2. Surplus = 0
    BY DEF ServerInv, Balance, SessionUp
  <2> QED BY <2>1, <2>2 DEF Surplus, Owed
<1> QED BY InitServerInv, NextServerInv, <1>1, PTL DEF Spec

(* Whatever the peer sends, data reaches only the user of the proxy and    *)
(* connection its frame names, whichever table the main loop has cached.   *)
THEOREM DataReachesOwner == Spec => []RoutedToOwner
<1>1. ServerInv => RoutedToOwner
  BY DEF ServerInv
<1> QED BY InitServerInv, NextServerInv, <1>1, PTL DEF Spec

(* While a session is up the routing tables hold exactly the users whose   *)
(* read task lives or waits for its permit.                                *)
THEOREM RoutesFollowReaders == Spec => []RouteWhileReading
<1>1. ServerInv => RouteWhileReading
  BY DEF ServerInv
<1> QED BY InitServerInv, NextServerInv, <1>1, PTL DEF Spec
=============================================================================
