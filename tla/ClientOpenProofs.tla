-------------------------- MODULE ClientOpenProofs --------------------------
(***************************************************************************)
(* The client session against any server, for every bound.  Nothing is     *)
(* assumed of the frames the server sends but that they decode or not.     *)
(***************************************************************************)
EXTENDS ClientOpen, SessionProofs

(* The initial state is well typed. *)
LEMMA InitType == Init => TypeOK
<1> SUFFICES ASSUME Init PROVE TypeOK
  OBVIOUS
<1> USE FramesAssumption, LinkAssumption, ClientOpenAssumption
<1>1. sreader \in BOOLEAN /\ creader \in BOOLEAN /\ cut \in BOOLEAN
  BY Zenon DEF Init, LinkInit
<1>2. /\ s2c \in Seq(Frame) /\ Len(s2c) <= LinkCap
      /\ c2s \in Seq(Frame) /\ Len(c2s) <= LinkCap
      /\ swriter = "run" /\ cwriter = "run"
  BY SMT DEF Init, LinkInit
<1>3. ClientTypeOK
  BY DEF Init, ClientInit, ClientTypeOK, NoInst, Entry
<1>4. sent \in 0..MaxFrames
  BY DEF Init
<1> QED BY <1>1, <1>2, <1>3, <1>4 DEF TypeOK, LinkTypeOK

(* What a server may send are frames. *)
LEMMA PeerFramesType == PeerFrames \subseteq Frame
<1>1. \A c \in Key, n \in 1..MaxChunks : [key |-> c, inst |-> NoInst, n |-> n] \in Payload
  BY FramesAssumption DEF Payload, NoInst
<1>2. new_pong_frame \in Frame /\ \A d \in Payload, c \in Key : new_data_frame(d, c) \in Frame
  BY ConstructorsType
<1>3. RegisterAckFrames \cup RegisterFrames \cup {Undecodable} \subseteq Frame
  BY DEF Frame
<1> SUFFICES ASSUME NEW f \in PeerFrames PROVE f \in Frame
  OBVIOUS
<1>4. CASE \E c \in Key, n \in 1..MaxChunks :
              f = new_data_frame([key |-> c, inst |-> NoInst, n |-> n], c)
  BY <1>1, <1>2, <1>4
<1>5. CASE f \in RegisterAckFrames \cup RegisterFrames \cup {new_pong_frame, Undecodable}
  BY <1>2, <1>3, <1>5
<1> QED BY <1>4, <1>5 DEF PeerFrames

(* A step of the server leaves the client alone and keeps the types. *)
LEMMA PeerType ==
    ASSUME TypeOK, (\E f \in PeerFrames : PeerSends(f)) \/ PeerReads \/ PeerCloses
    PROVE  TypeOK' /\ UNCHANGED clientVars
<1> USE ClientOpenAssumption DEF clientVars, cMainVars, instVars
<1>1. ASSUME NEW f \in PeerFrames, PeerSends(f) PROVE TypeOK' /\ UNCHANGED clientVars
  <2>1. LinkTypeOK'
    BY <1>1, PeerFramesType, LinkOps DEF PeerSends, TypeOK
  <2> QED BY <1>1, <2>1 DEF PeerSends, TypeOK, ClientTypeOK
<1>2. CASE PeerReads
  <2>1. c2s' \in Seq(Frame) /\ Len(c2s') <= LinkCap
    BY <1>2, DequeueType, LinkAssumption DEF PeerReads, TypeOK, LinkTypeOK
  <2> QED BY <1>2, <2>1 DEF PeerReads, TypeOK, LinkTypeOK, ClientTypeOK
<1>3. CASE PeerCloses
  <2>1. sreader' \in BOOLEAN
    BY <1>3, Zenon DEF PeerCloses
  <2> QED BY <1>3, <2>1 DEF PeerCloses, TypeOK, LinkTypeOK, ClientTypeOK
<1> QED BY <1>1, <1>2, <1>3

(* Every step keeps the types. *)
LEMMA NextType == TypeOK /\ [Next]_vars => TypeOK'
<1> SUFFICES ASSUME TypeOK, [Next]_vars PROVE TypeOK'
  OBVIOUS
<1>1. CASE ClientNext /\ UNCHANGED sent
  BY <1>1, ClientNextType DEF TypeOK
<1>2. CASE UNCHANGED vars
  BY <1>2, LinkOps DEF vars, TypeOK, clientVars, cMainVars, instVars, ClientTypeOK
<1> QED BY <1>1, <1>2, PeerType DEF Next

(* Type correctness of the client against any server: whatever proxy_id,   *)
(* conn_id or kind of frame arrives, the main task never waits for a send  *)
(* without a frame and a connection to send it on, and no channel holds    *)
(* more than its capacity.                                                 *)
THEOREM ClientTypeCorrect == Spec => []TypeOK
  BY InitType, NextType, PTL DEF Spec

-----------------------------------------------------------------------------
(* The inductive invariant of the client session. *)
ClientInv == TypeOK /\ ClientMaps /\ Phases

(* The invariant holds at the start. *)
LEMMA InitClientInv == Init => ClientInv
<1> SUFFICES ASSUME Init PROVE ClientInv
  OBVIOUS
<1>1. Phases
  BY DEF Init, ClientInit, Phases, DialsRegisteredOnly
<1> QED BY <1>1, InitType, InitMaps DEF Init, ClientInv

(* Every step keeps the invariant. *)
LEMMA NextClientInv == ClientInv /\ [Next]_vars => ClientInv'
<1> SUFFICES ASSUME ClientInv, [Next]_vars PROVE ClientInv'
  OBVIOUS
<1>1. TypeOK'
  BY NextType DEF ClientInv
<1>2. CASE ClientNext
  BY <1>1, <1>2, MapsStep, PhasesStep DEF ClientInv, TypeOK
<1>3. CASE UNCHANGED clientVars
  BY <1>1, <1>3
     DEF ClientInv, clientVars, cMainVars, instVars, ClientMaps, EntryHasReader, ConnectIsVacant,
         Phases, DialsRegisteredOnly, Registered
<1>4. ClientNext \/ UNCHANGED clientVars
  BY PeerType DEF ClientInv, Next, vars
<1> QED BY <1>2, <1>3, <1>4

-----------------------------------------------------------------------------
(* Whatever the server sends, an entry of the client's maps belongs to a   *)
(* connection opened for that key whose read task will remove it.          *)
THEOREM EntriesHaveReaders == Spec => []EntryHasReader
<1>1. ClientInv => EntryHasReader
  BY DEF ClientInv, ClientMaps
<1> QED BY InitClientInv, NextClientInv, <1>1, PTL DEF Spec

(* Whatever the server sends, the Occupied arm of entry() in               *)
(* get_or_create_internal_conn is never reached.                           *)
THEOREM ConnectsAreVacant == Spec => []ConnectIsVacant
<1>1. ClientInv => ConnectIsVacant
  BY DEF ClientInv, ClientMaps
<1> QED BY InitClientInv, NextClientInv, <1>1, PTL DEF Spec

(* No server can make the client dial anything but the service of an entry *)
(* that was registered under the proxy_id it names.                        *)
THEOREM DialsOnlyRegistered == Spec => []DialsRegisteredOnly
<1>1. ClientInv => DialsRegisteredOnly
  BY DEF ClientInv, Phases
<1> QED BY InitClientInv, NextClientInv, <1>1, PTL DEF Spec
=============================================================================
