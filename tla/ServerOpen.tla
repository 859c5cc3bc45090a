----------------------------- MODULE ServerOpen -----------------------------
(***************************************************************************)
(* The server session against any authenticated peer: frames of every kind *)
(* in any order, registrations above the limit, data for proxies and       *)
(* connections that do not exist, bytes that do not decode, a peer that    *)
(* closes at any time.                                                     *)
(***************************************************************************)
EXTENDS ServerSession

CONSTANT MaxFrames  \* bound: frames the peer sends

ASSUME ServerOpenAssumption == MaxFrames \in Nat

VARIABLES
    sent,       \* frames the peer has sent
    asked,      \* Register frames among them
    answered    \* RegisterAck frames the peer has read

openVars == <<sent, asked, answered>>
vars == <<linkVars, serverVars, openVars>>

PeerFrames ==
    RegisterFrames \cup ControlFrames \cup {Undecodable}
    \cup {new_reg_ack_frame(1, TRUE, 0)}
    \cup {new_data_frame(d, d.key) : d \in {x \in Payload : x.inst # NoInst}}

PeerSends(f) ==
    /\ sent < MaxFrames
    /\ ToServer(f)
    /\ sent' = sent + 1
    /\ asked' = asked + (IF f.type = "Register" THEN 1 ELSE 0)
    /\ UNCHANGED <<answered, serverVars>>

PeerReads ==
    /\ creader
    /\ s2c # <<>>
    /\ s2c' = Tail(s2c)
    /\ answered' = answered + (IF Head(s2c).type = "RegisterAck" THEN 1 ELSE 0)
    /\ UNCHANGED <<sent, asked, serverVars, c2s, swriter, cwriter, sreader, creader, cut>>

PeerCloses ==
    /\ creader
    /\ cwriter' = "done"
    /\ creader' = FALSE
    /\ UNCHANGED <<openVars, serverVars, s2c, c2s, swriter, sreader, cut>>

Init ==
    /\ LinkInit /\ ServerInit
    /\ sent = 0 /\ asked = 0 /\ answered = 0

Next ==
    \/ ServerNext /\ UNCHANGED openVars
    \/ \E f \in PeerFrames : PeerSends(f)
    \/ PeerReads
    \/ PeerCloses

Spec == Init /\ [][Next]_vars

-----------------------------------------------------------------------------
TypeOK ==
    /\ LinkTypeOK /\ ServerTypeOK
    /\ sent \in 0..MaxFrames /\ asked \in 0..sent /\ answered \in 0..asked

Count(q, type) == Cardinality({i \in DOMAIN q : q[i].type = type})

(* Every registration is answered exactly once, by the main loop or by the *)
(* listener task it spawned: while the session is up, the registrations    *)
(* taken from the link are those answered, those whose answer is under way *)
(* and those a task still has to answer.                                   *)
AnsweredOnce ==
    smain # "ended" /\ swriter = "run" =>
        asked - Count(c2s, "Register")
            = answered + Count(s2c, "RegisterAck")
              + Cardinality({p \in ProxyId : listener[p] \in {"spawned", "ack", "reject"}})
              + (IF smain = "reply" THEN 1 ELSE 0)

(* Data reaches the user of the proxy and connection its frame names, also *)
(* when two proxies have a connection of the same number and the cached    *)
(* table is that of the other one.                                         *)
RoutedToOwner == \A c \in Key : \A i \in DOMAIN eout[c] : eout[c][i].key = c
=============================================================================
