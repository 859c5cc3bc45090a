----------------------------- MODULE ClientOpen -----------------------------
(***************************************************************************)
(* The client session against any server: answers with any proxy_id, data  *)
(* for unknown proxies and before registration is over, frames a server    *)
(* never sends, bytes that do not decode, a server that closes at any time.*)
(***************************************************************************)
EXTENDS ClientSession

CONSTANT MaxFrames  \* bound: frames the server sends

ASSUME ClientOpenAssumption == MaxFrames \in Nat

VARIABLE sent  \* frames the server has sent

vars == <<linkVars, clientVars, sent>>

PeerFrames ==
    RegisterAckFrames \cup RegisterFrames \cup {new_pong_frame, Undecodable}
    \cup {new_data_frame([key |-> c, inst |-> NoInst, n |-> n], c) :
             c \in Key, n \in 1..MaxChunks}

PeerSends(f) ==
    /\ sent < MaxFrames
    /\ ToClient(f)
    /\ sent' = sent + 1
    /\ UNCHANGED clientVars

PeerReads ==
    /\ sreader
    /\ c2s # <<>>
    /\ c2s' = Tail(c2s)
    /\ UNCHANGED <<sent, clientVars, s2c, swriter, cwriter, sreader, creader, cut>>

PeerCloses ==
    /\ sreader
    /\ swriter' = "done"
    /\ sreader' = FALSE
    /\ UNCHANGED <<sent, clientVars, s2c, c2s, cwriter, creader, cut>>

Init == LinkInit /\ ClientInit /\ sent = 0

Next ==
    \/ ClientNext /\ UNCHANGED sent
    \/ \E f \in PeerFrames : PeerSends(f)
    \/ PeerReads
    \/ PeerCloses

Spec == Init /\ [][Next]_vars

-----------------------------------------------------------------------------
TypeOK == LinkTypeOK /\ ClientTypeOK /\ sent \in 0..MaxFrames
=============================================================================
