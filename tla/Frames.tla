------------------------------- MODULE Frames -------------------------------
(***************************************************************************)
(* The vocabulary of an rfrp session: the configuration entries a client   *)
(* registers, the identifiers the server hands out and the RfrpFrame       *)
(* variants both sides exchange (rfrp_proto/src/frame_types.rs).           *)
(*                                                                         *)
(* Payload bytes are abstracted to an origin and a serial number: the      *)
(* external connection they belong to, the internal connection that        *)
(* produced them (0 for bytes of the external user) and their position in  *)
(* the stream.  That is exactly what the forwarding properties compare.    *)
(***************************************************************************)
EXTENDS Integers, Sequences, FiniteSets

CONSTANTS
    ProxyCount,   \* number of entries of config.client_proxy
    BindPort,     \* BindPort[e] is the bind_port of entry e
    MaxProxies,   \* MAX_PROXIES_PER_CLIENT (16)
    MaxConns,     \* bound: external connections a listener accepts
    MaxInst,      \* bound: connections the client opens to internal services
    MaxChunks     \* bound: chunks each peer of the tunnel writes per connection

ASSUME FramesAssumption ==
    /\ ProxyCount \in Nat \ {0}
    /\ BindPort \in [1..ProxyCount -> Nat]
    /\ MaxProxies \in Nat \ {0}
    /\ MaxConns \in Nat
    /\ MaxInst \in Nat
    /\ MaxChunks \in Nat

Entry == 1..ProxyCount

(* proxy_id is assigned in registration order and never exceeds the limit  *)
(* on registrations, so the wrapping_add on the u32 never wraps.           *)
ProxyId == 0..(MaxProxies - 1)
NoProxy == -1

ConnId == 0..(MaxConns - 1)

(* The pair (proxy_id, conn_id) every Data frame carries. *)
Key == ProxyId \X ConnId

(* Connections of the client to internal services, in opening order. *)
Inst == 1..MaxInst
NoInst == 0

Payload == [key : Key, inst : 0..MaxInst, n : 1..MaxChunks]

-----------------------------------------------------------------------------
RegisterFrame(e) == [type |-> "Register", client |-> e]

new_reg_ack_frame(e, success, pid) ==
    [type |-> "RegisterAck", client |-> e, success |-> success, proxy_id |-> pid]

new_ping_frame == [type |-> "Control", command |-> "ping"]

new_pong_frame == [type |-> "Control", command |-> "pong"]

new_data_frame(data, key) == [type |-> "Data", key |-> key, data |-> data]

(* Bytes that decode_encrypted_bytes_mut refuses. *)
Undecodable == [type |-> "Undecodable"]

RegisterFrames    == [type : {"Register"}, client : Entry]
RegisterAckFrames == [type : {"RegisterAck"}, client : Entry,
                      success : BOOLEAN, proxy_id : ProxyId]
ControlFrames     == [type : {"Control"}, command : {"ping", "pong", "other"}]
DataFrames        == [type : {"Data"}, key : Key, data : Payload]

Frame == RegisterFrames \cup RegisterAckFrames \cup ControlFrames
            \cup DataFrames \cup {Undecodable}
=============================================================================
