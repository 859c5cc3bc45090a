------------------------------ MODULE MCTunnel ------------------------------
(* Small instances of Tunnel: the ports of the configured entries. *)
EXTENDS Tunnel

Ports1 == <<8001>>
Ports2 == <<8001, 8002>>
=============================================================================
