---------------------------- MODULE MCClientOpen ----------------------------
(* A small instance of ClientOpen: two entries, so that two proxies have a *)
(* connection of the same number.                                          *)
EXTENDS ClientOpen

Ports == <<8001, 8002>>
=============================================================================
