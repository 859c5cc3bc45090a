---------------------------- MODULE MCServerOpen ----------------------------
(* A small instance of ServerOpen: two entries with ordinary ports, each   *)
(* of which clashes with itself when it is registered twice, and one with  *)
(* a privileged port.                                                      *)
EXTENDS ServerOpen

Ports == <<8001, 8002, 80>>
=============================================================================
