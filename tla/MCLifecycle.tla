---------------------------- MODULE MCLifecycle -----------------------------
(* An instance of Lifecycle: who has which token and which port. *)
EXTENDS Lifecycle

(* The stranger has another token than the server. *)
Tokens == [c \in Clients |-> IF c = "stranger" THEN "wrong" ELSE "right"]

(* The stranger asks for the port of the first client, the idler for another. *)
Ports == [c \in Clients |-> IF c = "idler" THEN 8082 ELSE 8081]
=============================================================================
