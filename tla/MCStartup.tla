----------------------------- MODULE MCStartup ------------------------------
(* Configuration files for Startup. *)
EXTENDS Startup

File(mode, server, clients) ==
    [readable |-> TRUE, running_mode |-> mode, server |-> server, client_proxy |-> clients]

GoodServer == ServerSection("ip", 11000, PeerToken)

Servers == {ServerSection(ip, port, token) :
               ip \in {"", "bad", "ip"}, port \in {0, 11000}, token \in {"", PeerToken}}

Entries == {ClientInfo(ip, port, bind) :
               ip \in {"", "bad", "ip"}, port \in {0, 22}, bind \in {80, 1024, 8081}}

(* Any entry next to good ones, so that each can be the one at fault. *)
Proxies ==
    LET good(bind) == ClientInfo("ip", 22, bind)
    IN  {<<>>} \cup {<<e>> : e \in Entries} \cup {<<e, f>> : e, f \in Entries}
            \cup {<<good(8081), e, good(8082)>> : e \in Entries}

AllFiles ==
    {File(mode, server, clients) :
        mode \in RunningMode \cup {"server"}, server \in Servers, clients \in Proxies}
    \cup {[File("Client", GoodServer, <<>>) EXCEPT !.readable = FALSE]}
=============================================================================
