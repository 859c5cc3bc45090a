------------------------------ MODULE Startup -------------------------------
(***************************************************************************)
(* From the configuration file to a running process: ConfigInfo::new,      *)
(* validate (rfrp_config/src/config_parser.rs) and the dispatch of         *)
(* rfrp_main, and then what a client configuration leads to: its entries   *)
(* are registered one after the other, and one rejection ends the session. *)
(* The server and the network are in order, so that all that happens is    *)
(* due to the configuration.                                               *)
(*                                                                         *)
(* An address string is "", "ip" or "bad": neither an IPv4 nor an IPv6     *)
(* address, nor a host name that resolves.                                 *)
(***************************************************************************)
EXTENDS Integers, Sequences, FiniteSets

CONSTANTS
    Files,        \* configuration files to start from
    MaxProxies    \* MAX_PROXIES_PER_CLIENT (16)

(* serde reads running_mode as a variant name of RunningMode. *)
RunningMode == {"Server", "Client", "Unknown"}

(* The cached "ip:port" of a section; serde skips it in files and frames. *)
NoAddr == <<>>

ServerSection(ip, port, token) ==
    [server_ip |-> ip, server_port |-> port, auth_token |-> token, addr |-> NoAddr]

ClientInfo(ip, port, bind) ==
    [proxy_ip |-> ip, proxy_port |-> port, bind_port |-> bind, addr |-> NoAddr]

(* The token of the server the clients connect to. *)
PeerToken == "secret"

Port == 0..65535

(* What serde can make of a file: ports are u16, addr is left out. *)
ConfigFile ==
    [readable : BOOLEAN, running_mode : STRING,
     server : [server_ip : STRING, server_port : Port, auth_token : STRING, addr : {NoAddr}],
     client_proxy : Seq([proxy_ip : STRING, proxy_port : Port, bind_port : Port, addr : {NoAddr}])]

ASSUME StartupAssumption == MaxProxies \in Nat \ {0} /\ Files \subseteq ConfigFile

VARIABLES
    config,       \* the ConfigInfo
    stage,        \* where the process is
    registered,   \* client entries the server has confirmed, in order
    bound         \* ports the session has bound

vars == <<config, stage, registered, bound>>

Init == config \in Files /\ stage = "start" /\ registered = <<>> /\ bound = {}

-----------------------------------------------------------------------------
(* ConfigInfo::init caches the addresses. *)
init(c) ==
    [c EXCEPT !.server.addr = <<c.server.server_ip, c.server.server_port>>,
              !.client_proxy = [i \in DOMAIN c.client_proxy |->
                  LET e == c.client_proxy[i] IN [e EXCEPT !.addr = <<e.proxy_ip, e.proxy_port>>]]]

(* ConfigInfo::new panics on a file it cannot read or parse and on the     *)
(* mode Unknown.                                                           *)
Parses(c) == c.readable /\ c.running_mode \in RunningMode \ {"Unknown"}

New ==
    /\ stage = "start"
    /\ IF Parses(config)
       THEN stage' = "parsed" /\ config' = init(config)
       ELSE stage' = "panic" /\ UNCHANGED config
    /\ UNCHANGED <<registered, bound>>

is_valid_ip(ip) == ip = "ip"

is_valid_port(port) == port > 0

validate_server(c) ==
    /\ c.server.server_ip # "" /\ is_valid_ip(c.server.server_ip)
    /\ is_valid_port(c.server.server_port)
    /\ c.server.auth_token # ""

(* The entries validate_clients counts in valid_count. *)
Usable(e) == e.proxy_ip # "" /\ is_valid_ip(e.proxy_ip) /\ is_valid_port(e.proxy_port)

validate_clients(c) ==
    /\ c.client_proxy # <<>>
    /\ Cardinality({i \in DOMAIN c.client_proxy : Usable(c.client_proxy[i])}) # 0

(* The server section is validated in server mode only. *)
validate(c) == IF c.running_mode = "Server" THEN validate_server(c) ELSE validate_clients(c)

Validate ==
    /\ stage = "parsed"
    /\ stage' = IF validate(config) THEN "valid" ELSE "rejected"
    /\ UNCHANGED <<config, registered, bound>>

(* rfrp_server: TcpListener::bind(...).await.unwrap(), which panics when   *)
(* the port is in use.                                                     *)
RunServer ==
    /\ stage = "valid" /\ config.running_mode = "Server"
    /\ stage' \in {"listening", "port_in_use"}
    /\ UNCHANGED <<config, registered, bound>>

(* Whether the server can be reached at the address and shares the token. *)
Reaches(c) ==
    /\ c.server.addr = <<"ip", c.server.server_port>> /\ c.server.server_port > 0
    /\ c.server.auth_token = PeerToken

RunClient ==
    /\ stage \in {"valid", "retry"} /\ config.running_mode = "Client"
    /\ stage' = IF Reaches(config) THEN "register" ELSE "retry"
    /\ registered' = <<>> /\ bound' = {}
    /\ UNCHANGED config

(* A ClientInfo that has travelled in a frame has lost its cached address. *)
Received(e) == [e EXCEPT !.addr = NoAddr]

(* Seeded fault: the client records the ClientInfo of the answer. *)
RecordedFromAnswer(e) == Received(e)

(* proxy_configs.insert(resp.proxy_id, client_info.clone()). *)
Recorded(e) == e

(* Seeded fault: port 1024 counts as privileged. *)
AcceptsAbove1024(e) == e.bind_port > 1024 /\ e.bind_port \notin bound /\ Len(registered) < MaxProxies

(* What the server confirms: a port from 1024 that it can bind, within the *)
(* limit of proxies per client.                                            *)
Accepts(e) == e.bind_port >= 1024 /\ e.bind_port \notin bound /\ Len(registered) < MaxProxies

(* The next entry is registered; a rejection makes run_proxy return, and   *)
(* the client connects again.                                              *)
Register ==
    /\ stage = "register" /\ Len(registered) < Len(config.client_proxy)
    /\ LET e == config.client_proxy[Len(registered) + 1]
       IN  IF Accepts(Received(e))
           THEN /\ registered' = Append(registered, Recorded(e))
                /\ bound' = bound \cup {e.bind_port}
                /\ UNCHANGED stage
           ELSE stage' = "retry" /\ registered' = <<>> /\ bound' = {}
    /\ UNCHANGED config

Registered ==
    /\ stage = "register" /\ Len(registered) = Len(config.client_proxy)
    /\ stage' = "serving"
    /\ UNCHANGED <<config, registered, bound>>

Next == New \/ Validate \/ RunServer \/ RunClient \/ Register \/ Registered

Spec == Init /\ [][Next]_vars /\ WF_vars(Next)

-----------------------------------------------------------------------------
(* The configurations whose entries the server confirms all. *)
Registrable(c) ==
    /\ Len(c.client_proxy) <= MaxProxies
    /\ \A i \in DOMAIN c.client_proxy :
          /\ c.client_proxy[i].bind_port >= 1024
          /\ \A j \in 1..(i - 1) : c.client_proxy[j].bind_port # c.client_proxy[i].bind_port

(* All proxies or none: a client serves exactly when every entry can be    *)
(* registered, and then each recorded entry still has the address the      *)
(* file gave it, which the frames it travelled in do not carry.            *)
ServesAllOrNone ==
    stage = "serving" =>
        /\ Registrable(config)
        /\ Len(registered) = Len(config.client_proxy)
        /\ \A i \in DOMAIN registered :
              registered[i].addr = <<config.client_proxy[i].proxy_ip, config.client_proxy[i].proxy_port>>

(* A validated client that can reach its server and whose entries can all  *)
(* be registered ends up serving them.                                     *)
RegistrableServes ==
    stage = "valid" /\ config.running_mode = "Client" /\ Reaches(config) /\ Registrable(config)
        ~> stage = "serving"

=============================================================================
