--------------------------- MODULE StartupProofs ----------------------------
(***************************************************************************)
(* Proofs about Startup, for any set of configuration files.               *)
(***************************************************************************)
EXTENDS Startup, SequenceTheorems, TLAPS

Entry(addrs) == [proxy_ip : STRING, proxy_port : Port, bind_port : Port, addr : addrs]

Address(e) == <<e.proxy_ip, e.proxy_port>>

(* Before ConfigInfo::init no address is cached, after it every one is. *)
Loaded ==
    IF stage = "start"
    THEN config \in Files
    ELSE stage # "panic" =>
            /\ config.client_proxy \in Seq(Entry(STRING \X Port))
            /\ \A i \in 1..Len(config.client_proxy) :
                  config.client_proxy[i].addr = Address(config.client_proxy[i])

(* The entries confirmed so far are the first ones of the file, each with  *)
(* a port of its own, which the session has bound.                         *)
Confirmed ==
    stage \in {"register", "serving"} =>
        /\ registered \in Seq(Entry(STRING \X Port))
        /\ Len(registered) <= MaxProxies /\ Len(registered) <= Len(config.client_proxy)
        /\ \A i \in 1..Len(registered) :
              /\ registered[i] = config.client_proxy[i]
              /\ registered[i].bind_port >= 1024 /\ registered[i].bind_port \in bound
              /\ \A j \in 1..(i - 1) : registered[j].bind_port # registered[i].bind_port

StartupInv ==
    /\ Loaded /\ Confirmed
    /\ stage = "serving" => Len(registered) = Len(config.client_proxy)

LEMMA InitStartupInv == Init => StartupInv
BY DEF Init, StartupInv, Loaded, Confirmed

(* ConfigInfo::init gives every entry its address. *)
LEMMA InitLoads ==
    ASSUME NEW c \in ConfigFile
    PROVE  LET p == init(c).client_proxy
           IN  /\ p \in Seq(Entry(STRING \X Port))
               /\ \A i \in 1..Len(p) : p[i].addr = Address(p[i])
<1> DEFINE q == c.client_proxy
           f(e) == [e EXCEPT !.addr = <<e.proxy_ip, e.proxy_port>>]
           p == [i \in DOMAIN q |-> f(q[i])]
<1>1. q \in Seq(Entry({NoAddr}))
  BY DEF ConfigFile, Entry
<1>2. init(c).client_proxy = p
  BY DEF init, ConfigFile
<1>3. ASSUME NEW e \in Entry({NoAddr})
      PROVE  f(e) \in Entry(STRING \X Port) /\ f(e).addr = Address(f(e))
  BY DEF Entry, Address
<1> HIDE DEF f, q
<1>4. DOMAIN q = 1..Len(q) /\ Len(q) \in Nat /\ \A i \in 1..Len(q) : q[i] \in Entry({NoAddr})
  BY <1>1, ElementOfSeq, LenProperties
<1>5. \A i \in 1..Len(q) : f(q[i]) \in Entry(STRING \X Port)
  BY <1>3, <1>4
<1>6. p \in Seq(Entry(STRING \X Port)) /\ Len(p) = Len(q)
  <2> DEFINE E == Entry(STRING \X Port)
             n == Len(q)
  <2>1. n \in Nat /\ p = [i \in 1..n |-> f(q[i])] /\ \A i \in 1..n : f(q[i]) \in E
    BY <1>4, <1>5
  <2> HIDE DEF E, n, p
  <2>2. p \in [1..n -> E]
    BY <2>1
  <2>3. p \in Seq(E) /\ Len(p) = n
    BY <2>1, <2>2
  <2> QED BY <2>3 DEF E, n
<1>7. \A i \in 1..Len(p) : p[i].addr = Address(p[i])
  BY <1>3, <1>4, <1>6
<1> HIDE DEF p
<1> QED BY <1>2, <1>6, <1>7

LEMMA NextStartupInv ==
    ASSUME StartupInv, [Next]_vars
    PROVE  StartupInv'
<1> USE DEF StartupInv
<1>1. CASE New
  <2>1. stage = "start" /\ stage' \in {"parsed", "panic"}
    BY <1>1 DEF New
  <2>2. config \in ConfigFile
    BY <2>1, StartupAssumption DEF Loaded
  <2>3. stage' # "panic" => config' = init(config)
    BY <1>1 DEF New
  <2>4. Loaded'
    BY <2>1, <2>2, <2>3, InitLoads DEF Loaded
  <2> QED BY <2>1, <2>4 DEF Confirmed
<1>2. CASE Validate
  BY <1>2 DEF Validate, Loaded, Confirmed
<1>3. CASE RunServer
  BY <1>3 DEF RunServer, Loaded, Confirmed
<1>4. CASE RunClient
  <2>1. /\ stage \in {"valid", "retry"} /\ stage' \in {"register", "retry"}
        /\ registered' = <<>> /\ config' = config
    BY <1>4 DEF RunClient
  <2>2. Loaded'
    BY <2>1 DEF Loaded
  <2>3. /\ <<>> \in Seq(Entry(STRING \X Port)) /\ Len(<<>>) = 0 /\ MaxProxies >= 0
        /\ 1..0 = {}
    BY EmptySeq, StartupAssumption
  <2>4. Len(config.client_proxy) \in Nat
    BY <2>1 DEF Loaded
  <2>5. Confirmed'
    BY <2>1, <2>3, <2>4 DEF Confirmed
  <2> QED BY <2>1, <2>2, <2>5
<1>5. CASE Register
  <2> DEFINE n == Len(registered)
             p == config.client_proxy
             e == p[n + 1]
  <2>1. stage = "register" /\ n < Len(p) /\ config' = config /\ stage' \in {"register", "retry"}
    BY <1>5 DEF Register
  <2>2. Loaded'
    BY <2>1 DEF Loaded
  <2>3. /\ p \in Seq(Entry(STRING \X Port)) /\ registered \in Seq(Entry(STRING \X Port))
        /\ n \in Nat /\ Len(p) \in Nat
    BY <2>1 DEF Loaded, Confirmed
  <2>4. e \in Entry(STRING \X Port)
    BY <2>1, <2>3, ElementOfSeq
  <2>5. CASE stage' = "retry"
    BY <2>2, <2>5 DEF Confirmed
  <2>6. CASE stage' = "register"
    <3>1. Accepts(Received(e)) /\ registered' = Append(registered, e) /\ bound' = bound \cup {e.bind_port}
      BY <1>5, <2>1, <2>6 DEF Register, Recorded
    <3>2. Received(e).bind_port = e.bind_port
      BY <2>4 DEF Received, Entry
    <3>3. e.bind_port >= 1024 /\ e.bind_port \notin bound /\ n < MaxProxies
      BY <3>1, <3>2 DEF Accepts
    <3>4. /\ registered' \in Seq(Entry(STRING \X Port)) /\ Len(registered') = n + 1
          /\ registered'[n + 1] = e /\ \A i \in 1..n : registered'[i] = registered[i]
      BY <2>3, <2>4, <3>1, AppendProperties
    <3>5. n + 1 <= MaxProxies /\ n + 1 <= Len(p)
      BY <2>1, <2>3, <3>3, StartupAssumption
    <3>6. \A i \in 1..n : /\ registered[i] = p[i]
                          /\ registered[i].bind_port >= 1024 /\ registered[i].bind_port \in bound
                          /\ \A j \in 1..(i - 1) : registered[j].bind_port # registered[i].bind_port
      BY <2>1 DEF Confirmed
    <3> HIDE DEF n, p, e
    <3>7. ASSUME NEW i \in 1..(n + 1)
          PROVE  /\ registered'[i] = p[i]
                 /\ registered'[i].bind_port >= 1024 /\ registered'[i].bind_port \in bound'
                 /\ \A j \in 1..(i - 1) : registered'[j].bind_port # registered'[i].bind_port
      <4>1. CASE i = n + 1
        <5>1. p[n + 1] = e /\ i - 1 = n
          BY <2>3, <4>1 DEF e
        <5>2. \A j \in 1..n : registered[j].bind_port # e.bind_port
          BY <3>3, <3>6
        <5> QED BY <3>1, <3>3, <3>4, <4>1, <5>1, <5>2
      <4>2. CASE i \in 1..n
        <5>1. \A j \in 1..(i - 1) : j \in 1..n
          BY <2>3, <4>2
        <5> QED BY <3>1, <3>4, <3>6, <4>2, <5>1
      <4> QED BY <2>3, <4>1, <4>2
    <3>8. Confirmed'
      <4>1. config'.client_proxy = p
        BY <2>1 DEF p
      <4> QED BY <3>4, <3>5, <3>7, <4>1 DEF Confirmed
    <3> QED BY <2>2, <2>6, <3>8
  <2> QED BY <2>1, <2>5, <2>6
<1>6. CASE Registered
  BY <1>6 DEF Registered, Loaded, Confirmed
<1>7. CASE UNCHANGED vars
  BY <1>7 DEF vars, Loaded, Confirmed
<1> QED BY <1>1, <1>2, <1>3, <1>4, <1>5, <1>6, <1>7 DEF Next

(* A client that serves has every entry of its file registered, each on a  *)
(* port of its own and with the address the file gave it.                  *)
THEOREM AllOrNone == Spec => []ServesAllOrNone
<1>1. StartupInv => ServesAllOrNone
  <2> SUFFICES ASSUME StartupInv, stage = "serving"
               PROVE  /\ Registrable(config)
                      /\ Len(registered) = Len(config.client_proxy)
                      /\ \A i \in DOMAIN registered :
                            registered[i].addr = <<config.client_proxy[i].proxy_ip, config.client_proxy[i].proxy_port>>
    BY DEF ServesAllOrNone
  <2> DEFINE p == config.client_proxy
  <2>1. /\ Len(registered) = Len(p) /\ p \in Seq(Entry(STRING \X Port))
        /\ \A i \in 1..Len(p) : p[i].addr = Address(p[i])
    BY DEF StartupInv, Loaded
  <2>2. /\ registered \in Seq(Entry(STRING \X Port)) /\ Len(registered) <= MaxProxies
        /\ \A i \in 1..Len(registered) :
              /\ registered[i] = p[i]
              /\ registered[i].bind_port >= 1024
              /\ \A j \in 1..(i - 1) : registered[j].bind_port # registered[i].bind_port
    BY DEF StartupInv, Confirmed
  <2>3. /\ DOMAIN registered = 1..Len(registered) /\ DOMAIN p = 1..Len(p) /\ Len(p) \in Nat
    BY <2>1, <2>2
  <2> HIDE DEF p
  <2>4. \A i \in 1..Len(p) : \A j \in 1..(i - 1) : j \in 1..Len(p)
    BY <2>3
  <2>5. \A i \in DOMAIN p : /\ p[i].bind_port >= 1024
                            /\ \A j \in 1..(i - 1) : p[j].bind_port # p[i].bind_port
    BY <2>1, <2>2, <2>3, <2>4
  <2>6. Registrable(config)
    BY <2>1, <2>2, <2>5 DEF Registrable, p
  <2>7. \A i \in DOMAIN registered : registered[i].addr = <<p[i].proxy_ip, p[i].proxy_port>>
    BY <2>1, <2>2, <2>3 DEF Address
  <2> QED BY <2>1, <2>6, <2>7 DEF p
<1>2. StartupInv /\ [Next]_vars => StartupInv'
  BY NextStartupInv
<1> QED BY <1>1, <1>2, InitStartupInv, PTL DEF Spec
=============================================================================
