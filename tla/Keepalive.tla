----------------------------- MODULE Keepalive ------------------------------
(***************************************************************************)
(* The clocks of a session: heartbeat and keepalive timeout of both sides, *)
(* and the delay of the reconnect loop, whose attempts take the time of a  *)
(* TCP connect, a nonce exchange and a registration.  One client with one  *)
(* proxy; what it sends takes up to NetDelay, and now and then its         *)
(* connection is silently cut, so that the server's session stays behind   *)
(* and holds the port until its own timeout.  The server has a permit for  *)
(* each attempt: the queue for permits is the subject of Lifecycle.  Time  *)
(* is counted in ticks.                                                    *)
(***************************************************************************)
EXTENDS Integers, Sequences, FiniteSetsExt

CONSTANTS
    PingInterval,  \* PING_INTERVAL (30 s)
    Timeout,       \* KEEPALIVE_TIMEOUT of both sides (90 s)
    HandshakeTimeout,  \* HANDSHAKE_TIMEOUT_SECS of both sides (10 s)
    InitialDelay,  \* INITIAL_RECONNECT_DELAY (3 s)
    MaxDelay,      \* MAX_RECONNECT_DELAY (60 s)
    NetDelay,      \* longest way of a frame from one side to the other
    U64Max,        \* where u64 arithmetic saturates
    PastAttempts,  \* bound: failed connects before the behaviour starts
    MaxAttempts,   \* bound: connection attempts in a behaviour
    MaxFaults      \* bound: cuts and failed connects in a behaviour

(* "This is 3x the ping interval to tolerate missed pings and network      *)
(* jitter": the jitter that leaves room for.  The handshake leaves less:   *)
(* over a network that needs longer for two nonces no attempt succeeds.    *)
ASSUME KeepaliveAssumption ==
    /\ {PingInterval, Timeout, HandshakeTimeout, InitialDelay, MaxDelay, NetDelay}
          \subseteq Nat \ {0}
    /\ InitialDelay <= MaxDelay /\ MaxDelay <= U64Max
    /\ PingInterval + 2 * NetDelay <= Timeout
    /\ 2 * NetDelay <= HandshakeTimeout /\ HandshakeTimeout <= Timeout
    /\ {U64Max, PastAttempts, MaxAttempts, MaxFaults} \subseteq Nat

VARIABLES
    client,        \* "sleep", "connect", "handshake", "register" or "run"
    session,       \* the server session that holds the port: "none", "own" or "stale"
    cut,           \* the client's connection no longer carries anything
    up, down,      \* frames in flight, each with the ticks since it was sent
    cidle, sidle,  \* ticks the client, the session has been waiting for its peer
    tick,          \* ticks until the next heartbeat
    wake,          \* ticks until the reconnect delay is over
    attempt,       \* attempts so far
    faults,        \* cuts and failed connects so far
    outage         \* ticks without service since the last fault

vars == <<client, session, cut, up, down, cidle, sidle, tick, wake, attempt, faults, outage>>

(* The client is about to connect, for the first time or after a number    *)
(* of failures: the server may have been down until now.                   *)
Init ==
    /\ client = "sleep" /\ session = "none" /\ cut = FALSE
    /\ up = <<>> /\ down = <<>> /\ cidle = 0 /\ sidle = 0 /\ tick = PingInterval
    /\ wake = 0 /\ attempt \in 0..PastAttempts /\ faults = 0 /\ outage = 0

-----------------------------------------------------------------------------
(* Seeded fault: wrapping arithmetic. *)
WrappingMul(a, b) == (a * b) % (U64Max + 1)

(* u64::saturating_mul *)
SatMul(a, b) == Min({a * b, U64Max})

(* 2u64.saturating_pow(n) *)
SatPow2(n) ==
    LET pow[i \in 0..n] == IF i = 0 THEN 1 ELSE SatMul(2, pow[i - 1])
    IN  pow[n]

(* Seeded fault: the delay is not capped. *)
calc_reconnect_uncapped(a) == SatMul(InitialDelay, SatPow2(Max({a - 1, 0})))

calc_reconnect_delay(a) == Min({SatMul(InitialDelay, SatPow2(Max({a - 1, 0}))), MaxDelay})

-----------------------------------------------------------------------------
Sent(m, q) == IF cut THEN q ELSE Append(q, [frame |-> m, age |-> 0])

(* run_proxy of the client has returned: it sleeps, and unless the         *)
(* connection is cut the server sees its end.                              *)
ClientReturns ==
    /\ client' = "sleep"
    /\ wake' = calc_reconnect_delay(attempt)
    /\ session' = IF session = "own" THEN IF cut THEN "stale" ELSE "none" ELSE session
    /\ up' = <<>> /\ down' = <<>>

(* The next attempt: TcpStream::connect(server_addr).await. *)
Connect ==
    /\ client = "sleep" /\ wake = 0 /\ attempt < MaxAttempts
    /\ attempt' = attempt + 1
    /\ client' = "connect" /\ cut' = FALSE /\ cidle' = 0
    /\ UNCHANGED <<session, up, down, sidle, tick, wake, faults, outage>>

(* It fails: the server is down or out of reach. *)
ConnectFails ==
    /\ client = "connect" /\ faults < MaxFaults
    /\ ClientReturns
    /\ faults' = faults + 1 /\ outage' = 0
    /\ UNCHANGED <<cut, cidle, sidle, tick, attempt>>

(* It succeeds, within a round trip, and run_proxy starts with the nonce   *)
(* of the client.                                                          *)
Connected ==
    /\ client = "connect"
    /\ client' = "handshake" /\ cidle' = 0
    /\ up' = Sent("client_nonce", up)
    /\ UNCHANGED <<session, cut, down, sidle, tick, wake, attempt, faults, outage>>

(* server_handshake: the nonce is answered.  Until it has registered, the  *)
(* task that does so holds no port, and its timeouts free none.            *)
SNonce ==
    /\ up # <<>> /\ Head(up).frame = "client_nonce"
    /\ up' = Tail(up) /\ down' = Sent("server_nonce", down)
    /\ UNCHANGED <<client, session, cut, cidle, sidle, tick, wake, attempt, faults, outage>>

(* client_handshake has the answer: Register is sent. *)
CNonce ==
    /\ down # <<>> /\ Head(down).frame = "server_nonce"
    /\ down' = Tail(down) /\ up' = Sent("Register", up)
    /\ client' = "register" /\ cidle' = 0
    /\ UNCHANGED <<session, cut, sidle, tick, wake, attempt, faults, outage>>

(* The server reads Register and binds the port, unless a session that is  *)
(* left over still holds it.                                               *)
SRegister ==
    /\ up # <<>> /\ Head(up).frame = "Register"
    /\ up' = Tail(up)
    /\ \/ session = "none" /\ session' = "own" /\ sidle' = 0 /\ down' = Sent("ack", down)
       \/ session # "none" /\ UNCHANGED <<session, sidle>> /\ down' = Sent("nack", down)
    /\ UNCHANGED <<client, cut, cidle, tick, wake, attempt, faults, outage>>

(* Seeded fault: a ping is not answered. *)
SPingSilent ==
    /\ up # <<>> /\ Head(up).frame = "ping"
    /\ up' = Tail(up) /\ sidle' = 0
    /\ UNCHANGED <<client, session, cut, down, cidle, tick, wake, attempt, faults, outage>>

SPing ==
    /\ up # <<>> /\ Head(up).frame = "ping"
    /\ up' = Tail(up) /\ sidle' = 0 /\ down' = Sent("pong", down)
    /\ UNCHANGED <<client, session, cut, cidle, tick, wake, attempt, faults, outage>>

(* The answer to Register: phase 2 starts the heartbeat, whose immediate   *)
(* first tick is skipped; a rejection ends run_proxy.                      *)
CAck ==
    /\ down # <<>> /\ Head(down).frame = "ack"
    /\ down' = Tail(down)
    /\ client' = "run" /\ cidle' = 0 /\ tick' = PingInterval
    /\ UNCHANGED <<session, cut, up, sidle, wake, attempt, faults, outage>>

CNack ==
    /\ down # <<>> /\ Head(down).frame = "nack"
    /\ ClientReturns
    /\ UNCHANGED <<cut, cidle, sidle, tick, attempt, faults, outage>>

CPong ==
    /\ down # <<>> /\ Head(down).frame = "pong"
    /\ down' = Tail(down) /\ cidle' = 0
    /\ UNCHANGED <<client, session, cut, up, sidle, tick, wake, attempt, faults, outage>>

(* interval.tick() of the heartbeat task. *)
Heartbeat ==
    /\ client = "run" /\ tick = 0
    /\ tick' = PingInterval
    /\ up' = Sent("ping", up)
    /\ UNCHANGED <<client, session, cut, down, cidle, sidle, wake, attempt, faults, outage>>

(* How long the client waits: for the connection, which the kernel settles *)
(* in a round trip, for the nonce of the server, for a frame.              *)
Patience ==
    CASE client = "connect"   -> 2 * NetDelay
      [] client = "handshake" -> HandshakeTimeout
      [] OTHER                -> Timeout

(* The timeout around the read of the server nonce or of the answer, or    *)
(* sleep_until(deadline) in the biased select!.                            *)
ClientTimeout ==
    /\ client \in {"handshake", "register", "run"} /\ cidle = Patience /\ down = <<>>
    /\ ClientReturns
    /\ UNCHANGED <<cut, cidle, sidle, tick, attempt, faults, outage>>

(* The same on the server; a client it is still connected to sees the end. *)
ServerTimeout ==
    /\ session # "none" /\ sidle = Timeout
    /\ session = "own" => up = <<>>
    /\ session' = "none"
    /\ \/ session = "own" /\ ~cut /\ client' = "sleep"
             /\ wake' = calc_reconnect_delay(attempt) /\ down' = <<>>
       \/ (session = "stale" \/ cut) /\ UNCHANGED <<client, wake, down>>
    /\ UNCHANGED <<cut, up, cidle, sidle, tick, attempt, faults, outage>>

(* NAT timeout or network partition. *)
Cut ==
    /\ client \notin {"sleep", "connect"} /\ ~cut /\ faults < MaxFaults
    /\ cut' = TRUE /\ up' = <<>> /\ down' = <<>>
    /\ faults' = faults + 1 /\ outage' = 0
    /\ UNCHANGED <<client, session, cidle, sidle, tick, wake, attempt>>

Served == client = "run" /\ session = "own" /\ ~cut

Older(q) == [i \in DOMAIN q |-> [q[i] EXCEPT !.age = @ + 1]]

(* Time passes unless a timer is due or a frame has to arrive. *)
Tick ==
    /\ \A i \in DOMAIN up : up[i].age < NetDelay
    /\ \A i \in DOMAIN down : down[i].age < NetDelay
    /\ client = "sleep" => wake > 0
    /\ client = "run" => tick > 0
    /\ client # "sleep" => cidle < Patience
    /\ session # "none" => sidle < Timeout
    /\ up' = Older(up) /\ down' = Older(down)
    /\ wake' = IF client = "sleep" THEN wake - 1 ELSE wake
    /\ tick' = IF client = "run" THEN tick - 1 ELSE tick
    /\ cidle' = IF client = "sleep" THEN 0 ELSE cidle + 1
    /\ sidle' = IF session = "none" THEN 0 ELSE sidle + 1
    /\ outage' = IF Served THEN 0 ELSE outage + 1
    /\ UNCHANGED <<client, session, cut, attempt, faults>>

Next ==
    \/ Connect \/ ConnectFails \/ Connected \/ SNonce \/ CNonce \/ SRegister \/ SPing
    \/ CAck \/ CNack \/ CPong \/ Heartbeat \/ ClientTimeout \/ ServerTimeout \/ Cut \/ Tick

Spec == Init /\ [][Next]_vars

-----------------------------------------------------------------------------
(* As long as frames arrive within NetDelay, neither side takes the other  *)
(* for dead: a client gives up a handshake or leaves a session it was      *)
(* admitted to only when its connection has been cut.                      *)
NoFalseTimeout ==
    [][(client \in {"handshake", "run"} /\ client' = "sleep")
          \/ (session = "own" /\ session' = "none") => cut]_vars

(* However long the client has been failing, its service is back within    *)
(* one keepalive timeout of the server, one reconnect delay and the way of *)
(* seven messages after the last fault, although its first attempts are    *)
(* rejected while the old session holds the port: the last rejection, then *)
(* a round trip each for the TCP connect, the nonces and the registration. *)
BackInTime == outage <= Timeout + MaxDelay + 7 * NetDelay

(* The delay after the n-th attempt: InitialDelay at first, then each time *)
(* the double of the one before and at most MaxDelay, also where the       *)
(* arithmetic of the code saturates.                                       *)
Doubled(n) ==
    LET delay[i \in 0..(n - 1)] ==
            IF i = 0 THEN InitialDelay ELSE Min({2 * delay[i - 1], MaxDelay})
    IN  delay[n - 1]

DelayDoubles ==
    [][client' = "sleep" /\ client # "sleep" => wake' = Doubled(attempt)]_vars
=============================================================================
