-------------------------- MODULE KeepaliveProofs ---------------------------
(***************************************************************************)
(* Theorems about the clocks of a session, for every choice of intervals,  *)
(* timeouts and delays that leaves the room the constants leave, and any   *)
(* number of attempts and faults.                                          *)
(***************************************************************************)
EXTENDS Keepalive, WellFoundedInduction, TLAPS

Clocks ==
    /\ client \in {"sleep", "connect", "handshake", "register", "run"}
    /\ session \in {"none", "own", "stale"}
    /\ cidle \in 0..Timeout /\ (client = "connect" => cidle <= 2 * NetDelay)
    /\ sidle \in 0..Timeout
    /\ tick \in 0..PingInterval /\ wake \in 0..MaxDelay
    /\ attempt \in Nat /\ faults \in Nat /\ outage \in Nat

(* Queues of frames under way: one frame of a kind, any number of a kind. *)
Kind == {"client_nonce", "server_nonce", "Register", "ack", "nack", "ping", "pong"}
Flight == [frame : Kind, age : 0..NetDelay]
Many(q, kind) == q \in Seq(Flight) /\ \A i \in DOMAIN q : q[i].frame = kind
One(q, kind) == Many(q, kind) /\ Len(q) = 1

(* What can be under way: nothing over a connection that is closed, cut or *)
(* not yet there, one nonce in the handshake, one registration or its      *)
(* answer in phase 1, pings and pongs in phase 2.                          *)
Greets   == One(up, "client_nonce") /\ down = <<>> /\ session # "own" /\ cidle <= up[1].age
Greeted  == up = <<>> /\ One(down, "server_nonce") /\ session # "own"
Asks     == One(up, "Register") /\ down = <<>> /\ session # "own" /\ cidle <= up[1].age
Admitted == up = <<>> /\ One(down, "ack") /\ session = "own" /\ sidle = down[1].age
Refused  == up = <<>> /\ One(down, "nack") /\ session # "own"

Traffic ==
    /\ client \in {"sleep", "connect"} => session # "own"
    /\ client \in {"sleep", "connect"} \/ cut => up = <<>> /\ down = <<>>
    /\ client = "connect" => ~cut
    /\ client = "handshake" /\ ~cut => Greets \/ Greeted
    /\ client = "register" /\ ~cut => Asks \/ Admitted \/ Refused
    /\ client = "run" /\ ~cut => session = "own" /\ Many(up, "ping") /\ Many(down, "pong")

(* How long either side can have heard nothing: up to the arrival of what  *)
(* is under way, and if nothing is, since the last heartbeat.              *)
ServerHears ==
    client = "run" /\ ~cut =>
        sidle <= NetDelay + PingInterval + (IF up = <<>> THEN -tick ELSE up[1].age)

ClientHears ==
    client = "run" /\ ~cut =>
        cidle <= PingInterval + (IF down # <<>> THEN NetDelay + down[1].age
                                 ELSE IF up # <<>> THEN up[1].age ELSE -tick)

(* How long service can have been missing, by what the client is doing. *)
Outage ==
    /\ session = "stale" \/ (session = "own" /\ cut) => outage <= sidle
    /\ client # "sleep" /\ cut => outage <= cidle
    /\ client = "sleep" => outage <= Timeout + NetDelay + MaxDelay - wake
    /\ client = "connect" => outage <= Timeout + MaxDelay + NetDelay + cidle
    /\ client = "handshake" /\ ~cut =>
          /\ Greets => outage <= Timeout + MaxDelay + 3 * NetDelay + up[1].age
          /\ Greeted => outage <= Timeout + MaxDelay + 4 * NetDelay + down[1].age
    /\ client = "register" /\ ~cut =>
          /\ Asks => outage <= Timeout + MaxDelay + 5 * NetDelay + up[1].age
          /\ Refused => outage <= Timeout + down[1].age
          /\ Admitted => outage <= Timeout + MaxDelay + 6 * NetDelay + down[1].age
    /\ client = "run" => BackInTime

KeepaliveInv == Clocks /\ Traffic /\ ServerHears /\ ClientHears /\ Outage

-----------------------------------------------------------------------------
(* The delay of the reconnect loop. *)

LEMMA SetInduction ==
    ASSUME NEW T, 0 \in T, \A n \in Nat : n \in T => n + 1 \in T
    PROVE  \A n \in Nat : n \in T
<1> SUFFICES ASSUME Nat \ T # {} PROVE FALSE
  OBVIOUS
<1> DEFINE R == OpToRel(<, Nat)
<1>1. IsWellFoundedOn(R, Nat)
  BY NatLessThanWellFounded
<1>2. \A x, y \in Nat : x < y => <<x, y>> \in R
  BY DEF OpToRel
<1> HIDE DEF R
<1>3. PICK x \in Nat \ T : \A y \in Nat \ T : ~ (<<y, x>> \in R)
  BY <1>1, WFMin
<1>4. x # 0 /\ x - 1 \in Nat /\ x - 1 < x
  BY <1>3
<1>5. x - 1 \in T
  BY <1>2, <1>3, <1>4
<1> QED BY <1>3, <1>4, <1>5

LEMMA MinOfTwo ==
    ASSUME NEW a \in Int, NEW b \in Int
    PROVE  Min({a, b}) = IF a <= b THEN a ELSE b
BY DEF Min

LEMMA MaxOfTwo ==
    ASSUME NEW a \in Int, NEW b \in Int
    PROVE  Max({a, b}) = IF a >= b THEN a ELSE b
BY DEF Max

(* f starts at b and doubles up to m: both SatPow2 and Doubled do. *)
Climbs(f, b, m, n) == f[0] = b /\ \A i \in 1..n : f[i] = Min({2 * f[i - 1], m})

LEMMA ClimbExists ==
    ASSUME NEW b \in Nat, NEW m \in Nat, NEW n \in Nat
    PROVE  \E f \in [0..n -> Nat] : Climbs(f, b, m, n)
<1> DEFINE T == {k \in Nat : \E f \in [0..k -> Nat] : Climbs(f, b, m, k)}
<1>1. 0 \in T
  <2> DEFINE g == [i \in 0..0 |-> b]
  <2>1. g \in [0..0 -> Nat] /\ Climbs(g, b, m, 0)
    BY DEF Climbs
  <2> QED BY <2>1
<1>2. ASSUME NEW k \in Nat, k \in T PROVE k + 1 \in T
  <2>1. PICK f \in [0..k -> Nat] : Climbs(f, b, m, k)
    BY <1>2
  <2> DEFINE last == Min({2 * f[k], m})
             g == [i \in 0..(k + 1) |-> IF i = k + 1 THEN last ELSE f[i]]
  <2>2. last \in Nat
    <3>1. f[k] \in Nat /\ 2 * f[k] \in Nat
      OBVIOUS
    <3> QED BY <3>1, MinOfTwo
  <2> HIDE DEF last
  <2>3. g \in [0..(k + 1) -> Nat]
    BY <2>2
  <2>4. g[0] = b
    BY <2>1 DEF Climbs
  <2>5. ASSUME NEW i \in 1..(k + 1) PROVE g[i] = Min({2 * g[i - 1], m})
    <3>1. CASE i = k + 1
      <4>1. g[i] = last /\ g[i - 1] = f[k]
        BY <3>1
      <4> QED BY <4>1 DEF last
    <3>2. CASE i # k + 1
      <4>1. g[i] = f[i] /\ g[i - 1] = f[i - 1] /\ i \in 1..k
        BY <3>2
      <4> QED BY <4>1, <2>1 DEF Climbs
    <3> QED BY <3>1, <3>2
  <2> HIDE DEF g
  <2>6. Climbs(g, b, m, k + 1)
    BY <2>4, <2>5 DEF Climbs
  <2>7. \E h \in [0..(k + 1) -> Nat] : Climbs(h, b, m, k + 1)
    BY <2>3, <2>6, Zenon
  <2>8. k + 1 \in Nat
    OBVIOUS
  <2> QED BY <2>7, <2>8, Zenon
<1> HIDE DEF T
<1>3. n \in T
  BY <1>1, <1>2, SetInduction
<1> QED BY <1>3 DEF T

LEMMA ClimbUnique ==
    ASSUME NEW b, NEW m, NEW n \in Nat, NEW f, NEW g, Climbs(f, b, m, n), Climbs(g, b, m, n)
    PROVE  \A i \in 0..n : f[i] = g[i]
<1> DEFINE T == {i \in Nat : i \in 0..n => f[i] = g[i]}
<1>1. 0 \in T
  BY DEF Climbs
<1>2. ASSUME NEW i \in Nat, i \in T PROVE i + 1 \in T
  <2> SUFFICES ASSUME i + 1 \in 0..n PROVE f[i + 1] = g[i + 1]
    OBVIOUS
  <2>1. i \in 0..n /\ i + 1 \in 1..n /\ (i + 1) - 1 = i
    OBVIOUS
  <2>2. f[i] = g[i]
    BY <1>2, <2>1
  <2> QED BY <2>1, <2>2 DEF Climbs
<1> HIDE DEF T
<1>3. \A i \in Nat : i \in T
  BY <1>1, <1>2, SetInduction
<1> QED BY <1>3 DEF T

(* The recursive definition of such an f has a solution. *)
LEMMA ClimbChosen ==
    ASSUME NEW b \in Nat, NEW m \in Nat, NEW n \in Nat, NEW f,
           f = CHOOSE g : g = [i \in 0..n |-> IF i = 0 THEN b ELSE Min({2 * g[i - 1], m})]
    PROVE  Climbs(f, b, m, n) /\ \A i \in 0..n : f[i] \in Nat
<1> DEFINE Solves(g) == g = [i \in 0..n |-> IF i = 0 THEN b ELSE Min({2 * g[i - 1], m})]
<1>1. PICK g \in [0..n -> Nat] : Climbs(g, b, m, n)
  BY ClimbExists
<1>2. Solves(g)
  <2>1. ASSUME NEW i \in 0..n PROVE g[i] = IF i = 0 THEN b ELSE Min({2 * g[i - 1], m})
    <3>1. i # 0 => i \in 1..n
      OBVIOUS
    <3> QED BY <1>1, <3>1 DEF Climbs
  <2>2. g = [i \in 0..n |-> g[i]]
    BY <1>1
  <2> QED BY <2>1, <2>2, Zenon
<1>3. Solves(f)
  BY <1>2
<1>4. Climbs(f, b, m, n)
  <2>1. \A i \in 0..n : f[i] = IF i = 0 THEN b ELSE Min({2 * f[i - 1], m})
    BY <1>3, Zenon
  <2>2. 0 \in 0..n /\ \A i \in 1..n : i \in 0..n /\ i # 0
    OBVIOUS
  <2> QED BY <2>1, <2>2, Zenon DEF Climbs
<1>5. \A i \in 0..n : f[i] = g[i]
  BY <1>1, <1>4, ClimbUnique
<1> QED BY <1>1, <1>4, <1>5

LEMMA SatPow2Climbs ==
    ASSUME NEW n \in Nat
    PROVE  \E f : /\ Climbs(f, 1, U64Max, n) /\ \A i \in 0..n : f[i] \in Nat
                  /\ SatPow2(n) = f[n]
<1> DEFINE f == CHOOSE g : g = [i \in 0..n |-> IF i = 0 THEN 1 ELSE Min({2 * g[i - 1], U64Max})]
<1>1. SatPow2(n) = f[n]
  BY DEF SatPow2, SatMul
<1>2. 1 \in Nat /\ U64Max \in Nat
  BY KeepaliveAssumption
<1>3. Climbs(f, 1, U64Max, n) /\ \A i \in 0..n : f[i] \in Nat
  BY <1>2, ClimbChosen
<1> HIDE DEF f
<1> QED BY <1>1, <1>3

LEMMA DoubledClimbs ==
    ASSUME NEW n \in Nat, n # 0
    PROVE  \E f : /\ Climbs(f, InitialDelay, MaxDelay, n - 1) /\ \A i \in 0..(n - 1) : f[i] \in Nat
                  /\ Doubled(n) = f[n - 1]
<1> DEFINE f == CHOOSE g : g = [i \in 0..(n - 1) |->
                                   IF i = 0 THEN InitialDelay ELSE Min({2 * g[i - 1], MaxDelay})]
<1>1. Doubled(n) = f[n - 1]
  BY DEF Doubled
<1>2. InitialDelay \in Nat /\ MaxDelay \in Nat /\ n - 1 \in Nat
  BY KeepaliveAssumption
<1>3. Climbs(f, InitialDelay, MaxDelay, n - 1) /\ \A i \in 0..(n - 1) : f[i] \in Nat
  BY <1>2, ClimbChosen
<1> HIDE DEF f
<1> QED BY <1>1, <1>3

LEMMA Products ==
    ASSUME NEW a \in Nat, NEW x \in Nat, a >= 1
    PROVE  a * x \in Nat /\ a * x >= x /\ a * (2 * x) = 2 * (a * x)
OBVIOUS

(* One after the other, both stop in time: where the powers saturate the   *)
(* delay has long reached its limit.                                       *)
LEMMA ClimbsTogether ==
    ASSUME NEW n \in Nat, NEW f, NEW g,
           Climbs(f, 1, U64Max, n), Climbs(g, InitialDelay, MaxDelay, n),
           \A i \in 0..n : f[i] \in Nat, \A i \in 0..n : g[i] \in Nat
    PROVE  \A i \in 0..n : g[i] = IF InitialDelay * f[i] <= MaxDelay
                                    THEN InitialDelay * f[i] ELSE MaxDelay
<1> DEFINE Agree(i) == g[i] = IF InitialDelay * f[i] <= MaxDelay
                              THEN InitialDelay * f[i] ELSE MaxDelay
           T == {i \in Nat : i \in 0..n => Agree(i)}
<1>0. /\ InitialDelay \in Nat /\ InitialDelay >= 1 /\ MaxDelay \in Nat /\ U64Max \in Nat
      /\ InitialDelay <= MaxDelay /\ MaxDelay <= U64Max
  BY KeepaliveAssumption
<1>1. 0 \in T
  BY <1>0 DEF Climbs
<1>2. ASSUME NEW i \in Nat, i \in T PROVE i + 1 \in T
  <2> SUFFICES ASSUME i + 1 \in 0..n PROVE Agree(i + 1)
    OBVIOUS
  <2>1. i \in 0..n /\ i + 1 \in 1..n /\ (i + 1) - 1 = i
    OBVIOUS
  <2> DEFINE x == f[i]
             y == InitialDelay * x
  <2>2. x \in Nat /\ g[i] \in Nat
    BY <2>1
  <2>3. y \in Nat /\ y >= x /\ InitialDelay * (2 * x) = 2 * y
    BY <1>0, <2>2, Products
  <2>4. InitialDelay * U64Max \in Nat /\ InitialDelay * U64Max >= U64Max
    BY <1>0, Products
  <2>5. g[i] = IF y <= MaxDelay THEN y ELSE MaxDelay
    BY <1>2, <2>1
  <2>6. f[i + 1] = Min({2 * x, U64Max}) /\ g[i + 1] = Min({2 * g[i], MaxDelay})
    BY <2>1 DEF Climbs
  <2> HIDE DEF y, x
  <2>7. f[i + 1] = (IF 2 * x <= U64Max THEN 2 * x ELSE U64Max)
    BY <1>0, <2>2, <2>6, MinOfTwo
  <2>8. g[i + 1] = IF 2 * g[i] <= MaxDelay THEN 2 * g[i] ELSE MaxDelay
    BY <1>0, <2>2, <2>6, MinOfTwo
  <2>9. CASE 2 * x <= U64Max
    <3>1. InitialDelay * f[i + 1] = 2 * y
      BY <2>3, <2>7, <2>9
    <3>2. g[i + 1] = IF 2 * y <= MaxDelay THEN 2 * y ELSE MaxDelay
      BY <1>0, <2>3, <2>5, <2>8
    <3> QED BY <3>1, <3>2
  <2>10. CASE ~(2 * x <= U64Max)
    <3>1. f[i + 1] = U64Max
      BY <2>7, <2>10
    <3>2. g[i + 1] = MaxDelay
      BY <1>0, <2>2, <2>3, <2>5, <2>8, <2>10
    <3>3. IF InitialDelay * U64Max <= MaxDelay THEN InitialDelay * U64Max = MaxDelay ELSE TRUE
      BY <1>0, <2>4
    <3> QED BY <3>1, <3>2, <3>3
  <2> QED BY <2>9, <2>10
<1> HIDE DEF T
<1>3. \A i \in Nat : i \in T
  BY <1>1, <1>2, SetInduction
<1> QED BY <1>3 DEF T

(* The delay the code computes is the one that doubles up to its limit. *)
LEMMA DelayIsDoubled ==
    ASSUME NEW a \in Nat, a # 0
    PROVE  calc_reconnect_delay(a) = Doubled(a)
<1>0. /\ InitialDelay \in Nat /\ InitialDelay >= 1 /\ MaxDelay \in Nat /\ U64Max \in Nat
      /\ MaxDelay <= U64Max
  BY KeepaliveAssumption
<1>1. a - 1 \in Nat /\ Max({a - 1, 0}) = a - 1
  BY MaxOfTwo
<1>2. PICK f : /\ Climbs(f, 1, U64Max, a - 1) /\ \A i \in 0..(a - 1) : f[i] \in Nat
               /\ SatPow2(a - 1) = f[a - 1]
  BY <1>1, SatPow2Climbs
<1>3. PICK g : /\ Climbs(g, InitialDelay, MaxDelay, a - 1) /\ \A i \in 0..(a - 1) : g[i] \in Nat
               /\ Doubled(a) = g[a - 1]
  BY DoubledClimbs
<1>4. a - 1 \in 0..(a - 1)
  BY <1>1
<1> DEFINE x == f[a - 1]
           y == InitialDelay * x
<1>5. Doubled(a) = IF y <= MaxDelay THEN y ELSE MaxDelay
  BY <1>1, <1>2, <1>3, <1>4, ClimbsTogether
<1>6. x \in Nat /\ y \in Nat
  BY <1>0, <1>2, <1>4, Products
<1>7. calc_reconnect_delay(a) = Min({Min({y, U64Max}), MaxDelay})
  BY <1>1, <1>2 DEF calc_reconnect_delay, SatMul
<1> HIDE DEF y
<1>8. Min({y, U64Max}) = IF y <= U64Max THEN y ELSE U64Max
  BY <1>0, <1>6, MinOfTwo
<1>9. Min({y, U64Max}) \in Nat
  BY <1>0, <1>6, <1>8
<1>10. Min({Min({y, U64Max}), MaxDelay})
          = IF Min({y, U64Max}) <= MaxDelay THEN Min({y, U64Max}) ELSE MaxDelay
  BY <1>0, <1>9, MinOfTwo
<1> QED BY <1>0, <1>5, <1>6, <1>7, <1>8, <1>10

(* It never exceeds MaxDelay. *)
LEMMA DelayRange ==
    ASSUME NEW a \in Nat
    PROVE  calc_reconnect_delay(a) \in 0..MaxDelay
<1>0. InitialDelay \in Nat /\ InitialDelay >= 1 /\ MaxDelay \in Nat /\ U64Max \in Nat
  BY KeepaliveAssumption
<1> DEFINE n == Max({a - 1, 0})
           y == InitialDelay * SatPow2(n)
<1>1. n \in Nat
  BY MaxOfTwo
<1> HIDE DEF n
<1>2. SatPow2(n) \in Nat
  BY <1>1, SatPow2Climbs
<1>3. y \in Nat
  BY <1>0, <1>2, Products
<1>4. calc_reconnect_delay(a) = Min({Min({y, U64Max}), MaxDelay})
  BY DEF calc_reconnect_delay, SatMul, n
<1> HIDE DEF y
<1>5. Min({y, U64Max}) \in Nat
  BY <1>0, <1>3, MinOfTwo
<1> QED BY <1>0, <1>4, <1>5, MinOfTwo

-----------------------------------------------------------------------------
(* Queues of frames under way. *)

LEMMA Constants ==
    /\ PingInterval \in Nat /\ Timeout \in Nat /\ MaxDelay \in Nat /\ NetDelay \in Nat
    /\ HandshakeTimeout \in Nat /\ PingInterval > 0 /\ NetDelay > 0
    /\ PingInterval + 2 * NetDelay <= Timeout
    /\ 2 * NetDelay <= HandshakeTimeout /\ HandshakeTimeout <= Timeout
BY KeepaliveAssumption

LEMMA Dequeue ==
    ASSUME NEW S, NEW q \in Seq(S), q # <<>>
    PROVE  /\ Head(q) = q[1] /\ q[1] \in S /\ 1 \in DOMAIN q
           /\ Tail(q) \in Seq(S) /\ Len(Tail(q)) = Len(q) - 1
           /\ \A i \in DOMAIN Tail(q) : i + 1 \in DOMAIN q /\ Tail(q)[i] = q[i + 1]
OBVIOUS

LEMMA Enqueue ==
    ASSUME NEW S, NEW q \in Seq(S), NEW x \in S
    PROVE  /\ Append(q, x) \in Seq(S) /\ Append(q, x) # <<>>
           /\ Append(q, x)[1] = IF q = <<>> THEN x ELSE q[1]
           /\ \A i \in DOMAIN Append(q, x) :
                 Append(q, x)[i] = x \/ (i \in DOMAIN q /\ Append(q, x)[i] = q[i])
OBVIOUS

LEMMA Lengths ==
    ASSUME NEW S, NEW q \in Seq(S)
    PROVE  q = <<>> <=> Len(q) = 0
OBVIOUS

LEMMA FlightAge == ASSUME NEW x \in Flight PROVE x.age \in 0..NetDelay
BY DEF Flight

LEMMA ManyEmpty == ASSUME NEW kind PROVE Many(<<>>, kind) /\ ~One(<<>>, kind)
BY DEF Many, One

LEMMA ManyHead ==
    ASSUME NEW kind, NEW q, Many(q, kind), q # <<>>
    PROVE  /\ Head(q) = q[1] /\ q[1].frame = kind /\ q[1].age \in 0..NetDelay
           /\ Many(Tail(q), kind)
<1>1. q \in Seq(Flight) /\ \A i \in DOMAIN q : q[i].frame = kind
  BY DEF Many
<1>2. /\ Head(q) = q[1] /\ q[1] \in Flight /\ 1 \in DOMAIN q
      /\ Tail(q) \in Seq(Flight)
      /\ \A i \in DOMAIN Tail(q) : i + 1 \in DOMAIN q /\ Tail(q)[i] = q[i + 1]
  BY <1>1, Dequeue
<1>3. Many(Tail(q), kind)
  BY <1>1, <1>2, Zenon DEF Many
<1> QED BY <1>1, <1>2, <1>3, FlightAge, Zenon

LEMMA OneHead ==
    ASSUME NEW kind, NEW q, One(q, kind)
    PROVE  /\ q # <<>> /\ Head(q) = q[1] /\ q[1].frame = kind /\ q[1].age \in 0..NetDelay
           /\ Tail(q) = <<>> /\ 1 \in DOMAIN q
<1>1. q \in Seq(Flight) /\ Len(q) = 1 /\ Many(q, kind)
  BY DEF One, Many
<1>2. q # <<>>
  <2>1. Len(q) # 0
    BY <1>1
  <2> QED BY <1>1, <2>1, Lengths, Zenon
<1>3. Tail(q) \in Seq(Flight) /\ Len(Tail(q)) = 0 /\ 1 \in DOMAIN q
  BY <1>1, <1>2, Dequeue
<1>4. Tail(q) = <<>>
  BY <1>3, Lengths
<1> QED BY <1>1, <1>2, <1>3, <1>4, ManyHead, Zenon

LEMMA NewFlight ==
    ASSUME NEW kind \in Kind
    PROVE  LET x == [frame |-> kind, age |-> 0]
           IN  x \in Flight /\ x.frame = kind /\ x.age = 0
BY Constants DEF Flight

LEMMA ManySent ==
    ASSUME NEW kind \in Kind, NEW q, Many(q, kind),
           NEW r, r = Append(q, [frame |-> kind, age |-> 0])
    PROVE  /\ Many(r, kind) /\ r # <<>>
           /\ q = <<>> => r[1].age = 0
           /\ q # <<>> => r[1] = q[1]
<1> DEFINE x == [frame |-> kind, age |-> 0]
<1>1. x \in Flight /\ x.frame = kind /\ x.age = 0 /\ r = Append(q, x)
  BY NewFlight
<1> HIDE DEF x
<1>2. q \in Seq(Flight) /\ \A i \in DOMAIN q : q[i].frame = kind
  BY DEF Many
<1>3. /\ r \in Seq(Flight) /\ r # <<>>
      /\ r[1] = IF q = <<>> THEN x ELSE q[1]
      /\ \A i \in DOMAIN r : r[i] = x \/ (i \in DOMAIN q /\ r[i] = q[i])
  BY <1>1, <1>2, Enqueue
<1>4. Many(r, kind)
  BY <1>1, <1>2, <1>3, Zenon DEF Many
<1> QED BY <1>1, <1>3, <1>4, Zenon

LEMMA OneSent ==
    ASSUME NEW kind \in Kind, NEW r,
           r = <<[frame |-> kind, age |-> 0]>> \/ r = Append(<<>>, [frame |-> kind, age |-> 0])
    PROVE  One(r, kind) /\ r[1].age = 0
<1> DEFINE x == [frame |-> kind, age |-> 0]
<1>1. x \in Flight /\ x.frame = kind /\ x.age = 0 /\ (r = <<x>> \/ r = Append(<<>>, x))
  BY NewFlight
<1> HIDE DEF x
<1>2. r = <<x>>
  BY <1>1
<1>3. r \in Seq(Flight) /\ Len(r) = 1 /\ r[1] = x /\ \A i \in DOMAIN r : r[i] = x
  BY <1>1, <1>2
<1> QED BY <1>1, <1>3, Zenon DEF Many, One

LEMMA OlderEmpty == Older(<<>>) = <<>>
BY DEF Older

LEMMA ManyOlder ==
    ASSUME NEW kind, NEW q, Many(q, kind), \A i \in DOMAIN q : q[i].age < NetDelay
    PROVE  /\ Many(Older(q), kind) /\ Len(Older(q)) = Len(q)
           /\ q = <<>> <=> Older(q) = <<>>
           /\ q # <<>> => Older(q)[1].age = q[1].age + 1
<1>1. /\ q \in Seq(Flight)
      /\ \A i \in DOMAIN q : q[i] \in Flight /\ q[i].frame = kind
  BY DEF Many
<1>2. ASSUME NEW x \in Flight, x.age < NetDelay
      PROVE  LET y == [x EXCEPT !.age = @ + 1]
             IN  y \in Flight /\ y.frame = x.frame /\ y.age = x.age + 1
  <2>1. x.age \in 0..NetDelay /\ x.age + 1 \in 0..NetDelay
    BY <1>2, FlightAge, Constants
  <2> QED BY <2>1 DEF Flight
<1>3. DOMAIN q = 1..Len(q) /\ Len(q) \in Nat
  BY <1>1
<1> DEFINE r == Older(q)
           Grown(y, x) == y \in Flight /\ y.frame = x.frame /\ y.age = x.age + 1
<1>4. DOMAIN r = 1..Len(q) /\ \A i \in 1..Len(q) : r[i] = [q[i] EXCEPT !.age = @ + 1]
  BY <1>3, Zenon DEF Older
<1>5. \A i \in 1..Len(q) : Grown(r[i], q[i])
  BY <1>1, <1>2, <1>3, <1>4, Zenon
<1>6. r = [i \in 1..Len(q) |-> r[i]]
  BY <1>3 DEF Older
<1>7. \A i \in 1..Len(q) : r[i] \in Flight /\ r[i].frame = kind /\ r[i].age = q[i].age + 1
  BY <1>1, <1>3, <1>5, Zenon
<1> HIDE DEF r, Grown
<1>8. r \in Seq(Flight) /\ Len(r) = Len(q)
  BY <1>3, <1>6, <1>7
<1>9. /\ q # <<>> => 1 \in 1..Len(q)
      /\ q = <<>> <=> r = <<>>
  BY <1>1, <1>3, <1>8
<1>10. Many(r, kind)
  BY <1>3, <1>4, <1>7, <1>8, Zenon DEF Many
<1> QED BY <1>7, <1>8, <1>9, <1>10, Zenon DEF r

-----------------------------------------------------------------------------
(* The invariant, action by action. *)

LEMMA KeepaliveInit == Init => KeepaliveInv
<1> SUFFICES ASSUME Init PROVE KeepaliveInv
  OBVIOUS
<1>1. Clocks
  BY Constants, KeepaliveAssumption DEF Init, Clocks
<1>2. Traffic
  BY DEF Init, Traffic
<1>3. ServerHears /\ ClientHears
  BY DEF Init, ServerHears, ClientHears
<1>4. Outage
  BY Constants DEF Init, Outage
<1> QED BY <1>1, <1>2, <1>3, <1>4 DEF KeepaliveInv

(* A client that is asleep has an empty connection and an old session. *)
LEMMA AsleepInv ==
    ASSUME Clocks, Clocks', client' = "sleep", session' # "own", up' = <<>>, down' = <<>>,
           outage' <= Timeout + NetDelay + MaxDelay - wake',
           session' = "stale" => outage' <= sidle'
    PROVE  KeepaliveInv'
<1>1. Traffic'
  BY DEF Traffic
<1>2. ServerHears' /\ ClientHears'
  BY DEF ServerHears, ClientHears
<1>3. Outage'
  BY DEF Outage
<1> QED BY <1>1, <1>2, <1>3 DEF KeepaliveInv

LEMMA Room ==
    ASSUME NEW w \in 0..MaxDelay, NEW o \in Nat, o <= Timeout + NetDelay
    PROVE  o <= Timeout + NetDelay + MaxDelay - w
BY Constants

LEMMA ConnectInv == KeepaliveInv /\ Connect => KeepaliveInv'
<1> SUFFICES ASSUME KeepaliveInv, Connect PROVE KeepaliveInv'
  OBVIOUS
<1> USE Constants DEF KeepaliveInv
<1>1. /\ client = "sleep" /\ client' = "connect" /\ cut' = FALSE /\ cidle' = 0 /\ session' = session
      /\ up' = <<>> /\ down' = <<>> /\ session # "own" /\ sidle' = sidle /\ outage' = outage /\ wake = 0
  BY DEF Connect, Traffic
<1>2. Clocks'
  BY DEF Connect, Clocks
<1>3. Traffic'
  BY <1>1 DEF Traffic
<1>4. ServerHears' /\ ClientHears'
  BY <1>1 DEF ServerHears, ClientHears
<1>5. outage <= Timeout + MaxDelay + NetDelay /\ outage \in Nat
  BY <1>1 DEF Outage, Clocks
<1>6. Outage'
  BY <1>1, <1>5 DEF Outage
<1> QED BY <1>2, <1>3, <1>4, <1>6

LEMMA ConnectFailsInv == KeepaliveInv /\ ConnectFails => KeepaliveInv'
<1> SUFFICES ASSUME KeepaliveInv, ConnectFails PROVE KeepaliveInv'
  OBVIOUS
<1> USE Constants DEF KeepaliveInv
<1>1. attempt \in Nat /\ wake' = calc_reconnect_delay(attempt)
  BY DEF ConnectFails, ClientReturns, Clocks
<1>2. wake' \in 0..MaxDelay
  BY <1>1, DelayRange
<1>3. Clocks'
  BY <1>2 DEF ConnectFails, ClientReturns, Clocks
<1>4. /\ client' = "sleep" /\ session' # "own" /\ up' = <<>> /\ down' = <<>>
      /\ outage' = 0 /\ sidle' = sidle /\ sidle \in Nat
  BY DEF ConnectFails, ClientReturns, Traffic, Clocks
<1>5. outage' \in Nat /\ outage' <= Timeout + NetDelay /\ outage' <= sidle'
  BY <1>4
<1>6. outage' <= Timeout + NetDelay + MaxDelay - wake'
  BY <1>2, <1>5, Room, Zenon
<1>7. Clocks
  OBVIOUS
<1> QED BY <1>3, <1>4, <1>5, <1>6, <1>7, AsleepInv, Zenon

LEMMA ConnectedInv == KeepaliveInv /\ Connected => KeepaliveInv'
<1> SUFFICES ASSUME KeepaliveInv, Connected PROVE KeepaliveInv'
  OBVIOUS
<1> USE Constants DEF KeepaliveInv
<1>1. /\ client = "connect" /\ client' = "handshake" /\ ~cut /\ ~cut' /\ cidle' = 0
      /\ session' = session /\ session # "own" /\ down' = <<>> /\ up = <<>>
      /\ sidle' = sidle /\ outage' = outage
  BY DEF Connected, Traffic
<1>2. One(up', "client_nonce") /\ up'[1].age = 0
  BY <1>1, OneSent DEF Connected, Sent, Kind
<1>3. Clocks'
  BY DEF Connected, Clocks
<1>4. Greets' /\ ~Greeted'
  BY <1>1, <1>2, ManyEmpty DEF Greets, Greeted
<1>5. Traffic'
  BY <1>1, <1>4 DEF Traffic
<1>6. ServerHears' /\ ClientHears'
  BY <1>1 DEF ServerHears, ClientHears
<1>7. outage <= Timeout + MaxDelay + 3 * NetDelay /\ outage \in Nat
  <2>1. outage <= Timeout + MaxDelay + NetDelay + cidle /\ cidle \in Nat /\ cidle <= 2 * NetDelay
        /\ outage \in Nat
    BY <1>1 DEF Outage, Clocks
  <2> QED BY <2>1
<1>8. Outage'
  BY <1>1, <1>2, <1>4, <1>7 DEF Outage
<1> QED BY <1>3, <1>5, <1>6, <1>8

(* Which phase an arriving frame belongs to. *)
LEMMA Arrivals ==
    ASSUME KeepaliveInv
    PROVE  /\ up # <<>> /\ Head(up).frame = "client_nonce" =>
                client = "handshake" /\ ~cut /\ Greets
           /\ down # <<>> /\ Head(down).frame = "server_nonce" =>
                client = "handshake" /\ ~cut /\ Greeted
           /\ up # <<>> /\ Head(up).frame = "Register" => client = "register" /\ ~cut /\ Asks
           /\ up # <<>> /\ Head(up).frame = "ping" => client = "run" /\ ~cut
           /\ down # <<>> /\ Head(down).frame = "ack" => client = "register" /\ ~cut /\ Admitted
           /\ down # <<>> /\ Head(down).frame = "nack" => client = "register" /\ ~cut /\ Refused
           /\ down # <<>> /\ Head(down).frame = "pong" => client = "run" /\ ~cut
<1> USE DEF KeepaliveInv
<1>1. CASE client \in {"sleep", "connect"} \/ cut
  BY <1>1 DEF Traffic
<1>2. CASE client = "run" /\ ~cut
  <2>1. Many(up, "ping") /\ Many(down, "pong")
    BY <1>2 DEF Traffic
  <2>2. ASSUME up # <<>> PROVE Head(up).frame = "ping"
    <3>1. Head(up) = up[1] /\ up[1].frame = "ping"
      BY <2>1, <2>2, ManyHead
    <3> QED BY <3>1
  <2>3. ASSUME down # <<>> PROVE Head(down).frame = "pong"
    <3>1. Head(down) = down[1] /\ down[1].frame = "pong"
      BY <2>1, <2>3, ManyHead
    <3> QED BY <3>1
  <2> QED BY <1>2, <2>2, <2>3
<1>3. CASE client = "register" /\ ~cut
  <2>1. CASE Asks
    <3>1. Head(up).frame = "Register" /\ down = <<>>
      BY <2>1, OneHead DEF Asks
    <3> QED BY <1>3, <2>1, <3>1
  <2>2. CASE Admitted
    <3>1. Head(down).frame = "ack" /\ up = <<>>
      BY <2>2, OneHead DEF Admitted
    <3> QED BY <1>3, <2>2, <3>1
  <2>3. CASE Refused
    <3>1. Head(down).frame = "nack" /\ up = <<>>
      BY <2>3, OneHead DEF Refused
    <3> QED BY <1>3, <2>3, <3>1
  <2> QED BY <1>3, <2>1, <2>2, <2>3 DEF Traffic
<1>4. CASE client = "handshake" /\ ~cut
  <2>1. CASE Greets
    <3>1. Head(up).frame = "client_nonce" /\ down = <<>>
      BY <2>1, OneHead DEF Greets
    <3> QED BY <1>4, <2>1, <3>1
  <2>2. CASE Greeted
    <3>1. Head(down).frame = "server_nonce" /\ up = <<>>
      BY <2>2, OneHead DEF Greeted
    <3> QED BY <1>4, <2>2, <3>1
  <2> QED BY <1>4, <2>1, <2>2 DEF Traffic
<1> QED BY <1>1, <1>2, <1>3, <1>4 DEF Clocks

LEMMA SNonceInv == KeepaliveInv /\ SNonce => KeepaliveInv'
<1> SUFFICES ASSUME KeepaliveInv, SNonce PROVE KeepaliveInv'
  OBVIOUS
<1> USE Constants DEF KeepaliveInv
<1>1. client = "handshake" /\ ~cut /\ Greets
  BY Arrivals DEF SNonce
<1>2. /\ up' = <<>> /\ client' = "handshake" /\ ~cut' /\ outage' = outage /\ session' = session
      /\ down = <<>> /\ session # "own" /\ sidle' = sidle /\ outage \in Nat
  BY <1>1, OneHead DEF SNonce, Greets, Clocks
<1>3. up[1].age \in 0..NetDelay /\ outage <= Timeout + MaxDelay + 3 * NetDelay + up[1].age
  BY <1>1, OneHead DEF Greets, Outage
<1>4. One(down', "server_nonce") /\ down'[1].age = 0
  BY <1>1, <1>2, OneSent DEF SNonce, Sent, Kind
<1>5. Greeted' /\ ~Greets'
  BY <1>2, <1>4, ManyEmpty DEF Greets, Greeted
<1>6. Clocks'
  BY DEF SNonce, Clocks
<1>7. Traffic'
  BY <1>2, <1>5 DEF Traffic
<1>8. ServerHears' /\ ClientHears'
  BY <1>2 DEF ServerHears, ClientHears
<1>9. Outage'
  <2>1. outage <= Timeout + MaxDelay + 4 * NetDelay + 0
    BY <1>2, <1>3
  <2> QED BY <1>2, <1>4, <1>5, <2>1 DEF Outage
<1> QED BY <1>6, <1>7, <1>8, <1>9

LEMMA CNonceInv == KeepaliveInv /\ CNonce => KeepaliveInv'
<1> SUFFICES ASSUME KeepaliveInv, CNonce PROVE KeepaliveInv'
  OBVIOUS
<1> USE Constants DEF KeepaliveInv
<1>1. client = "handshake" /\ ~cut /\ Greeted
  BY Arrivals DEF CNonce
<1>2. /\ down' = <<>> /\ up = <<>> /\ client' = "register" /\ ~cut' /\ cidle' = 0
      /\ session' = session /\ session # "own" /\ sidle' = sidle /\ outage' = outage
      /\ outage \in Nat
  BY <1>1, OneHead DEF CNonce, Greeted, Clocks
<1>3. down[1].age \in 0..NetDelay /\ outage <= Timeout + MaxDelay + 4 * NetDelay + down[1].age
  BY <1>1, OneHead DEF Greeted, Outage
<1>4. One(up', "Register") /\ up'[1].age = 0
  BY <1>1, <1>2, OneSent DEF CNonce, Sent, Kind
<1>5. Asks' /\ ~Admitted' /\ ~Refused'
  BY <1>2, <1>4, ManyEmpty DEF Asks, Admitted, Refused
<1>6. Clocks'
  BY DEF CNonce, Clocks
<1>7. Traffic'
  BY <1>2, <1>5 DEF Traffic
<1>8. ServerHears' /\ ClientHears'
  BY <1>2 DEF ServerHears, ClientHears
<1>9. Outage'
  <2>1. outage <= Timeout + MaxDelay + 5 * NetDelay + 0
    BY <1>2, <1>3
  <2> QED BY <1>2, <1>4, <1>5, <2>1 DEF Outage
<1> QED BY <1>6, <1>7, <1>8, <1>9

LEMMA SRegisterInv == KeepaliveInv /\ SRegister => KeepaliveInv'
<1> SUFFICES ASSUME KeepaliveInv, SRegister PROVE KeepaliveInv'
  OBVIOUS
<1> USE Constants DEF KeepaliveInv
<1>1. client = "register" /\ ~cut /\ Asks
  BY Arrivals DEF SRegister
<1>2. /\ up' = <<>> /\ client' = "register" /\ ~cut' /\ outage' = outage /\ cidle' = cidle
      /\ down = <<>> /\ session # "own" /\ outage \in Nat
  BY <1>1, OneHead DEF SRegister, Asks, Clocks
<1>3. up[1].age \in 0..NetDelay /\ outage <= Timeout + MaxDelay + 5 * NetDelay + up[1].age
  BY <1>1, OneHead DEF Asks, Outage
<1>4. ServerHears' /\ ClientHears'
  BY <1>2 DEF ServerHears, ClientHears
<1>5. Clocks'
  BY DEF SRegister, Clocks
<1>6. CASE session = "none" /\ session' = "own" /\ sidle' = 0 /\ down' = Sent("ack", down)
  <2>1. One(down', "ack") /\ down'[1].age = 0
    BY <1>1, <1>2, <1>6, OneSent DEF Sent, Kind
  <2>2. Admitted' /\ ~Refused' /\ ~Asks'
    BY <1>2, <1>6, <2>1, ManyEmpty DEF Admitted, Refused, Asks
  <2>3. Traffic'
    BY <1>2, <2>2 DEF Traffic
  <2>4. Outage'
    BY <1>2, <1>3, <1>6, <2>1, <2>2 DEF Outage
  <2> QED BY <1>4, <1>5, <2>3, <2>4
<1>7. CASE session # "none" /\ UNCHANGED <<session, sidle>> /\ down' = Sent("nack", down)
  <2>1. One(down', "nack") /\ down'[1].age = 0
    BY <1>1, <1>2, <1>7, OneSent DEF Sent, Kind
  <2>2. Refused' /\ ~Admitted' /\ ~Asks'
    BY <1>2, <1>7, <2>1, ManyEmpty DEF Admitted, Refused, Asks
  <2>3. Traffic'
    BY <1>2, <2>2 DEF Traffic
  <2>4. session = "stale" /\ outage <= sidle /\ sidle \in 0..Timeout
    BY <1>2, <1>7 DEF Outage, Clocks
  <2>5. Outage'
    BY <1>2, <1>7, <2>1, <2>2, <2>4 DEF Outage
  <2> QED BY <1>4, <1>5, <2>3, <2>5
<1> QED BY <1>6, <1>7 DEF SRegister

LEMMA SPingInv == KeepaliveInv /\ SPing => KeepaliveInv'
<1> SUFFICES ASSUME KeepaliveInv, SPing PROVE KeepaliveInv'
  OBVIOUS
<1> USE Constants DEF KeepaliveInv
<1>1. client = "run" /\ ~cut /\ up # <<>>
  BY Arrivals DEF SPing
<1>2. session = "own" /\ Many(up, "ping") /\ Many(down, "pong")
  BY <1>1 DEF Traffic
<1>3. /\ up' = Tail(up) /\ sidle' = 0 /\ down' = Append(down, [frame |-> "pong", age |-> 0])
      /\ client' = "run" /\ ~cut' /\ session' = "own"
      /\ cidle' = cidle /\ tick' = tick /\ outage' = outage
  BY <1>1, <1>2 DEF SPing, Sent
<1>4. Many(up', "ping") /\ up[1].age \in 0..NetDelay
  BY <1>1, <1>2, <1>3, ManyHead
<1>5. Many(down', "pong") /\ down' # <<>> /\ (down = <<>> => down'[1].age = 0)
      /\ (down # <<>> => down'[1] = down[1])
  <2>1. "pong" \in Kind
    BY DEF Kind
  <2> QED BY <1>2, <1>3, <2>1, ManySent, Zenon
<1>6. Clocks'
  BY DEF SPing, Clocks
<1>7. Traffic'
  BY <1>3, <1>4, <1>5 DEF Traffic
<1>8. ServerHears'
  <2>1. up' # <<>> => up'[1].age \in 0..NetDelay
    BY <1>4, ManyHead
  <2>2. tick \in 0..PingInterval
    BY DEF Clocks
  <2>3. sidle' <= NetDelay + PingInterval + (IF up' = <<>> THEN -tick' ELSE up'[1].age)
    <3>1. CASE up' = <<>>
      BY <1>3, <2>2, <3>1
    <3>2. CASE up' # <<>>
      <4>1. up'[1].age \in Nat /\ sidle' = 0
        BY <1>3, <2>1, <3>2
      <4>2. sidle' <= NetDelay + PingInterval + up'[1].age
        BY <4>1
      <4> QED BY <3>2, <4>2, Zenon
    <3> QED BY <3>1, <3>2
  <2> QED BY <2>3, Zenon DEF ServerHears
<1>9. ClientHears'
  <2>1. down # <<>> => down[1].age \in 0..NetDelay
    BY <1>2, ManyHead
  <2>2. cidle \in Nat
    BY DEF Clocks
  <2>3. down' # <<>> /\ cidle' <= PingInterval + NetDelay + down'[1].age
    BY <1>1, <1>3, <1>4, <1>5, <2>1, <2>2, SMTT(30) DEF ClientHears
  <2>4. down'[1].age \in Int
    BY <1>5, <2>1
  <2> QED BY <2>3, <2>4 DEF ClientHears
<1>10. Outage'
  BY <1>1, <1>3 DEF Outage, BackInTime
<1> QED BY <1>6, <1>7, <1>8, <1>9, <1>10

LEMMA CAckInv == KeepaliveInv /\ CAck => KeepaliveInv'
<1> SUFFICES ASSUME KeepaliveInv, CAck PROVE KeepaliveInv'
  OBVIOUS
<1> USE Constants DEF KeepaliveInv
<1>1. client = "register" /\ ~cut /\ Admitted
  BY Arrivals DEF CAck
<1>2. /\ up' = <<>> /\ down' = <<>> /\ client' = "run" /\ ~cut' /\ session' = "own"
      /\ cidle' = 0 /\ tick' = PingInterval /\ sidle' = sidle /\ outage' = outage
  BY <1>1, OneHead DEF CAck, Admitted
<1>3. /\ sidle = down[1].age /\ down[1].age \in 0..NetDelay /\ outage \in Nat
      /\ outage <= Timeout + MaxDelay + 6 * NetDelay + down[1].age
  BY <1>1, OneHead DEF Admitted, Outage, Clocks
<1>4. Clocks'
  BY DEF CAck, Clocks
<1>5. Traffic'
  BY <1>2, ManyEmpty DEF Traffic
<1>6. ServerHears' /\ ClientHears'
  BY <1>2, <1>3 DEF ServerHears, ClientHears
<1>7. Outage'
  BY <1>2, <1>3 DEF Outage, BackInTime
<1> QED BY <1>4, <1>5, <1>6, <1>7

LEMMA CNackInv == KeepaliveInv /\ CNack => KeepaliveInv'
<1> SUFFICES ASSUME KeepaliveInv, CNack PROVE KeepaliveInv'
  OBVIOUS
<1> USE Constants DEF KeepaliveInv
<1>1. client = "register" /\ ~cut /\ Refused
  BY Arrivals DEF CNack
<1>2. attempt \in Nat /\ wake' = calc_reconnect_delay(attempt)
  BY DEF CNack, ClientReturns, Clocks
<1>3. wake' \in 0..MaxDelay
  BY <1>2, DelayRange
<1>4. Clocks'
  BY <1>3 DEF CNack, ClientReturns, Clocks
<1>5. /\ client' = "sleep" /\ up' = <<>> /\ down' = <<>> /\ session' = session
      /\ session # "own" /\ outage' = outage /\ sidle' = sidle
  BY <1>1 DEF CNack, ClientReturns, Refused
<1>6. down[1].age \in 0..NetDelay /\ outage <= Timeout + down[1].age /\ outage \in Nat
  BY <1>1, OneHead DEF Refused, Outage, Clocks
<1>7. session = "stale" => outage <= sidle
  BY DEF Outage
<1>8. outage' <= Timeout + NetDelay + MaxDelay - wake'
  <2>1. outage' \in Nat /\ outage' <= Timeout + NetDelay
    BY <1>5, <1>6
  <2> QED BY <1>3, <2>1, Room, Zenon
<1> QED BY <1>4, <1>5, <1>7, <1>8, AsleepInv

LEMMA CPongInv == KeepaliveInv /\ CPong => KeepaliveInv'
<1> SUFFICES ASSUME KeepaliveInv, CPong PROVE KeepaliveInv'
  OBVIOUS
<1> USE Constants DEF KeepaliveInv
<1>1. client = "run" /\ ~cut /\ down # <<>>
  BY Arrivals DEF CPong
<1>2. session = "own" /\ Many(up, "ping") /\ Many(down, "pong")
  BY <1>1 DEF Traffic
<1>3. /\ down' = Tail(down) /\ cidle' = 0 /\ client' = "run" /\ ~cut' /\ session' = "own"
      /\ up' = up /\ sidle' = sidle /\ tick' = tick /\ outage' = outage
  BY <1>1, <1>2 DEF CPong
<1>4. Many(down', "pong")
  BY <1>1, <1>2, <1>3, ManyHead
<1>5. Clocks'
  BY DEF CPong, Clocks
<1>6. Traffic'
  BY <1>2, <1>3, <1>4 DEF Traffic
<1>7. ServerHears'
  BY <1>1, <1>3 DEF ServerHears
<1>8. ClientHears'
  <2>1. down' # <<>> => down'[1].age \in 0..NetDelay
    BY <1>4, ManyHead
  <2>2. up' # <<>> => up'[1].age \in 0..NetDelay
    BY <1>2, <1>3, ManyHead
  <2>3. tick \in 0..PingInterval
    BY DEF Clocks
  <2> QED BY <1>3, <2>1, <2>2, <2>3 DEF ClientHears
<1>9. Outage'
  BY <1>1, <1>3 DEF Outage, BackInTime
<1> QED BY <1>5, <1>6, <1>7, <1>8, <1>9

LEMMA HeartbeatInv == KeepaliveInv /\ Heartbeat => KeepaliveInv'
<1> SUFFICES ASSUME KeepaliveInv, Heartbeat PROVE KeepaliveInv'
  OBVIOUS
<1> USE Constants DEF KeepaliveInv
<1>1. Clocks'
  BY DEF Heartbeat, Clocks
<1>2. /\ client = "run" /\ client' = "run" /\ cut' = cut /\ session' = session /\ down' = down
      /\ tick = 0 /\ sidle' = sidle /\ cidle' = cidle /\ outage' = outage
      /\ up' = Sent("ping", up)
  BY DEF Heartbeat
<1>3. Outage'
  BY <1>2 DEF Outage, BackInTime
<1>4. CASE cut
  <2>1. up' = up
    BY <1>2, <1>4 DEF Sent
  <2>2. Traffic'
    BY <1>2, <1>4, <2>1 DEF Traffic
  <2>3. ServerHears' /\ ClientHears'
    BY <1>2, <1>4 DEF ServerHears, ClientHears
  <2> QED BY <1>1, <1>3, <2>2, <2>3
<1>5. CASE ~cut
  <2>1. session = "own" /\ Many(up, "ping") /\ Many(down, "pong")
    BY <1>2, <1>5 DEF Traffic
  <2>2. up' = Append(up, [frame |-> "ping", age |-> 0]) /\ "ping" \in Kind
    BY <1>2, <1>5 DEF Sent, Kind
  <2>3. Many(up', "ping") /\ up' # <<>> /\ (up = <<>> => up'[1].age = 0)
        /\ (up # <<>> => up'[1] = up[1])
    BY <2>1, <2>2, ManySent, Zenon
  <2>4. Traffic'
    BY <1>2, <1>5, <2>1, <2>3 DEF Traffic
  <2>5. ServerHears'
    BY <1>2, <1>5, <2>3 DEF ServerHears
  <2>6. ClientHears'
    BY <1>2, <1>5, <2>3 DEF ClientHears
  <2> QED BY <1>1, <1>3, <2>4, <2>5, <2>6
<1> QED BY <1>4, <1>5

(* As long as the connection carries frames, no deadline of a connected    *)
(* client or of its session passes: something is always due before.        *)
LEMMA InTime ==
    ASSUME KeepaliveInv, ~cut
    PROVE  /\ client \in {"handshake", "register", "run"} /\ cidle = Patience => down # <<>>
           /\ session = "own" /\ sidle = Timeout => up # <<>>
<1> USE Constants DEF KeepaliveInv
<1>0. cidle \in 0..Timeout /\ sidle \in 0..Timeout /\ tick \in 0..PingInterval
  BY DEF Clocks
<1>a. (client \in {"register", "run"} => Patience = Timeout)
      /\ (client = "handshake" => Patience = HandshakeTimeout)
  BY DEF Patience
<1>1. CASE client = "run"
  <2>1. Many(up, "ping")
    BY <1>1 DEF Traffic
  <2>2. up # <<>> => up[1].age \in 0..NetDelay
    BY <2>1, ManyHead
  <2>3. cidle = Timeout => down # <<>>
    <3>1. down = <<>> => cidle <= PingInterval + (IF up # <<>> THEN up[1].age ELSE -tick)
      BY <1>1 DEF ClientHears
    <3>2. CASE up = <<>>
      BY <1>0, <3>1, <3>2
    <3>3. CASE up # <<>>
      <4>1. down = <<>> => cidle <= PingInterval + up[1].age
        BY <3>1, <3>3
      <4> QED BY <1>0, <2>2, <3>3, <4>1
    <3> QED BY <3>2, <3>3
  <2>4. sidle = Timeout => up # <<>>
    BY <1>0, <1>1 DEF ServerHears
  <2> QED BY <1>1, <1>a, <2>3, <2>4
<1>2. CASE client = "register"
  <2>1. CASE Asks
    <3>1. up[1].age \in 0..NetDelay /\ cidle <= up[1].age /\ session # "own"
      BY <2>1, OneHead DEF Asks
    <3>2. cidle # Timeout
      BY <1>0, <3>1
    <3> QED BY <1>2, <1>a, <3>1, <3>2
  <2>2. CASE Admitted
    <3>1. down # <<>> /\ down[1].age \in 0..NetDelay /\ sidle = down[1].age
      BY <2>2, OneHead DEF Admitted
    <3>2. sidle # Timeout
      BY <1>0, <3>1
    <3> QED BY <3>1, <3>2
  <2>3. CASE Refused
    BY <2>3, OneHead DEF Refused
  <2> QED BY <1>2, <2>1, <2>2, <2>3 DEF Traffic
<1>3. CASE client \in {"sleep", "connect"}
  BY <1>3 DEF Traffic
<1>4. CASE client = "handshake"
  <2>1. CASE Greets
    <3>1. up[1].age \in 0..NetDelay /\ cidle <= up[1].age /\ session # "own"
      BY <2>1, OneHead DEF Greets
    <3>2. cidle # HandshakeTimeout
      BY <1>0, <3>1
    <3> QED BY <1>4, <1>a, <3>1, <3>2
  <2>2. CASE Greeted
    BY <2>2, OneHead DEF Greeted
  <2> QED BY <1>4, <2>1, <2>2 DEF Traffic
<1> QED BY <1>1, <1>2, <1>3, <1>4 DEF Clocks

LEMMA ClientTimeoutInv == KeepaliveInv /\ ClientTimeout => KeepaliveInv'
<1> SUFFICES ASSUME KeepaliveInv, ClientTimeout PROVE KeepaliveInv'
  OBVIOUS
<1> USE Constants DEF KeepaliveInv
<1>1. cut
  BY InTime DEF ClientTimeout
<1>2. attempt \in Nat /\ wake' = calc_reconnect_delay(attempt)
  BY DEF ClientTimeout, ClientReturns, Clocks
<1>3. wake' \in 0..MaxDelay
  BY <1>2, DelayRange
<1>4. Clocks'
  BY <1>3 DEF ClientTimeout, ClientReturns, Clocks
<1>5. /\ client' = "sleep" /\ up' = <<>> /\ down' = <<>> /\ outage' = outage /\ sidle' = sidle
      /\ session' = IF session = "own" THEN "stale" ELSE session
  BY <1>1 DEF ClientTimeout, ClientReturns
<1>6. outage <= cidle /\ cidle \in 0..Timeout /\ outage \in Nat
  BY <1>1 DEF ClientTimeout, Outage, Clocks
<1>7. session' = "stale" => outage' <= sidle'
  BY <1>1, <1>5 DEF Outage
<1>8. outage' <= Timeout + NetDelay + MaxDelay - wake'
  <2>1. outage' \in Nat /\ outage' <= Timeout + NetDelay
    BY <1>5, <1>6
  <2> QED BY <1>3, <2>1, Room, Zenon
<1> QED BY <1>4, <1>5, <1>7, <1>8, AsleepInv

LEMMA ServerTimeoutInv == KeepaliveInv /\ ServerTimeout => KeepaliveInv'
<1> SUFFICES ASSUME KeepaliveInv, ServerTimeout PROVE KeepaliveInv'
  OBVIOUS
<1> USE Constants DEF KeepaliveInv
<1>1. ~(session = "own" /\ ~cut)
  BY InTime DEF ServerTimeout
<1>2. /\ session' = "none" /\ UNCHANGED <<client, cut, up, down, cidle, sidle, tick, wake,
                                         attempt, faults, outage>>
  BY <1>1 DEF ServerTimeout
<1>3. session # "own" \/ cut
  BY <1>1
<1>4. Clocks'
  BY <1>2 DEF Clocks
<1>5. ~Admitted \/ cut
  BY <1>3 DEF Admitted
<1>6. (Asks' <=> Asks \/ (cut /\ Asks')) /\ (Refused' <=> Refused \/ (cut /\ Refused')) /\ ~Admitted'
  BY <1>2, <1>3 DEF Asks, Refused, Admitted
<1>a. (Greets' <=> Greets \/ (cut /\ Greets')) /\ (Greeted' <=> Greeted \/ (cut /\ Greeted'))
  BY <1>2, <1>3 DEF Greets, Greeted
<1>7. Traffic'
  BY <1>2, <1>3, <1>5, <1>6, <1>a DEF Traffic
<1>8. ServerHears' /\ ClientHears'
  BY <1>2 DEF ServerHears, ClientHears
<1>9. Outage'
  BY <1>2, <1>6, <1>a DEF Outage, BackInTime
<1> QED BY <1>4, <1>7, <1>8, <1>9

LEMMA CutInv == KeepaliveInv /\ Cut => KeepaliveInv'
<1> SUFFICES ASSUME KeepaliveInv, Cut PROVE KeepaliveInv'
  OBVIOUS
<1> USE Constants DEF KeepaliveInv
<1>1. /\ cut' = TRUE /\ up' = <<>> /\ down' = <<>> /\ outage' = 0 /\ client \notin {"sleep", "connect"}
      /\ UNCHANGED <<client, session, cidle, sidle>>
  BY DEF Cut
<1>2. Clocks'
  BY DEF Cut, Clocks
<1>3. Traffic'
  BY <1>1 DEF Traffic
<1>4. ServerHears' /\ ClientHears'
  BY <1>1 DEF ServerHears, ClientHears
<1>5. Outage'
  BY <1>1 DEF Outage, BackInTime, Clocks
<1> QED BY <1>2, <1>3, <1>4, <1>5

(* Ageing, in each of the situations a connection can be in. *)
LEMMA OneOlder ==
    ASSUME NEW kind, NEW q, One(q, kind), \A i \in DOMAIN q : q[i].age < NetDelay
    PROVE  One(Older(q), kind) /\ Older(q)[1].age = q[1].age + 1
<1>1. Many(q, kind) /\ Len(q) = 1 /\ q # <<>>
  BY OneHead DEF One
<1> QED BY <1>1, ManyOlder, Zenon DEF One

LEMMA TickInv == KeepaliveInv /\ Tick => KeepaliveInv'
<1> SUFFICES ASSUME KeepaliveInv, Tick PROVE KeepaliveInv'
  OBVIOUS
<1> USE Constants DEF KeepaliveInv
<1>0. /\ \A i \in DOMAIN up : up[i].age < NetDelay
      /\ \A i \in DOMAIN down : down[i].age < NetDelay
      /\ up' = Older(up) /\ down' = Older(down)
      /\ UNCHANGED <<client, session, cut, attempt, faults>>
  BY DEF Tick
<1>1. /\ cidle \in Nat /\ sidle \in Nat /\ tick \in Nat /\ wake \in Nat /\ outage \in Nat
      /\ client \in {"sleep", "connect", "handshake", "register", "run"}
      /\ session \in {"none", "own", "stale"}
  BY DEF Clocks
<1>a. Patience \in Nat /\ Patience <= Timeout /\ (client = "connect" => Patience = 2 * NetDelay)
  BY DEF Patience
<1>2. /\ client = "sleep" => wake > 0 /\ wake' = wake - 1
      /\ client # "sleep" => cidle < Patience /\ cidle' = cidle + 1
      /\ session # "none" => sidle < Timeout /\ sidle' = sidle + 1
      /\ client = "run" => tick > 0 /\ tick' = tick - 1
      /\ outage' = (IF Served THEN 0 ELSE outage + 1)
  BY DEF Tick
<1>3. Clocks'
  <2>1. /\ cidle' \in 0..Timeout /\ (client = "connect" => cidle' <= 2 * NetDelay)
        /\ sidle' \in 0..Timeout
    BY <1>1, <1>2, <1>a DEF Tick, Clocks
  <2>2. tick' \in 0..PingInterval /\ wake' \in 0..MaxDelay /\ outage' \in Nat
    BY DEF Tick, Clocks
  <2> QED BY <1>0, <2>1, <2>2 DEF Clocks
<1>4. outage' \in Nat /\ outage' <= outage + 1
  BY <1>1, <1>2
<1>5. CASE client = "sleep"
  <2>1. up' = <<>> /\ down' = <<>> /\ session' # "own" /\ client' = "sleep"
    BY <1>0, <1>5, OlderEmpty DEF Traffic
  <2>2. outage' <= Timeout + NetDelay + MaxDelay - wake'
    <3>1. outage <= Timeout + NetDelay + MaxDelay - wake /\ wake' = wake - 1
      BY <1>2, <1>5 DEF Outage
    <3> QED BY <1>1, <1>4, <3>1
  <2>3. session' = "stale" => outage' <= sidle'
    BY <1>0, <1>1, <1>2, <1>4 DEF Outage
  <2> QED BY <1>3, <2>1, <2>2, <2>3, AsleepInv
<1>6. CASE client \notin {"sleep", "connect"} /\ cut
  <2>1. up' = <<>> /\ down' = <<>> /\ client' = client /\ cut' /\ session' = session
    BY <1>0, <1>6, OlderEmpty DEF Traffic
  <2>2. Traffic'
    BY <1>6, <2>1 DEF Traffic
  <2>3. ServerHears' /\ ClientHears'
    BY <2>1 DEF ServerHears, ClientHears
  <2>4. outage' <= cidle' /\ cidle' \in 0..Timeout
    BY <1>1, <1>2, <1>a, <1>4, <1>6 DEF Outage
  <2>5. session' = "stale" \/ session' = "own" => outage' <= sidle'
    BY <1>1, <1>2, <1>4, <1>6, <2>1 DEF Outage
  <2>6. BackInTime'
    BY <1>4, <2>4 DEF BackInTime
  <2>7. Outage'
    BY <1>6, <2>1, <2>4, <2>5, <2>6, Zenon DEF Outage
  <2> QED BY <1>3, <2>2, <2>3, <2>7
<1>7. CASE client = "run" /\ ~cut
  <2>1. session = "own" /\ Many(up, "ping") /\ Many(down, "pong")
    BY <1>7 DEF Traffic
  <2>2. client' = "run" /\ ~cut' /\ session' = "own" /\ sidle' = sidle + 1
        /\ cidle' = cidle + 1 /\ tick' = tick - 1
    BY <1>0, <1>2, <1>7, <2>1
  <2>3. /\ Many(up', "ping") /\ (up = <<>> <=> up' = <<>>)
        /\ (up # <<>> => up'[1].age = up[1].age + 1)
    <3>1. /\ Many(Older(up), "ping") /\ (up = <<>> <=> Older(up) = <<>>)
          /\ (up # <<>> => Older(up)[1].age = up[1].age + 1)
      BY <1>0, <2>1, ManyOlder
    <3> QED BY <1>0, <3>1, Zenon
  <2>4. /\ Many(down', "pong") /\ (down = <<>> <=> down' = <<>>)
        /\ (down # <<>> => down'[1].age = down[1].age + 1)
    <3>1. /\ Many(Older(down), "pong") /\ (down = <<>> <=> Older(down) = <<>>)
          /\ (down # <<>> => Older(down)[1].age = down[1].age + 1)
      BY <1>0, <2>1, ManyOlder
    <3> QED BY <1>0, <3>1, Zenon
  <2>5. (up # <<>> => up[1].age \in 0..NetDelay)
    BY <2>1, ManyHead
  <2>6. (down # <<>> => down[1].age \in 0..NetDelay)
    BY <2>1, ManyHead
  <2>7. Traffic'
    BY <2>2, <2>3, <2>4 DEF Traffic
  <2>8. ServerHears'
    BY <1>1, <1>7, <2>2, <2>3, <2>5 DEF ServerHears
  <2>9. ClientHears'
    <3>1. CASE down # <<>>
      <4>1. cidle <= PingInterval + (NetDelay + down[1].age)
        BY <1>7, <3>1 DEF ClientHears
      <4>2. down[1].age \in Nat /\ down'[1].age = down[1].age + 1
        BY <2>4, <2>6, <3>1
      <4>3. cidle' <= PingInterval + (NetDelay + down'[1].age)
        BY <1>1, <2>2, <4>1, <4>2
      <4> QED BY <2>4, <3>1, <4>3 DEF ClientHears
    <3>2. CASE down = <<>> /\ up # <<>>
      <4>1. cidle <= PingInterval + up[1].age
        BY <1>7, <3>2 DEF ClientHears
      <4>2. up[1].age \in Nat /\ up'[1].age = up[1].age + 1
        BY <2>3, <2>5, <3>2
      <4>3. cidle' <= PingInterval + up'[1].age
        BY <1>1, <2>2, <4>1, <4>2
      <4> QED BY <2>3, <2>4, <3>2, <4>3 DEF ClientHears
    <3>3. CASE down = <<>> /\ up = <<>>
      <4>1. cidle <= PingInterval + (-tick)
        BY <1>7, <3>3 DEF ClientHears
      <4>2. cidle' <= PingInterval + (-tick')
        BY <1>1, <2>2, <4>1
      <4> QED BY <2>3, <2>4, <3>3, <4>2 DEF ClientHears
    <3> QED BY <3>1, <3>2, <3>3
  <2>10. outage' = 0
    BY <1>2, <1>7, <2>1 DEF Served
  <2>11. Outage'
    BY <2>2, <2>10 DEF Outage, BackInTime
  <2> QED BY <1>3, <2>7, <2>8, <2>9, <2>11
<1>8. CASE client = "register" /\ ~cut
  <2>1. client' = "register" /\ ~cut' /\ session' = session /\ cidle' = cidle + 1
    BY <1>0, <1>2, <1>8
  <2>2. ServerHears' /\ ClientHears'
    BY <2>1 DEF ServerHears, ClientHears
  <2>3. session' = "stale" => outage' <= sidle'
    BY <1>1, <1>2, <1>4, <2>1 DEF Outage
  <2>4. CASE Asks
    <3>1. One(up, "Register") /\ down = <<>> /\ session # "own" /\ cidle <= up[1].age
      BY <2>4 DEF Asks
    <3>2. One(up', "Register") /\ up'[1].age = up[1].age + 1 /\ down' = <<>>
      BY <1>0, <3>1, OneOlder, OlderEmpty, Zenon
    <3>3. up[1].age \in Nat
      BY <3>1, OneHead
    <3>4. Asks'
      BY <1>1, <2>1, <3>1, <3>2, <3>3 DEF Asks
    <3>5. ~Admitted' /\ ~Refused'
      BY <3>2, ManyEmpty DEF Admitted, Refused
    <3>6. outage' <= Timeout + MaxDelay + 5 * NetDelay + up'[1].age
      <4>1. outage <= Timeout + MaxDelay + 5 * NetDelay + up[1].age
        BY <1>8, <2>4 DEF Outage
      <4> QED BY <1>1, <1>4, <3>2, <3>3, <4>1
    <3>7. Traffic' /\ Outage'
      BY <2>1, <2>3, <3>4, <3>5, <3>6 DEF Traffic, Outage
    <3> QED BY <1>3, <2>2, <3>7
  <2>5. CASE Admitted
    <3>1. up = <<>> /\ One(down, "ack") /\ session = "own" /\ sidle = down[1].age
      BY <2>5 DEF Admitted
    <3>2. One(down', "ack") /\ down'[1].age = down[1].age + 1 /\ up' = <<>>
      BY <1>0, <3>1, OneOlder, OlderEmpty, Zenon
    <3>3. down[1].age \in Nat /\ sidle' = sidle + 1
      BY <1>2, <3>1, OneHead
    <3>4. Admitted'
      BY <1>1, <2>1, <3>1, <3>2, <3>3 DEF Admitted
    <3>5. ~Asks' /\ ~Refused'
      BY <2>1, <3>1, <3>2, ManyEmpty DEF Asks, Refused
    <3>6. outage' <= Timeout + MaxDelay + 6 * NetDelay + down'[1].age
      <4>1. outage <= Timeout + MaxDelay + 6 * NetDelay + down[1].age
        BY <1>8, <2>5 DEF Outage
      <4> QED BY <1>1, <1>4, <3>2, <3>3, <4>1
    <3>7. Traffic' /\ Outage'
      BY <2>1, <2>3, <3>4, <3>5, <3>6 DEF Traffic, Outage
    <3> QED BY <1>3, <2>2, <3>7
  <2>6. CASE Refused
    <3>1. up = <<>> /\ One(down, "nack") /\ session # "own"
      BY <2>6 DEF Refused
    <3>2. One(down', "nack") /\ down'[1].age = down[1].age + 1 /\ up' = <<>>
      BY <1>0, <3>1, OneOlder, OlderEmpty, Zenon
    <3>3. down[1].age \in Nat
      BY <3>1, OneHead
    <3>4. Refused'
      BY <2>1, <3>1, <3>2 DEF Refused
    <3>5. ~Asks' /\ ~Admitted'
      BY <2>1, <3>1, <3>2, ManyEmpty DEF Asks, Admitted
    <3>6. outage' <= Timeout + down'[1].age
      <4>1. outage <= Timeout + down[1].age
        BY <1>8, <2>6 DEF Outage
      <4> QED BY <1>1, <1>4, <3>2, <3>3, <4>1
    <3>7. Traffic' /\ Outage'
      BY <2>1, <2>3, <3>4, <3>5, <3>6 DEF Traffic, Outage
    <3> QED BY <1>3, <2>2, <3>7
  <2> QED BY <1>8, <2>4, <2>5, <2>6 DEF Traffic
<1>9. CASE client = "connect"
  <2>1. up' = <<>> /\ down' = <<>> /\ session' # "own" /\ client' = "connect" /\ ~cut'
    BY <1>0, <1>9, OlderEmpty DEF Traffic
  <2>2. Traffic'
    BY <2>1 DEF Traffic
  <2>3. ServerHears' /\ ClientHears'
    BY <2>1 DEF ServerHears, ClientHears
  <2>4. outage' <= Timeout + MaxDelay + NetDelay + cidle'
    <3>1. outage <= Timeout + MaxDelay + NetDelay + cidle /\ cidle' = cidle + 1
      BY <1>2, <1>9 DEF Outage
    <3> QED BY <1>1, <1>4, <3>1
  <2>5. session' = "stale" => outage' <= sidle'
    BY <1>0, <1>1, <1>2, <1>4 DEF Outage
  <2>6. Outage'
    BY <2>1, <2>4, <2>5 DEF Outage
  <2> QED BY <1>3, <2>2, <2>3, <2>6
<1>10. CASE client = "handshake" /\ ~cut
  <2>1. client' = "handshake" /\ ~cut' /\ session' = session /\ cidle' = cidle + 1
    BY <1>0, <1>2, <1>10
  <2>2. ServerHears' /\ ClientHears'
    BY <2>1 DEF ServerHears, ClientHears
  <2>3. session' = "stale" => outage' <= sidle'
    BY <1>1, <1>2, <1>4, <2>1 DEF Outage
  <2>4. CASE Greets
    <3>1. One(up, "client_nonce") /\ down = <<>> /\ session # "own" /\ cidle <= up[1].age
      BY <2>4 DEF Greets
    <3>2. One(up', "client_nonce") /\ up'[1].age = up[1].age + 1 /\ down' = <<>>
      BY <1>0, <3>1, OneOlder, OlderEmpty, Zenon
    <3>3. up[1].age \in Nat
      BY <3>1, OneHead
    <3>4. Greets'
      BY <1>1, <2>1, <3>1, <3>2, <3>3 DEF Greets
    <3>5. ~Greeted'
      BY <3>2, ManyEmpty DEF Greeted
    <3>6. outage' <= Timeout + MaxDelay + 3 * NetDelay + up'[1].age
      <4>1. outage <= Timeout + MaxDelay + 3 * NetDelay + up[1].age
        BY <1>10, <2>4 DEF Outage
      <4> QED BY <1>1, <1>4, <3>2, <3>3, <4>1
    <3>7. Traffic' /\ Outage'
      BY <2>1, <2>3, <3>1, <3>4, <3>5, <3>6 DEF Traffic, Outage
    <3> QED BY <1>3, <2>2, <3>7
  <2>5. CASE Greeted
    <3>1. up = <<>> /\ One(down, "server_nonce") /\ session # "own"
      BY <2>5 DEF Greeted
    <3>2. One(down', "server_nonce") /\ down'[1].age = down[1].age + 1 /\ up' = <<>>
      BY <1>0, <3>1, OneOlder, OlderEmpty, Zenon
    <3>3. down[1].age \in Nat
      BY <3>1, OneHead
    <3>4. Greeted'
      BY <2>1, <3>1, <3>2 DEF Greeted
    <3>5. ~Greets'
      BY <3>2, ManyEmpty DEF Greets
    <3>6. outage' <= Timeout + MaxDelay + 4 * NetDelay + down'[1].age
      <4>1. outage <= Timeout + MaxDelay + 4 * NetDelay + down[1].age
        BY <1>10, <2>5 DEF Outage
      <4> QED BY <1>1, <1>4, <3>2, <3>3, <4>1
    <3>7. Traffic' /\ Outage'
      BY <2>1, <2>3, <3>1, <3>4, <3>5, <3>6 DEF Traffic, Outage
    <3> QED BY <1>3, <2>2, <3>7
  <2> QED BY <1>10, <2>4, <2>5 DEF Traffic
<1> QED BY <1>1, <1>5, <1>6, <1>7, <1>8, <1>9, <1>10

-----------------------------------------------------------------------------
LEMMA KeepaliveStep == KeepaliveInv /\ [Next]_vars => KeepaliveInv'
<1> SUFFICES ASSUME KeepaliveInv, [Next]_vars PROVE KeepaliveInv'
  OBVIOUS
<1>1. CASE UNCHANGED vars
  <2>1. /\ client' = client /\ session' = session /\ cut' = cut /\ up' = up /\ down' = down
        /\ cidle' = cidle /\ sidle' = sidle /\ tick' = tick /\ wake' = wake
        /\ attempt' = attempt /\ faults' = faults /\ outage' = outage
    BY <1>1 DEF vars
  <2>2. /\ (Asks' <=> Asks) /\ (Admitted' <=> Admitted) /\ (Refused' <=> Refused)
        /\ (Greets' <=> Greets) /\ (Greeted' <=> Greeted)
    BY <2>1 DEF Asks, Admitted, Refused, Greets, Greeted
  <2>3. Clocks' /\ Traffic' /\ ServerHears' /\ ClientHears' /\ Outage'
    BY <2>1, <2>2 DEF KeepaliveInv, Clocks, Traffic, ServerHears, ClientHears, Outage, BackInTime
  <2> QED BY <2>3 DEF KeepaliveInv
<1>2. CASE Next
  BY <1>2, ConnectInv, ConnectFailsInv, ConnectedInv, SNonceInv, CNonceInv, SRegisterInv,
     SPingInv, CAckInv, CNackInv, CPongInv, HeartbeatInv, ClientTimeoutInv, ServerTimeoutInv, CutInv, TickInv, Zenon DEF Next
<1> QED BY <1>1, <1>2

LEMMA KeepaliveInvariant == Spec => []KeepaliveInv
<1> QED BY KeepaliveInit, KeepaliveStep, PTL DEF Spec

(* However long the client has been failing, service is back within one    *)
(* keepalive timeout of the server, one reconnect delay and the way of     *)
(* seven messages after the last fault: the outage is accounted for in     *)
(* every phase of the reconnect loop of rfrp_client, the TCP connect and   *)
(* the nonce exchange of client_handshake included, against the session it *)
(* left behind on the server.                                              *)
THEOREM ServiceIsBack == Spec => []BackInTime
<1>1. KeepaliveInv => BackInTime
  <2> SUFFICES ASSUME KeepaliveInv PROVE BackInTime
    OBVIOUS
  <2> USE Constants DEF KeepaliveInv
  <2>0. cidle \in 0..Timeout /\ wake \in 0..MaxDelay /\ outage \in Nat
        /\ client \in {"sleep", "connect", "handshake", "register", "run"}
        /\ (client = "connect" => cidle <= 2 * NetDelay)
    BY DEF Clocks
  <2>1. CASE client \in {"sleep", "connect", "run"} \/ cut
    BY <2>0, <2>1 DEF Outage, BackInTime
  <2>2. CASE client = "register" /\ ~cut
    <3>1. CASE Asks
      <4>1. up[1].age \in 0..NetDelay
        BY <3>1, OneHead DEF Asks
      <4> QED BY <2>0, <2>2, <3>1, <4>1 DEF Outage, BackInTime
    <3>2. CASE Admitted
      <4>1. down[1].age \in 0..NetDelay
        BY <3>2, OneHead DEF Admitted
      <4> QED BY <2>0, <2>2, <3>2, <4>1 DEF Outage, BackInTime
    <3>3. CASE Refused
      <4>1. down[1].age \in 0..NetDelay
        BY <3>3, OneHead DEF Refused
      <4> QED BY <2>0, <2>2, <3>3, <4>1 DEF Outage, BackInTime
    <3> QED BY <2>2, <3>1, <3>2, <3>3 DEF Traffic
  <2>3. CASE client = "handshake" /\ ~cut
    <3>1. CASE Greets
      <4>1. up[1].age \in 0..NetDelay
        BY <3>1, OneHead DEF Greets
      <4> QED BY <2>0, <2>3, <3>1, <4>1 DEF Outage, BackInTime
    <3>2. CASE Greeted
      <4>1. down[1].age \in 0..NetDelay
        BY <3>2, OneHead DEF Greeted
      <4> QED BY <2>0, <2>3, <3>2, <4>1 DEF Outage, BackInTime
    <3> QED BY <2>3, <3>1, <3>2 DEF Traffic
  <2> QED BY <2>0, <2>1, <2>2, <2>3
<1> QED BY <1>1, KeepaliveInvariant, PTL

(* Neither side takes a live peer for dead: as long as frames arrive       *)
(* within NetDelay, the server's nonce is there before HANDSHAKE_TIMEOUT,  *)
(* and the ping of every PING_INTERVAL and its pong keep both deadlines of *)
(* KEEPALIVE_TIMEOUT from passing.                                         *)
THEOREM LivePeersStay == Spec => NoFalseTimeout
<1> DEFINE Loses == (client \in {"handshake", "run"} /\ client' = "sleep")
                       \/ (session = "own" /\ session' = "none")
<1>1. KeepaliveInv /\ [Next]_vars => [Loses => cut]_vars
  <2> SUFFICES ASSUME KeepaliveInv, Next, Loses, ~cut PROVE FALSE
    BY DEF vars
  <2>1. CASE Connect \/ Connected \/ SNonce \/ CNonce \/ SRegister \/ SPing \/ CAck \/ CPong
    BY <2>1 DEF Connect, Connected, SNonce, CNonce, SRegister, SPing, CAck, CPong
  <2>a. CASE Heartbeat \/ Cut \/ Tick
    BY <2>a DEF Heartbeat, Cut, Tick
  <2>b. CASE ConnectFails
    <3>1. client = "connect" /\ session # "own"
      BY <2>b DEF ConnectFails, KeepaliveInv, Traffic
    <3> QED BY <3>1
  <2>2. CASE CNack
    <3>1. client = "register" /\ session # "own"
      BY <2>2, Arrivals DEF CNack, Refused
    <3> QED BY <3>1, <2>2
  <2>3. CASE ClientTimeout
    BY <2>3, InTime DEF ClientTimeout
  <2>4. CASE ServerTimeout
    <3>1. session # "own"
      BY <2>4, InTime DEF ServerTimeout
    <3> QED BY <3>1, <2>4 DEF ServerTimeout
  <2> QED BY <2>1, <2>a, <2>b, <2>2, <2>3, <2>4 DEF Next
<1>2. Spec => [][Loses => cut]_vars
  BY <1>1, KeepaliveInvariant, PTL DEF Spec
<1> QED BY <1>2 DEF NoFalseTimeout

(* Every delay the client sleeps is the doubled one, capped at             *)
(* MAX_RECONNECT_DELAY, for any number of attempts and however small the   *)
(* range of the integers: where saturating_pow or saturating_mul saturate  *)
(* the cap has already been reached.                                       *)
THEOREM DelaysDouble == Spec => DelayDoubles
<1> DEFINE Sleeps == client' = "sleep" /\ client # "sleep"
           Awake == client # "sleep" => attempt # 0
<1>1. Init => Awake
  BY DEF Init
<1>2. KeepaliveInv /\ Awake /\ [Next]_vars => Awake'
  <2> SUFFICES ASSUME KeepaliveInv, Awake, [Next]_vars PROVE Awake'
    OBVIOUS
  <2>1. attempt \in Nat
    BY DEF KeepaliveInv, Clocks
  <2>2. CASE UNCHANGED vars
    BY <2>2 DEF vars
  <2>3. CASE Connect
    BY <2>1, <2>3 DEF Connect
  <2>4. CASE Connected \/ SNonce \/ SRegister \/ SPing \/ CPong \/ Heartbeat \/ Cut \/ Tick
    BY <2>4 DEF Connected, SNonce, SRegister, SPing, CPong, Heartbeat, Cut, Tick
  <2>5. CASE ConnectFails \/ CNack \/ ClientTimeout \/ ServerTimeout
    BY <2>5 DEF ConnectFails, CNack, ClientTimeout, ServerTimeout, ClientReturns
  <2>6. CASE CAck \/ CNonce
    <3>1. client \in {"handshake", "register"}
      BY <2>6, Arrivals DEF CAck, CNonce
    <3> QED BY <2>6, <3>1 DEF CAck, CNonce
  <2> QED BY <2>2, <2>3, <2>4, <2>5, <2>6 DEF Next
<1>3. KeepaliveInv /\ Awake /\ [Next]_vars => [Sleeps => wake' = Doubled(attempt)]_vars
  <2> SUFFICES ASSUME KeepaliveInv, Awake, Next, Sleeps PROVE wake' = Doubled(attempt)
    BY DEF vars
  <2>1. attempt \in Nat
    BY DEF KeepaliveInv, Clocks
  <2>2. CASE ConnectFails \/ CNack \/ ClientTimeout \/ ServerTimeout
    <3>1. client # "sleep" /\ wake' = calc_reconnect_delay(attempt)
      BY <2>2 DEF ConnectFails, CNack, ClientTimeout, ServerTimeout, ClientReturns
    <3> QED BY <2>1, <3>1, DelayIsDoubled
  <2>3. CASE Connect \/ Connected \/ SNonce \/ CNonce \/ SRegister \/ SPing \/ CAck \/ CPong
    BY <2>3 DEF Connect, Connected, SNonce, CNonce, SRegister, SPing, CAck, CPong
  <2>4. CASE Heartbeat \/ Cut \/ Tick
    BY <2>4 DEF Heartbeat, Cut, Tick
  <2> QED BY <2>2, <2>3, <2>4 DEF Next
<1>4. Spec => [][Sleeps => wake' = Doubled(attempt)]_vars
  BY <1>1, <1>2, <1>3, KeepaliveInvariant, PTL DEF Spec
<1> QED BY <1>4 DEF DelayDoubles
=============================================================================
