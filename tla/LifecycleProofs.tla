-------------------------- MODULE LifecycleProofs ---------------------------
(***************************************************************************)
(* Theorems about connections, the semaphore and the handshake, for every  *)
(* set of clients, every assignment of tokens and ports, any number of     *)
(* permits and any number of faults.                                       *)
(***************************************************************************)
EXTENDS Lifecycle, TLAPS, FiniteSetTheorems

(* The nonces of a connection r in slot s and the keys its two sides       *)
(* derive from them.                                                       *)
ClientNonce(r, s) == <<"client", r.owner, s>>
ClientKey(r, s)   == derive_session_key(Token[r.owner], ClientNonce(r, s), server_nonce(s))
ServerKey(r, s)   == derive_session_key(ServerToken, ClientNonce(r, s), server_nonce(s))

(* Everything that can be in a connection's queues and keys. *)
Owner == Clients \cup {"nobody"}
Nonce == {<<"client", c, s>> : c \in Owner, s \in Slots} \cup {server_nonce(s) : s \in Slots}
Sealed == {derive_session_key(t, m, n) :
              t \in {Token[c] : c \in Clients} \cup {ServerToken}, m \in Nonce, n \in Nonce}
Yes == new_reg_ack_frame(TRUE)
No  == new_reg_ack_frame(FALSE)
Ack == {Yes, No}

Connection ==
    [owner : Owner,
     c : {"nonce", "wait", "register", "run", "closed"},
     s : {"backlog", "queued", "hs", "reply", "up", "serving", "done"},
     up : Seq(Nonce \cup Sealed), down : Seq(Nonce \cup Ack), cut : BOOLEAN,
     ckey : Sealed \cup {<<>>}, skey : Sealed \cup {<<>>}]

(* Where the conversation of a connection stands: what is on its way, and  *)
(* what each side may therefore believe.                                   *)
Conversation(r, s) ==
    /\ r.c # "closed" => r.owner \in Clients
    /\ r.s \in {"backlog", "queued", "hs"} =>
          /\ r.c \in {"nonce", "wait", "closed"} /\ r.down = <<>> /\ r.skey = <<>>
          /\ r.up = <<>> \/ (r.c # "nonce" /\ r.up = <<ClientNonce(r, s)>>)
    /\ r.s = "reply" =>
          /\ r.c \in {"wait", "closed"} /\ r.up = <<>> /\ r.down = <<>>
          /\ r.skey = ServerKey(r, s)
    /\ r.s = "up" =>
          /\ r.skey = ServerKey(r, s)
          /\ \/ r.c \in {"wait", "closed"} /\ r.up = <<>> /\ r.down = <<server_nonce(s)>>
             \/ r.c \in {"register", "closed"} /\ r.up = <<ClientKey(r, s)>> /\ r.down = <<>>
             \/ r.c \in {"register", "closed"} /\ r.up = <<>> /\ r.down = <<No>>
             \/ r.c = "closed" /\ r.up = <<>> /\ r.down = <<>>
    /\ r.s = "serving" =>
          /\ r.skey = ServerKey(r, s) /\ r.up = <<>> /\ Token[r.owner] = ServerToken
          /\ \/ r.c \in {"register", "closed"} /\ r.down = <<Yes>>
             \/ r.c \in {"run", "closed"} /\ r.down = <<>>
    /\ r.s = "done" =>
          /\ r.skey \in {<<>>, ServerKey(r, s)}
          /\ \/ r.c = "nonce" /\ r.up = <<>> /\ r.down = <<>>
             \/ r.c = "wait" /\ r.up \in {<<>>, <<ClientNonce(r, s)>>} /\ r.down = <<>>
             \/ r.c = "wait" /\ r.up = <<>> /\ r.down = <<server_nonce(s)>>
             \/ r.c = "register" /\ r.up = <<ClientKey(r, s)>> /\ r.down = <<>>
             \/ r.c = "register" /\ r.up = <<>> /\ r.down \in {<<Yes>>, <<No>>}
             \/ r.c = "run" /\ r.up = <<>> /\ r.down = <<>>
             \/ r = Free

OnePerPort ==
    \A s, t \in Slots : conn[s].s = "serving" /\ conn[t].s = "serving" /\ s # t =>
        Port[conn[s].owner] # Port[conn[t].owner]

AdmittedSlots == {s \in Slots : Admitted(s)}

(* The queue of the semaphore holds the queued tasks, each once. *)
Queue ==
    /\ waiting \in Seq(Slots)
    /\ \A i, j \in DOMAIN waiting : waiting[i] = waiting[j] => i = j
    /\ \A s \in Slots : conn[s].s = "queued" <=> \E i \in DOMAIN waiting : waiting[i] = s

(* The inductive invariant. *)
Sound ==
    /\ conn \in [Slots -> Connection]
    /\ permits \in Nat /\ faults \in 0..MaxFaults
    /\ permits + Cardinality(AdmittedSlots) = MaxPermits
    /\ Queue
    /\ \A s \in Slots : Conversation(conn[s], s)
    /\ OnePerPort

-----------------------------------------------------------------------------
(* Two states of the same connection have the same nonces and keys. *)
LEMMA SameSecrets ==
    ASSUME NEW q, NEW r, r.owner = q.owner, NEW s
    PROVE  /\ ClientNonce(r, s) = ClientNonce(q, s)
           /\ ClientKey(r, s) = ClientKey(q, s)
           /\ ServerKey(r, s) = ServerKey(q, s)
  BY DEF ClientNonce, ClientKey, ServerKey

(* The messages of a connection. *)
LEMMA MessageTypes ==
    ASSUME NEW s \in Slots, NEW r \in Connection
    PROVE  /\ ClientNonce(r, s) \in Nonce /\ server_nonce(s) \in Nonce
           /\ ServerKey(r, s) \in Sealed
           /\ r.owner \in Clients => ClientKey(r, s) \in Sealed
           /\ Yes \in Ack /\ No \in Ack
           /\ Yes # No
<1>1. ClientNonce(r, s) \in Nonce /\ server_nonce(s) \in Nonce
  BY DEF ClientNonce, Nonce, Connection
<1>2. ServerKey(r, s) \in Sealed
  BY <1>1 DEF ServerKey, Sealed
<1>3. r.owner \in Clients => ClientKey(r, s) \in Sealed
  BY <1>1 DEF ClientKey, Sealed
<1>4. /\ Yes \in Ack /\ No \in Ack
      /\ Yes # No
  BY DEF new_reg_ack_frame, Yes, No, Ack
<1> QED BY <1>1, <1>2, <1>3, <1>4

(* A free slot. *)
LEMMA FreeIsQuiet ==
    /\ Free \in Connection
    /\ Free.s = "done" /\ Free.c = "closed" /\ Free.owner = "nobody"
    /\ \A s : Conversation(Free, s)
<1>1. /\ Free.s = "done" /\ Free.c = "closed" /\ Free.owner = "nobody"
      /\ Free.up = <<>> /\ Free.down = <<>> /\ Free.skey = <<>>
  BY DEF Free
<1>2. Free \in Connection
  BY DEF Free, Connection, Owner
<1>3. \A s : Conversation(Free, s)
  BY <1>1 DEF Conversation
<1> QED BY <1>1, <1>2, <1>3

(* Storing a connection touches its slot only. *)
LEMMA PutEffect ==
    ASSUME conn \in [Slots -> Connection], NEW s \in Slots, NEW r \in Connection, Put(s, r)
    PROVE  /\ conn' \in [Slots -> Connection]
           /\ conn'[s].s = r.s
           /\ r.c = "closed" /\ r.s = "done" => conn'[s] = Free
           /\ r.c # "closed" \/ r.s # "done" => conn'[s] = r
           /\ \A t \in Slots : t # s => conn'[t] = conn[t]
<1>1. Settle(r) \in Connection /\ Settle(r).s = r.s
  BY FreeIsQuiet DEF Settle
<1>2. conn' = [conn EXCEPT ![s] = Settle(r)]
  BY DEF Put
<1> QED BY <1>1, <1>2 DEF Settle

(* What is left to show of a step on one connection: that its conversation *)
(* goes on as it should and that it takes no port another one holds.       *)
LEMMA SlotStep ==
    ASSUME Sound, NEW s \in Slots, NEW r \in Connection, Put(s, r),
           (r.c = "closed" /\ r.s = "done") \/ Conversation(r, s),
           r.s = "serving" =>
               \/ conn[s].s = "serving" /\ r.owner = conn[s].owner
               \/ PortFree(Port[r.owner])
    PROVE  /\ conn' \in [Slots -> Connection]
           /\ \A t \in Slots : Conversation(conn'[t], t)
           /\ OnePerPort'
<1>0. conn \in [Slots -> Connection] /\ OnePerPort /\ \A t \in Slots : Conversation(conn[t], t)
  BY DEF Sound
<1>1. /\ conn' \in [Slots -> Connection]
      /\ conn'[s].s = r.s
      /\ r.c = "closed" /\ r.s = "done" => conn'[s] = Free
      /\ r.c # "closed" \/ r.s # "done" => conn'[s] = r
      /\ \A t \in Slots : t # s => conn'[t] = conn[t]
  BY <1>0, PutEffect
<1>2. \A t \in Slots : Conversation(conn'[t], t)
  <2>1. Conversation(conn'[s], s)
    BY <1>1, FreeIsQuiet
  <2> QED BY <1>0, <1>1, <2>1
<1>3. OnePerPort'
  <2>1. CASE r.s # "serving"
    BY <1>0, <1>1, <2>1 DEF OnePerPort
  <2>2. CASE r.s = "serving"
    <3>1. conn'[s] = r
      BY <1>1, <2>2
    <3>2. \A t \in Slots : t # s /\ conn[t].s = "serving" => Port[conn[t].owner] # Port[r.owner]
      BY <1>0, <2>2 DEF OnePerPort, PortFree
    <3> QED BY <1>0, <1>1, <3>1, <3>2 DEF OnePerPort
  <2> QED BY <2>1, <2>2
<1> QED BY <1>1, <1>2, <1>3

Admits(state) == state \in {"hs", "reply", "up", "serving"}

(* Such a step that takes and returns no permit and leaves the queue       *)
(* alone.                                                                  *)
LEMMA StepSound ==
    ASSUME Sound, NEW s \in Slots, NEW r \in Connection, Put(s, r),
           (r.c = "closed" /\ r.s = "done") \/ Conversation(r, s),
           r.s = "serving" =>
               \/ conn[s].s = "serving" /\ r.owner = conn[s].owner
               \/ PortFree(Port[r.owner]),
           Admits(r.s) <=> Admits(conn[s].s),
           r.s = "queued" <=> conn[s].s = "queued",
           UNCHANGED <<waiting, permits>>, faults' \in 0..MaxFaults
    PROVE  Sound'
<1>1. /\ conn' \in [Slots -> Connection]
      /\ \A t \in Slots : Conversation(conn'[t], t)
      /\ OnePerPort'
  BY SlotStep
<1>2. conn'[s].s = r.s /\ \A t \in Slots : t # s => conn'[t] = conn[t]
  BY PutEffect DEF Sound
<1>3. AdmittedSlots' = AdmittedSlots
  BY <1>2 DEF AdmittedSlots, Admitted, Admits
<1>4. Queue'
  BY <1>2 DEF Sound, Queue
<1> QED BY <1>1, <1>3, <1>4 DEF Sound

(* The number of admitted tasks. *)
LEMMA AdmittedFinite == IsFiniteSet(AdmittedSlots) /\ Cardinality(AdmittedSlots) \in Nat
  BY LifecycleAssumption, FS_Subset, FS_CardinalityType DEF AdmittedSlots

(* However run_proxy returns, its permit is returned once. *)
LEMMA ReturnSound ==
    ASSUME Sound, NEW s \in Slots, Admits(conn[s].s), ServerReturns(s), faults' \in 0..MaxFaults
    PROVE  Sound'
<1> DEFINE q == conn[s]
           r == [q EXCEPT !.s = "done"]
<1>0. q \in Connection /\ Conversation(q, s)
  BY DEF Sound
<1>1. /\ r \in Connection /\ r.s = "done" /\ r.owner = q.owner /\ r.c = q.c
      /\ r.up = q.up /\ r.down = q.down /\ r.skey = q.skey
  BY <1>0 DEF Connection
<1>2. Put(s, r) /\ permits' = permits + 1 /\ waiting' = waiting
  BY DEF ServerReturns, Release
<1> HIDE DEF r, q
<1>3. r.c # "closed" => Conversation(r, s)
  <2>1. /\ ClientNonce(r, s) = ClientNonce(q, s)
        /\ ClientKey(r, s) = ClientKey(q, s)
        /\ ServerKey(r, s) = ServerKey(q, s)
    BY <1>1, SameSecrets
  <2> QED BY <1>0, <1>1, <2>1 DEF Conversation, Admits, q
<1>4. /\ conn' \in [Slots -> Connection]
      /\ \A t \in Slots : Conversation(conn'[t], t)
      /\ OnePerPort'
  BY <1>1, <1>2, <1>3, SlotStep
<1>5. conn'[s].s = "done" /\ \A t \in Slots : t # s => conn'[t] = conn[t]
  BY <1>1, <1>2, PutEffect DEF Sound
<1>6. AdmittedSlots' = AdmittedSlots \ {s} /\ s \in AdmittedSlots
  BY <1>5 DEF AdmittedSlots, Admitted, Admits
<1>7. Cardinality(AdmittedSlots') = Cardinality(AdmittedSlots) - 1
  BY <1>6, AdmittedFinite, FS_RemoveElement
<1>8. permits' \in Nat /\ permits' + Cardinality(AdmittedSlots') = MaxPermits
  BY <1>2, <1>7, AdmittedFinite, LifecycleAssumption DEF Sound
<1>9. Queue'
  BY <1>2, <1>5 DEF Sound, Queue, Admits
<1> QED BY <1>4, <1>8, <1>9 DEF Sound

(* A task asks for a permit. *)
LEMMA AcceptSound ==
    ASSUME Sound, NEW s \in Slots, Accept(s)
    PROVE  Sound'
<1> DEFINE q == conn[s]
           r == [q EXCEPT !.s = "queued"]
<1>0. q \in Connection /\ Conversation(q, s) /\ q.s = "backlog"
  BY DEF Sound, Accept
<1>1. /\ r \in Connection /\ r.s = "queued" /\ r.owner = q.owner /\ r.c = q.c
      /\ r.up = q.up /\ r.down = q.down /\ r.skey = q.skey
  BY <1>0 DEF Connection
<1>2. Put(s, r) /\ waiting' = Append(waiting, s) /\ UNCHANGED <<permits, faults>>
  BY DEF Accept
<1> HIDE DEF r, q
<1>3. Conversation(r, s)
  BY <1>0, <1>1, SameSecrets DEF Conversation
<1>4. /\ conn' \in [Slots -> Connection]
      /\ \A t \in Slots : Conversation(conn'[t], t)
      /\ OnePerPort'
  BY <1>1, <1>2, <1>3, SlotStep
<1>5. conn'[s].s = "queued" /\ \A t \in Slots : t # s => conn'[t] = conn[t]
  BY <1>1, <1>2, PutEffect DEF Sound
<1>6. AdmittedSlots' = AdmittedSlots
  BY <1>0, <1>5 DEF AdmittedSlots, Admitted, q
<1>7. Queue'
  <2>1. waiting \in Seq(Slots) /\ \A i \in DOMAIN waiting : waiting[i] # s
    BY <1>0 DEF Sound, Queue, q
  <2>2. /\ waiting' \in Seq(Slots)
        /\ DOMAIN waiting' = DOMAIN waiting \cup {Len(waiting) + 1}
        /\ Len(waiting) + 1 \notin DOMAIN waiting
        /\ \A i \in DOMAIN waiting : waiting'[i] = waiting[i]
        /\ waiting'[Len(waiting) + 1] = s
    BY <1>2, <2>1
  <2>3. \A i, j \in DOMAIN waiting' : waiting'[i] = waiting'[j] => i = j
    BY <2>1, <2>2 DEF Sound, Queue
  <2>4. \A t \in Slots : conn'[t].s = "queued" <=> \E i \in DOMAIN waiting' : waiting'[i] = t
    BY <1>5, <2>1, <2>2 DEF Sound, Queue
  <2> QED BY <2>2, <2>3, <2>4 DEF Queue
<1> QED BY <1>2, <1>4, <1>6, <1>7 DEF Sound

(* The oldest waiter gets a permit. *)
LEMMA AcquireSound ==
    ASSUME Sound, Acquire
    PROVE  Sound'
<1> DEFINE s == Head(waiting)
           q == conn[s]
           r == [q EXCEPT !.s = "hs"]
<1>0. /\ waiting \in Seq(Slots) /\ waiting # <<>> /\ permits > 0
      /\ s \in Slots /\ 1 \in DOMAIN waiting /\ waiting[1] = s
  BY DEF Sound, Queue, Acquire, PermitLeft
<1>a. q \in Connection /\ Conversation(q, s) /\ q.s = "queued"
  BY <1>0 DEF Sound, Queue
<1>1. /\ r \in Connection /\ r.s = "hs" /\ r.owner = q.owner /\ r.c = q.c
      /\ r.up = q.up /\ r.down = q.down /\ r.skey = q.skey
  BY <1>a DEF Connection
<1>2. Put(s, r) /\ waiting' = Tail(waiting) /\ permits' = permits - 1 /\ UNCHANGED faults
  BY DEF Acquire
<1> HIDE DEF r, q
<1>3. Conversation(r, s)
  BY <1>a, <1>1, SameSecrets DEF Conversation
<1>4. /\ conn' \in [Slots -> Connection]
      /\ \A t \in Slots : Conversation(conn'[t], t)
      /\ OnePerPort'
  BY <1>0, <1>1, <1>2, <1>3, SlotStep
<1>5. conn'[s].s = "hs" /\ \A t \in Slots : t # s => conn'[t] = conn[t]
  BY <1>0, <1>1, <1>2, PutEffect DEF Sound
<1>6. AdmittedSlots' = AdmittedSlots \cup {s} /\ s \notin AdmittedSlots
  BY <1>0, <1>a, <1>5 DEF AdmittedSlots, Admitted, q
<1>7. Cardinality(AdmittedSlots') = Cardinality(AdmittedSlots) + 1
  BY <1>6, AdmittedFinite, FS_AddElement
<1>8. permits' \in Nat /\ permits' + Cardinality(AdmittedSlots') = MaxPermits
  BY <1>0, <1>2, <1>7, AdmittedFinite, LifecycleAssumption DEF Sound
<1>9. Queue'
  <2>1. /\ waiting' \in Seq(Slots)
        /\ \A i \in DOMAIN waiting' : i + 1 \in DOMAIN waiting /\ waiting'[i] = waiting[i + 1]
                                      /\ i \in Nat /\ i + 1 # 1
        /\ \A i \in DOMAIN waiting : i # 1 => i - 1 \in DOMAIN waiting' /\ waiting'[i - 1] = waiting[i]
    BY <1>0, <1>2
  <2>2. \A i, j \in DOMAIN waiting : waiting[i] = waiting[j] => i = j
    BY DEF Sound, Queue
  <2>3. \A i, j \in DOMAIN waiting' : waiting'[i] = waiting'[j] => i = j
    BY <2>1, <2>2
  <2>4. \A i \in DOMAIN waiting' : waiting'[i] # s
    BY <1>0, <2>1, <2>2
  <2>5. \A t \in Slots : t # s =>
            ((\E i \in DOMAIN waiting : waiting[i] = t) <=> \E i \in DOMAIN waiting' : waiting'[i] = t)
    BY <1>0, <2>1
  <2>6. \A t \in Slots : conn'[t].s = "queued" <=> \E i \in DOMAIN waiting' : waiting'[i] = t
    BY <1>5, <2>4, <2>5 DEF Sound, Queue
  <2> QED BY <2>1, <2>3, <2>6 DEF Queue
<1> QED BY <1>2, <1>4, <1>8, <1>9 DEF Sound

-----------------------------------------------------------------------------
(* The handshake and the registration, on the server. *)
LEMMA ServerTalks ==
    ASSUME Sound, NEW s \in Slots, SNonce(s) \/ SReply(s) \/ SRegister(s)
    PROVE  Sound'
<1> DEFINE q == conn[s]
<1>0. q \in Connection /\ Conversation(q, s)
  BY DEF Sound
<1>f. faults \in 0..MaxFaults
  BY DEF Sound
<1>m. /\ ClientNonce(q, s) \in Nonce /\ server_nonce(s) \in Nonce /\ ServerKey(q, s) \in Sealed
      /\ q.owner \in Clients => ClientKey(q, s) \in Sealed
      /\ Yes \in Ack /\ No \in Ack
  BY <1>0, MessageTypes
<1>1. CASE SNonce(s)
  <2> DEFINE key == derive_session_key(ServerToken, Head(conn[s].up), server_nonce(s))
             r == [q EXCEPT !.s = "reply", !.up = Tail(@), !.skey = key]
  <2>1. q.s = "hs" /\ q.up # <<>>
    BY <1>1 DEF SNonce, ServerGets
  <2>2. q.up = <<ClientNonce(q, s)>> /\ q.c \in {"wait", "closed"} /\ q.down = <<>>
    BY <1>0, <2>1 DEF Conversation
  <2>3. Head(conn[s].up) = ClientNonce(q, s) /\ Tail(q.up) = <<>>
    BY <2>2
  <2>4. key = ServerKey(q, s) /\ key \in Sealed /\ <<>> \in Seq(Nonce \cup Sealed)
    BY <1>m, <2>3 DEF ServerKey
  <2>6. Put(s, r) /\ UNCHANGED <<waiting, permits, faults>>
    BY <1>1 DEF SNonce
  <2> HIDE DEF key
  <2>5. /\ r \in Connection /\ r.s = "reply" /\ r.owner = q.owner /\ r.c = q.c
        /\ r.up = <<>> /\ r.down = q.down /\ r.skey = ServerKey(q, s)
    BY <1>0, <2>3, <2>4 DEF Connection
  <2> HIDE DEF r, q
  <2>7. Conversation(r, s)
    BY <1>0, <2>2, <2>5, SameSecrets DEF Conversation
  <2> QED BY <1>f, <2>1, <2>5, <2>6, <2>7, StepSound DEF Admits, q
<1>2. CASE SReply(s)
  <2> DEFINE r == [q EXCEPT !.s = "up", !.down = Append(@, server_nonce(s))]
  <2>1. q.s = "reply"
    BY <1>2 DEF SReply
  <2>2. q.up = <<>> /\ q.c \in {"wait", "closed"} /\ q.down = <<>> /\ q.skey = ServerKey(q, s)
    BY <1>0, <2>1 DEF Conversation
  <2>3. Append(q.down, server_nonce(s)) = <<server_nonce(s)>>
    BY <2>2
  <2>4. <<server_nonce(s)>> \in Seq(Nonce \cup Ack)
    BY <1>m
  <2>5. /\ r \in Connection /\ r.s = "up" /\ r.owner = q.owner /\ r.c = q.c
        /\ r.up = <<>> /\ r.down = <<server_nonce(s)>> /\ r.skey = ServerKey(q, s)
    BY <1>0, <2>2, <2>3, <2>4 DEF Connection
  <2>6. Put(s, r) /\ UNCHANGED <<waiting, permits, faults>>
    BY <1>2 DEF SReply
  <2> HIDE DEF r, q
  <2>7. Conversation(r, s)
    BY <1>0, <2>2, <2>5, SameSecrets DEF Conversation
  <2> QED BY <1>f, <2>1, <2>5, <2>6, <2>7, StepSound DEF Admits, q
<1>3. CASE SRegister(s)
  <2> DEFINE free == PortFree(Port[conn[s].owner])
             r == [q EXCEPT !.s = IF free THEN "serving" ELSE @, !.up = Tail(@),
                            !.down = Append(@, new_reg_ack_frame(free))]
  <2>1. q.s \in {"up", "serving"} /\ q.up # <<>> /\ Head(q.up) = q.skey
    BY <1>3 DEF SRegister, ServerGets
  <2>2. /\ q.s = "up" /\ q.skey = ServerKey(q, s) /\ q.c \in {"register", "closed"}
        /\ q.up = <<ClientKey(q, s)>> /\ q.down = <<>>
    BY <1>0, <2>1 DEF Conversation
  <2>3. Token[q.owner] = ServerToken
    BY <2>1, <2>2 DEF ClientKey, ServerKey, derive_session_key
  <2>4. free \in BOOLEAN
    BY DEF PortFree
  <2>5. /\ Tail(q.up) = <<>>
        /\ Append(q.down, new_reg_ack_frame(free)) = <<new_reg_ack_frame(free)>>
    BY <2>2
  <2>6. <<Yes>> \in Seq(Nonce \cup Ack) /\ <<No>> \in Seq(Nonce \cup Ack)
    BY <1>m
  <2>a. <<>> \in Seq(Nonce \cup Sealed)
    OBVIOUS
  <2>7. Put(s, r) /\ UNCHANGED <<waiting, permits, faults>>
    BY <1>3 DEF SRegister
  <2>8. CASE free
    <3>1. Append(q.down, new_reg_ack_frame(free)) = <<Yes>>
      <4>1. free = TRUE
        BY <2>4, <2>8
      <4> HIDE DEF free
      <4>2. new_reg_ack_frame(free) = Yes
        BY <4>1, Zenon DEF Yes
      <4> QED BY <2>5, <4>2
    <3> HIDE DEF free
    <3>2. /\ r \in Connection /\ r.s = "serving" /\ r.owner = q.owner /\ r.c = q.c
          /\ r.up = <<>> /\ r.down = <<Yes>> /\ r.skey = ServerKey(q, s)
      BY <1>0, <2>2, <2>5, <2>6, <2>8, <2>a, <3>1 DEF Connection
    <3> HIDE DEF r, q
    <3>3. Conversation(r, s)
      BY <1>0, <2>2, <2>3, <3>2, SameSecrets DEF Conversation
    <3>4. PortFree(Port[r.owner])
      BY <2>8, <3>2 DEF q, free
    <3> QED BY <1>f, <2>2, <2>7, <3>2, <3>3, <3>4, StepSound DEF Admits, q
  <2>9. CASE ~free
    <3>1. Append(q.down, new_reg_ack_frame(free)) = <<No>>
      <4>1. free = FALSE
        BY <2>4, <2>9
      <4> HIDE DEF free
      <4>2. new_reg_ack_frame(free) = No
        BY <4>1, Zenon DEF No
      <4> QED BY <2>5, <4>2
    <3> HIDE DEF free
    <3>2. /\ r \in Connection /\ r.s = "up" /\ r.owner = q.owner /\ r.c = q.c
          /\ r.up = <<>> /\ r.down = <<No>> /\ r.skey = ServerKey(q, s)
      BY <1>0, <2>2, <2>5, <2>6, <2>9, <2>a, <3>1 DEF Connection
    <3> HIDE DEF r, q
    <3>3. Conversation(r, s)
      BY <1>0, <2>2, <3>2, SameSecrets DEF Conversation
    <3> QED BY <1>f, <2>2, <2>7, <3>2, <3>3, StepSound DEF Admits, q
  <2> QED BY <2>8, <2>9
<1> QED BY <1>1, <1>2, <1>3

(* The handshake and the registration, on the client. *)
LEMMA ClientTalks ==
    ASSUME Sound, NEW s \in Slots, CNonce(s) \/ CDerive(s) \/ CAck(s)
    PROVE  Sound'
<1> DEFINE q == conn[s]
<1>0. q \in Connection /\ Conversation(q, s)
  BY DEF Sound
<1>f. faults \in 0..MaxFaults
  BY DEF Sound
<1>m. /\ ClientNonce(q, s) \in Nonce /\ server_nonce(s) \in Nonce /\ ServerKey(q, s) \in Sealed
      /\ q.owner \in Clients => ClientKey(q, s) \in Sealed
      /\ Yes \in Ack /\ No \in Ack
      /\ Yes # No
  BY <1>0, MessageTypes
<1>n. client_nonce(s) = ClientNonce(q, s)
  BY DEF client_nonce, ClientNonce
<1>1. CASE CNonce(s)
  <2> DEFINE r == [q EXCEPT !.c = "wait", !.up = Append(@, client_nonce(s))]
  <2>1. q.c = "nonce"
    BY <1>1 DEF CNonce
  <2>2. /\ q.s \in {"backlog", "queued", "hs", "done"} /\ q.up = <<>> /\ q.down = <<>>
        /\ q.skey \in {<<>>, ServerKey(q, s)}
    BY <1>0, <2>1, FreeIsQuiet DEF Conversation, Connection
  <2>3. Append(q.up, client_nonce(s)) = <<ClientNonce(q, s)>>
    BY <1>n, <2>2
  <2>4. <<ClientNonce(q, s)>> \in Seq(Nonce \cup Sealed)
    BY <1>m
  <2>5. /\ r \in Connection /\ r.s = q.s /\ r.owner = q.owner /\ r.c = "wait"
        /\ r.up = <<ClientNonce(q, s)>> /\ r.down = <<>> /\ r.skey = q.skey
    BY <1>0, <2>2, <2>3, <2>4 DEF Connection
  <2>6. Put(s, r) /\ UNCHANGED <<waiting, permits, faults>>
    BY <1>1 DEF CNonce
  <2> HIDE DEF r, q
  <2>7. Conversation(r, s)
    BY <1>0, <2>1, <2>2, <2>5, SameSecrets DEF Conversation
  <2> QED BY <1>f, <2>2, <2>5, <2>6, <2>7, StepSound DEF Admits, q
<1>2. CASE CDerive(s)
  <2> DEFINE key == derive_session_key(Token[conn[s].owner], client_nonce(s), Head(conn[s].down))
             r == [q EXCEPT !.c = "register", !.down = Tail(@), !.ckey = key, !.up = Append(@, key)]
  <2>1. q.c = "wait" /\ q.down # <<>>
    BY <1>2 DEF CDerive, ClientGets
  <2>2. /\ q.s \in {"up", "done"} /\ q.up = <<>> /\ q.down = <<server_nonce(s)>>
        /\ q.skey \in {<<>>, ServerKey(q, s)} /\ q.owner \in Clients
    BY <1>0, <2>1, FreeIsQuiet DEF Conversation, Connection
  <2>3. Head(conn[s].down) = server_nonce(s) /\ Tail(q.down) = <<>>
    BY <2>2
  <2>4. key = ClientKey(q, s)
    BY <1>n, <2>3 DEF ClientKey
  <2>5. Append(q.up, key) = <<ClientKey(q, s)>> /\ key \in Sealed
    BY <1>m, <2>2, <2>4
  <2>6. <<ClientKey(q, s)>> \in Seq(Nonce \cup Sealed) /\ <<>> \in Seq(Nonce \cup Ack)
    BY <1>m, <2>2
  <2>7. Put(s, r) /\ UNCHANGED <<waiting, permits, faults>>
    BY <1>2 DEF CDerive
  <2> HIDE DEF key
  <2>8. /\ r \in Connection /\ r.s = q.s /\ r.owner = q.owner /\ r.c = "register"
        /\ r.up = <<ClientKey(q, s)>> /\ r.down = <<>> /\ r.skey = q.skey
    BY <1>0, <2>3, <2>5, <2>6 DEF Connection
  <2> HIDE DEF r, q
  <2>9. Conversation(r, s)
    BY <1>0, <2>1, <2>2, <2>8, SameSecrets DEF Conversation
  <2> QED BY <1>f, <2>2, <2>7, <2>8, <2>9, StepSound DEF Admits, q
<1>3. CASE CAck(s)
  <2> DEFINE yes == Head(conn[s].down) = Yes
             r == [q EXCEPT !.c = IF yes THEN "run" ELSE "closed", !.down = Tail(@)]
  <2>1. q.c = "register" /\ q.down # <<>>
    BY <1>3 DEF CAck, ClientGets
  <2>2. /\ q.s \in {"up", "serving", "done"}
        /\ q.down \in {<<Yes>>, <<No>>}
        /\ q.s = "up" => q.down = <<No>>
        /\ q.s = "serving" => q.down = <<Yes>>
        /\ q.owner \in Clients
    BY <1>0, <2>1, FreeIsQuiet DEF Conversation, Connection
  <2>3. /\ Tail(q.down) = <<>> /\ <<>> \in Seq(Nonce \cup Ack)
        /\ yes <=> q.down = <<Yes>>
    <3>1. Tail(<<Yes>>) = <<>> /\ Tail(<<No>>) = <<>> /\ Head(<<Yes>>) = Yes /\ Head(<<No>>) = No
      OBVIOUS
    <3>2. <<Yes>> # <<No>>
      BY <1>m, <3>1
    <3>3. <<>> \in Seq(Nonce \cup Ack)
      OBVIOUS
    <3>4. CASE q.down = <<Yes>>
      BY <3>1, <3>3, <3>4
    <3>5. CASE q.down = <<No>>
      BY <1>m, <3>1, <3>2, <3>3, <3>5
    <3> QED BY <2>2, <3>4, <3>5
  <2>4. Put(s, r) /\ UNCHANGED <<waiting, permits, faults>>
    BY <1>3 DEF CAck, Yes
  <2> HIDE DEF yes
  <2>5. /\ r \in Connection /\ r.s = q.s /\ r.owner = q.owner
        /\ r.c = IF yes THEN "run" ELSE "closed"
        /\ r.up = q.up /\ r.down = <<>> /\ r.skey = q.skey
    BY <1>0, <2>3 DEF Connection
  <2> HIDE DEF r, q
  <2>6. (r.c = "closed" /\ r.s = "done") \/ Conversation(r, s)
    <3>0. /\ ClientNonce(r, s) = ClientNonce(q, s)
          /\ ClientKey(r, s) = ClientKey(q, s)
          /\ ServerKey(r, s) = ServerKey(q, s)
      BY <2>5, SameSecrets
    <3>1. <<Yes>> # <<No>>
      <4>1. Head(<<Yes>>) = Yes /\ Head(<<No>>) = No
        OBVIOUS
      <4> QED BY <1>m, <4>1
    <3>2. CASE q.s = "up"
      <4>1. r.c = "closed" /\ q.up = <<>> /\ q.skey = ServerKey(q, s)
        BY <1>0, <2>1, <2>2, <2>3, <2>5, <3>1, <3>2 DEF Conversation
      <4> QED BY <2>5, <3>0, <3>2, <4>1 DEF Conversation
    <3>3. CASE q.s = "serving"
      <4>1. /\ r.c = "run" /\ q.up = <<>> /\ q.skey = ServerKey(q, s)
            /\ Token[q.owner] = ServerToken
        BY <1>0, <2>2, <2>3, <2>5, <3>3 DEF Conversation
      <4> QED BY <2>2, <2>5, <3>0, <3>3, <4>1 DEF Conversation
    <3>4. CASE q.s = "done" /\ r.c = "run"
      BY <1>0, <2>1, <2>2, <2>5, <3>0, <3>4, FreeIsQuiet DEF Conversation
    <3>5. CASE q.s = "done" /\ r.c = "closed"
      BY <2>5, <3>5
    <3> QED BY <2>2, <2>5, <3>2, <3>3, <3>4, <3>5
  <2> QED BY <1>f, <2>2, <2>4, <2>5, <2>6, StepSound DEF Admits, q
<1> QED BY <1>1, <1>2, <1>3

(* A client that gives up, is killed or whose network is cut. *)
LEMMA ClientLeaves ==
    ASSUME Sound, NEW s \in Slots,
           CEnds(s) \/ CEndsEarly(s) \/ ClientRestarts(s) \/ Cut(s)
    PROVE  Sound'
<1> DEFINE q == conn[s]
<1>0. q \in Connection /\ Conversation(q, s)
  BY DEF Sound
<1>1. faults' \in 0..MaxFaults /\ UNCHANGED <<waiting, permits>>
  BY LifecycleAssumption DEF Sound, CEnds, CEndsEarly, ClientRestarts, Cut
<1>2. CASE CEnds(s) \/ CEndsEarly(s) \/ ClientRestarts(s)
  <2> DEFINE r == [q EXCEPT !.c = "closed"]
  <2>1. /\ r \in Connection /\ r.s = q.s /\ r.owner = q.owner /\ r.c = "closed"
        /\ r.up = q.up /\ r.down = q.down /\ r.skey = q.skey
    BY <1>0 DEF Connection
  <2>2. Put(s, r) /\ q.c # "closed"
    BY <1>2 DEF CEnds, CEndsEarly, ClientRestarts
  <2> HIDE DEF r, q
  <2>3. r.s = "done" \/ Conversation(r, s)
    <3>1. /\ ClientNonce(r, s) = ClientNonce(q, s)
          /\ ClientKey(r, s) = ClientKey(q, s)
          /\ ServerKey(r, s) = ServerKey(q, s)
      BY <2>1, SameSecrets
    <3> QED BY <1>0, <2>1, <2>2, <3>1 DEF Conversation
  <2> QED BY <1>1, <2>1, <2>2, <2>3, StepSound DEF q
<1>3. CASE Cut(s)
  <2> DEFINE r == [q EXCEPT !.cut = TRUE]
  <2>1. /\ r \in Connection /\ r.s = q.s /\ r.owner = q.owner /\ r.c = q.c
        /\ r.up = q.up /\ r.down = q.down /\ r.skey = q.skey
    BY <1>0 DEF Connection
  <2>2. Put(s, r) /\ q # Free
    BY <1>3 DEF Cut
  <2> HIDE DEF r, q
  <2>3. (r.c = "closed" /\ r.s = "done") \/ Conversation(r, s)
    <3>1. /\ ClientNonce(r, s) = ClientNonce(q, s)
          /\ ClientKey(r, s) = ClientKey(q, s)
          /\ ServerKey(r, s) = ServerKey(q, s)
      BY <2>1, SameSecrets
    <3> QED BY <1>0, <2>1, <2>2, <3>1 DEF Conversation
  <2> QED BY <1>1, <2>1, <2>2, <2>3, StepSound DEF q
<1> QED BY <1>2, <1>3

(* A client connects, in a slot that is free. *)
LEMMA ConnectSound ==
    ASSUME Sound, NEW c \in Clients, Connect(c)
    PROVE  Sound'
<1> DEFINE s == CHOOSE t \in Slots : conn[t] = Free
           r == Fresh(c)
<1>1. s \in Slots /\ conn[s] = Free
  BY DEF Connect
<1>2. Put(s, r) /\ UNCHANGED <<waiting, permits, faults>>
  BY DEF Connect
<1> HIDE DEF s
<1>3. /\ r.s = "backlog" /\ r.c = "nonce" /\ r.owner = c
      /\ r.up = <<>> /\ r.down = <<>> /\ r.skey = <<>>
  BY DEF Fresh, Free
<1>4. r \in Connection
  <2>1. c \in Owner
    BY DEF Owner
  <2> DEFINE f == Free
  <2>2. f \in Connection
    BY FreeIsQuiet
  <2>3. r = [f EXCEPT !.owner = c, !.c = "nonce", !.s = "backlog"]
    BY DEF Fresh
  <2> HIDE DEF f, r
  <2> QED BY <2>1, <2>2, <2>3 DEF Connection
<1> HIDE DEF r
<1>5. Conversation(r, s)
  BY <1>3 DEF Conversation
<1>6. faults' \in 0..MaxFaults /\ conn[s].s = "done"
  BY <1>1, <1>2, FreeIsQuiet DEF Sound
<1> QED BY <1>1, <1>2, <1>3, <1>4, <1>5, <1>6, StepSound DEF Admits

(* The server process is restarted: no task, no queue, all permits. *)
LEMMA RestartSound ==
    ASSUME Sound, ServerRestarts
    PROVE  Sound'
<1>1. /\ conn' = [s \in Slots |-> Settle([conn[s] EXCEPT !.s = "done"])]
      /\ waiting' = <<>> /\ permits' = MaxPermits /\ faults' \in 0..MaxFaults
  BY LifecycleAssumption DEF ServerRestarts, Sound
<1>2. \A s \in Slots : /\ conn'[s] \in Connection /\ conn'[s].s = "done"
                       /\ Conversation(conn'[s], s)
  <2> SUFFICES ASSUME NEW s \in Slots
               PROVE  /\ conn'[s] \in Connection /\ conn'[s].s = "done"
                      /\ Conversation(conn'[s], s)
    OBVIOUS
  <2> DEFINE q == conn[s]
             r == [q EXCEPT !.s = "done"]
  <2>0. q \in Connection /\ Conversation(q, s)
    BY DEF Sound
  <2>1. /\ r \in Connection /\ r.s = "done" /\ r.owner = q.owner /\ r.c = q.c
        /\ r.up = q.up /\ r.down = q.down /\ r.skey = q.skey
    BY <2>0 DEF Connection
  <2>2. conn'[s] = Settle(r)
    BY <1>1
  <2> HIDE DEF r, q
  <2>3. CASE r.c = "closed"
    <3>1. conn'[s] = Free
      BY <2>1, <2>2, <2>3 DEF Settle
    <3> QED BY <3>1, FreeIsQuiet
  <2>4. CASE r.c # "closed"
    <3>1. conn'[s] = r
      BY <2>1, <2>2, <2>4 DEF Settle
    <3>2. /\ ClientNonce(r, s) = ClientNonce(q, s)
          /\ ClientKey(r, s) = ClientKey(q, s)
          /\ ServerKey(r, s) = ServerKey(q, s)
      BY <2>1, SameSecrets
    <3>3. q.c # "closed" /\ q # Free /\ q.s \in {"backlog", "queued", "hs", "reply", "up", "serving", "done"}
      BY <2>0, <2>1, <2>4, FreeIsQuiet DEF Connection
    <3>4. Conversation(r, s)
      BY <2>0, <2>1, <2>4, <3>2, <3>3 DEF Conversation
    <3> QED BY <2>1, <3>1, <3>4
  <2> QED BY <2>3, <2>4
<1>3. AdmittedSlots' = {}
  BY <1>2 DEF AdmittedSlots, Admitted
<1>4. permits' \in Nat /\ permits' + Cardinality(AdmittedSlots') = MaxPermits
  BY <1>1, <1>3, FS_EmptySet, LifecycleAssumption
<1>5. Queue'
  BY <1>1, <1>2 DEF Queue
<1>6. OnePerPort'
  BY <1>2 DEF OnePerPort
<1>7. conn' \in [Slots -> Connection]
  BY <1>1, <1>2
<1> QED BY <1>1, <1>2, <1>4, <1>5, <1>6, <1>7 DEF Sound

-----------------------------------------------------------------------------
(* All slots are free at the start. *)
LEMMA InitSound == Init => Sound
<1> SUFFICES ASSUME Init PROVE Sound
  OBVIOUS
<1>1. \A s \in Slots : conn[s] = Free
  BY DEF Init
<1>2. conn \in [Slots -> Connection] /\ \A s \in Slots : Conversation(conn[s], s)
  BY <1>1, FreeIsQuiet DEF Init
<1>3. AdmittedSlots = {}
  BY <1>1, FreeIsQuiet DEF AdmittedSlots, Admitted
<1>4. permits \in Nat /\ permits + Cardinality(AdmittedSlots) = MaxPermits
  BY <1>3, FS_EmptySet, LifecycleAssumption DEF Init
<1>5. Queue
  BY <1>1, FreeIsQuiet DEF Init, Queue
<1>6. OnePerPort /\ faults \in 0..MaxFaults
  BY <1>1, FreeIsQuiet, LifecycleAssumption DEF OnePerPort, Init
<1> QED BY <1>2, <1>4, <1>5, <1>6 DEF Sound

(* Every step keeps the invariant. *)
LEMMA NextSound == Sound /\ [Next]_vars => Sound'
<1> SUFFICES ASSUME Sound, [Next]_vars PROVE Sound'
  OBVIOUS
<1>1. CASE Acquire \/ ServerRestarts
  BY <1>1, AcquireSound, RestartSound
<1>2. ASSUME NEW c \in Clients, Connect(c) PROVE Sound'
  BY <1>2, ConnectSound
<1>3. ASSUME NEW s \in Slots, Accept(s) \/ SNonce(s) \/ SReply(s) \/ SRegister(s) PROVE Sound'
  BY <1>3, AcceptSound, ServerTalks
<1>4. ASSUME NEW s \in Slots, SReplyFails(s) \/ SUndecodable(s) \/ SEnds(s) \/ SEndsEarly(s)
      PROVE  Sound'
  <2>1. faults' \in 0..MaxFaults /\ ServerReturns(s) /\ Admits(conn[s].s)
    BY <1>4, LifecycleAssumption
       DEF SReplyFails, SUndecodable, SEnds, SEndsEarly, ServerWaits, Sound, Admits
  <2> QED BY <2>1, ReturnSound
<1>5. ASSUME NEW s \in Slots, ClientStep(s) PROVE Sound'
  BY <1>5, ClientTalks, ClientLeaves DEF ClientStep
<1>6. ASSUME NEW s \in Slots, Cut(s) \/ ClientRestarts(s) \/ CEndsEarly(s) PROVE Sound'
  BY <1>6, ClientLeaves
<1>7. CASE UNCHANGED vars
  <2>1. UNCHANGED <<conn, waiting, permits, faults>>
    BY <1>7 DEF vars
  <2> QED BY <2>1 DEF Sound, Queue, OnePerPort, AdmittedSlots, Admitted
<1> QED BY <1>1, <1>2, <1>3, <1>4, <1>5, <1>6, <1>7 DEF Next, ServerStep, Disturbance

(* Connections, queue and permits stay well typed; in particular no        *)
(* direction of a connection ever holds more than two messages before the  *)
(* session is up, and the semaphore never goes below zero.                 *)
THEOREM LifecycleTypeCorrect == Spec => []TypeOK
<1>1. Sound => TypeOK
  <2> SUFFICES ASSUME Sound PROVE TypeOK
    OBVIOUS
  <2>1. \A s \in Slots : /\ conn[s].owner \in Clients \cup {"nobody"}
                         /\ conn[s].c \in {"nonce", "wait", "register", "run", "closed"}
                         /\ conn[s].s \in {"backlog", "queued", "hs", "reply", "up", "serving", "done"}
                         /\ conn[s].cut \in BOOLEAN
    BY DEF Sound, Connection, Owner
  <2>2. \A s \in Slots : Len(conn[s].up) <= 2 /\ Len(conn[s].down) <= 2
    <3> SUFFICES ASSUME NEW s \in Slots PROVE Len(conn[s].up) <= 2 /\ Len(conn[s].down) <= 2
      OBVIOUS
    <3>1. Conversation(conn[s], s) /\ Free.up = <<>> /\ Free.down = <<>>
      BY DEF Sound, Free
    <3> DEFINE nonce == ClientNonce(conn[s], s)
               key   == ClientKey(conn[s], s)
               reply == server_nonce(s)
               yes   == Yes
               no    == No
    <3>3. conn[s].up = <<>> \/ conn[s].up = <<nonce>> \/ conn[s].up = <<key>>
      BY <2>1, <3>1 DEF Conversation
    <3>4. \/ conn[s].down = <<>> \/ conn[s].down = <<reply>>
          \/ conn[s].down = <<yes>> \/ conn[s].down = <<no>>
      BY <2>1, <3>1 DEF Conversation
    <3> HIDE DEF nonce, key, reply, yes, no
    <3>5. /\ Len(<<>>) = 0 /\ Len(<<nonce>>) = 1 /\ Len(<<key>>) = 1
          /\ Len(<<reply>>) = 1 /\ Len(<<yes>>) = 1 /\ Len(<<no>>) = 1
      OBVIOUS
    <3>6. Len(conn[s].up) \in {0, 1}
      BY <3>3, <3>5, Zenon
    <3>7. Len(conn[s].down) \in {0, 1}
      BY <3>4, <3>5, Zenon
    <3>8. \A n \in {0, 1} : n <= 2
      OBVIOUS
    <3> QED BY <3>6, <3>7, <3>8, Zenon
  <2>3. permits \in 0..MaxPermits
    BY AdmittedFinite, LifecycleAssumption DEF Sound
  <2> QED BY <2>1, <2>2, <2>3 DEF TypeOK, Sound, Queue
<1> QED BY <1>1, InitSound, NextSound, PTL DEF Spec

(* No way of leaving run_proxy loses or doubles a permit, and every task   *)
(* that waits for one is in the queue exactly once.                        *)
THEOREM PermitsAreConserved == Spec => []PermitsConserved
<1>1. Sound => PermitsConserved
  <2> SUFFICES ASSUME Sound PROVE PermitsConserved
    OBVIOUS
  <2>1. permits + Cardinality({s \in Slots : Admitted(s)}) = MaxPermits
    BY DEF Sound, AdmittedSlots
  <2>2. ASSUME NEW s \in Slots
        PROVE  Cardinality({i \in DOMAIN waiting : waiting[i] = s})
                   = IF conn[s].s = "queued" THEN 1 ELSE 0
    <3> DEFINE I == {i \in DOMAIN waiting : waiting[i] = s}
    <3>1. CASE conn[s].s = "queued"
      <4>1. PICK i \in DOMAIN waiting : waiting[i] = s
        BY <3>1 DEF Sound, Queue
      <4>2. I = {i}
        BY <4>1 DEF Sound, Queue
      <4> QED BY <3>1, <4>2, FS_Singleton
    <3>2. CASE conn[s].s # "queued"
      <4>1. I = {}
        BY <3>2 DEF Sound, Queue
      <4> QED BY <3>2, <4>1, FS_EmptySet
    <3> QED BY <3>1, <3>2
  <2> QED BY <2>1, <2>2 DEF PermitsConserved
<1> QED BY <1>1, InitSound, NextSound, PTL DEF Spec

(* A client that believes its proxy is registered is right while the       *)
(* server's session lasts; who is served has the server's token, is alone  *)
(* on its port and shares its key with no other connection.                *)
THEOREM RunningClientsAreServed == Spec => []RunningIsServed
<1>1. Sound => RunningIsServed
  <2> SUFFICES ASSUME Sound, NEW s \in Slots
               PROVE  /\ conn[s].c = "run" => conn[s].s \in {"serving", "done"}
                      /\ conn[s].s = "serving" =>
                            /\ Token[conn[s].owner] = ServerToken
                            /\ \A t \in Slots \ {s} :
                                  /\ conn[t].skey # conn[s].skey
                                  /\ conn[t].s = "serving" => Port[conn[t].owner] # Port[conn[s].owner]
    BY DEF RunningIsServed
  <2>0. \A t \in Slots : conn[t] \in Connection /\ Conversation(conn[t], t)
    BY DEF Sound
  <2>1. conn[s].c = "run" => conn[s].s \in {"serving", "done"}
    BY <2>0 DEF Conversation, Connection
  <2>2. conn[s].s = "serving" =>
            Token[conn[s].owner] = ServerToken /\ conn[s].skey = ServerKey(conn[s], s)
    BY <2>0 DEF Conversation
  <2>3. \A t \in Slots : conn[t].skey = <<>> \/ conn[t].skey = ServerKey(conn[t], t)
    BY <2>0 DEF Conversation, Connection
  <2>4. \A t \in Slots : t # s => ServerKey(conn[t], t) # ServerKey(conn[s], s)
    BY DEF ServerKey, derive_session_key, server_nonce
  <2>5. ServerKey(conn[s], s) # <<>>
    BY DEF ServerKey, derive_session_key
  <2>6. \A t \in Slots \ {s} : conn[s].s = "serving" /\ conn[t].s = "serving" =>
            Port[conn[t].owner] # Port[conn[s].owner]
    BY DEF Sound, OnePerPort
  <2> QED BY <2>1, <2>2, <2>3, <2>4, <2>5, <2>6
<1> QED BY <1>1, InitSound, NextSound, PTL DEF Spec
=============================================================================
