---------------------------- MODULE PathProofs ------------------------------
(***************************************************************************)
(* Proofs about Path: the bytes of an answer on their way through two      *)
(* channels, two tasks, two buffers and a stream.                          *)
(***************************************************************************)
EXTENDS Path, SequenceTheorems, WellFoundedInduction, TLAPS

-----------------------------------------------------------------------------
(* Induction over the naturals, for a set instead of a predicate. *)

LEMMA LeastNatural ==
    ASSUME NEW T, T \subseteq Nat, T # {}
    PROVE  \E x \in T : \A y \in T : x <= y
<1> DEFINE R == OpToRel(<, Nat)
<1>1. IsWellFoundedOn(R, Nat)
  BY NatLessThanWellFounded
<1>2. \A x, y \in Nat : x < y => <<x, y>> \in R
  BY DEF OpToRel
<1> HIDE DEF R
<1>3. PICK x \in T : \A y \in T : ~ (<<y, x>> \in R)
  BY <1>1, WFMin
<1>4. ASSUME NEW y \in T PROVE x <= y
  <2>1. x \in Nat /\ y \in Nat
    OBVIOUS
  <2>2. ~(y < x)
    BY <1>2, <1>3, <2>1
  <2> QED BY <2>1, <2>2
<1> QED BY <1>3, <1>4

LEMMA SetInduction ==
    ASSUME NEW T, 0 \in T, \A n \in Nat : n \in T => n + 1 \in T
    PROVE  \A n \in Nat : n \in T
<1> SUFFICES ASSUME Nat \ T # {} PROVE FALSE
  OBVIOUS
<1>1. PICK x \in Nat \ T : \A y \in Nat \ T : x <= y
  BY LeastNatural
<1>2. x # 0 /\ x - 1 \in Nat
  BY <1>1
<1>3. x - 1 \in T
  BY <1>1, <1>2
<1> QED BY <1>1, <1>2, <1>3

-----------------------------------------------------------------------------
(* FlattenSeq, which is defined by recursion on the length. *)

LEMMA Associative ==
    ASSUME NEW S, NEW a \in Seq(S), NEW b \in Seq(S), NEW c \in Seq(S)
    PROVE  (a \o b) \o c = a \o (b \o c)
OBVIOUS

(* f[i] is the concatenation of the first i elements of s. *)
Joins(f, s, n) == f[1] = s[1] /\ \A i \in 2..n : f[i] = f[i - 1] \o s[i]

LEMMA JoinsUnique ==
    ASSUME NEW s, NEW n \in Nat, NEW f, NEW g, Joins(f, s, n), Joins(g, s, n)
    PROVE  \A i \in 1..n : f[i] = g[i]
<1> DEFINE T == {i \in Nat : i \in 1..n => f[i] = g[i]}
<1>1. 0 \in T
  OBVIOUS
<1>2. ASSUME NEW i \in Nat, i \in T PROVE i + 1 \in T
  <2> SUFFICES ASSUME i + 1 \in 1..n PROVE f[i + 1] = g[i + 1]
    OBVIOUS
  <2>1. CASE i = 0
    BY <2>1 DEF Joins
  <2>2. CASE i # 0
    <3>1. i \in 1..n /\ i + 1 \in 2..n /\ (i + 1) - 1 = i
      BY <2>2
    <3>2. f[i] = g[i]
      BY <1>2, <3>1
    <3> QED BY <3>1, <3>2 DEF Joins
  <2> QED BY <2>1, <2>2
<1> HIDE DEF T
<1>3. \A i \in Nat : i \in T
  BY <1>1, <1>2, SetInduction
<1> QED BY <1>3 DEF T

LEMMA JoinsExists ==
    ASSUME NEW S, NEW s \in Seq(Seq(S)), s # <<>>
    PROVE  \E f \in [1..Len(s) -> Seq(S)] : Joins(f, s, Len(s))
<1> DEFINE T == {n \in Nat : n \in 1..Len(s) => \E f \in [1..n -> Seq(S)] : Joins(f, s, n)}
<1>0. Len(s) \in Nat /\ Len(s) >= 1 /\ \A i \in 1..Len(s) : s[i] \in Seq(S)
  OBVIOUS
<1>1. 0 \in T
  OBVIOUS
<1>2. ASSUME NEW n \in Nat, n \in T PROVE n + 1 \in T
  <2> SUFFICES ASSUME n + 1 \in 1..Len(s)
               PROVE  \E f \in [1..(n + 1) -> Seq(S)] : Joins(f, s, n + 1)
    OBVIOUS
  <2>1. CASE n = 0
    <3> DEFINE g == [i \in 1..(n + 1) |-> s[1]]
    <3>1. g \in [1..(n + 1) -> Seq(S)]
      BY <1>0
    <3>2. Joins(g, s, n + 1)
      BY <2>1 DEF Joins
    <3> QED BY <3>1, <3>2
  <2>2. CASE n # 0
    <3>1. PICK f \in [1..n -> Seq(S)] : Joins(f, s, n)
      BY <1>0, <1>2, <2>2
    <3> DEFINE last == f[n] \o s[n + 1]
               g == [i \in 1..(n + 1) |-> IF i = n + 1 THEN last ELSE f[i]]
    <3>2. f[n] \in Seq(S) /\ s[n + 1] \in Seq(S)
      BY <1>0, <2>2
    <3>3. last \in Seq(S)
      BY <3>2, ConcatProperties
    <3> HIDE DEF last
    <3>4. g \in [1..(n + 1) -> Seq(S)]
      BY <3>3
    <3>5. g[1] = s[1]
      BY <3>1, <2>2 DEF Joins
    <3>6. ASSUME NEW i \in 2..(n + 1) PROVE g[i] = g[i - 1] \o s[i]
      <4>1. CASE i = n + 1
        <5>1. g[i] = last /\ g[i - 1] = f[n]
          BY <4>1, <2>2
        <5> QED BY <4>1, <5>1 DEF last
      <4>2. CASE i # n + 1
        <5>1. g[i] = f[i] /\ g[i - 1] = f[i - 1] /\ i \in 2..n
          BY <4>2
        <5> QED BY <5>1, <3>1 DEF Joins
      <4> QED BY <4>1, <4>2
    <3> HIDE DEF g
    <3>7. Joins(g, s, n + 1)
      BY <3>5, <3>6 DEF Joins
    <3> QED BY <3>4, <3>7
  <2> QED BY <2>1, <2>2
<1> HIDE DEF T
<1>3. \A n \in Nat : n \in T
  BY <1>1, <1>2, SetInduction
<1> QED BY <1>0, <1>3 DEF T

(* The recursive definition has a solution, and any solution of Joins is it. *)
LEMMA FlattenIsJoin ==
    ASSUME NEW S, NEW s \in Seq(Seq(S)), s # <<>>,
           NEW f, Joins(f, s, Len(s))
    PROVE  FlattenSeq(s) = f[Len(s)]
<1> DEFINE n == Len(s)
           Solves(g) == g = [i \in 1..n |-> IF i = 1 THEN s[i] ELSE g[i - 1] \o s[i]]
           h == CHOOSE g : Solves(g)
<1>0. n \in Nat /\ n # 0
  OBVIOUS
<1>1. FlattenSeq(s) = h[n]
  BY <1>0 DEF FlattenSeq
<1>2. PICK g \in [1..n -> Seq(S)] : Joins(g, s, n)
  BY JoinsExists
<1>3. Solves(g)
  <2>1. ASSUME NEW i \in 1..n PROVE g[i] = IF i = 1 THEN s[i] ELSE g[i - 1] \o s[i]
    <3>1. i # 1 => i \in 2..n
      BY <1>0
    <3> QED BY <1>2, <3>1 DEF Joins
  <2>2. g = [i \in 1..n |-> g[i]]
    BY <1>2
  <2> QED BY <2>1, <2>2, Zenon
<1>4. Solves(h)
  BY <1>3
<1> HIDE DEF h
<1>5. Joins(h, s, n)
  <2>1. \A i \in 1..n : h[i] = IF i = 1 THEN s[i] ELSE h[i - 1] \o s[i]
    BY <1>4, Zenon
  <2>2. 1 \in 1..n /\ \A i \in 2..n : i \in 1..n /\ i # 1
    BY <1>0
  <2> QED BY <2>1, <2>2, Zenon DEF Joins
<1> QED BY <1>0, <1>1, <1>5, JoinsUnique

LEMMA FlattenEmpty == FlattenSeq(<<>>) = <<>>
BY DEF FlattenSeq

LEMMA FlattenType ==
    ASSUME NEW S, NEW s \in Seq(Seq(S))
    PROVE  FlattenSeq(s) \in Seq(S)
<1>1. CASE s = <<>>
  BY <1>1, FlattenEmpty, EmptySeq
<1>2. CASE s # <<>>
  <2>1. PICK f \in [1..Len(s) -> Seq(S)] : Joins(f, s, Len(s))
    BY <1>2, JoinsExists
  <2>2. FlattenSeq(s) = f[Len(s)]
    BY <1>2, <2>1, FlattenIsJoin
  <2>3. Len(s) \in 1..Len(s)
    BY <1>2
  <2> QED BY <2>1, <2>2, <2>3
<1> QED BY <1>1, <1>2

LEMMA FlattenAppend ==
    ASSUME NEW S, NEW s \in Seq(Seq(S)), NEW x \in Seq(S)
    PROVE  FlattenSeq(Append(s, x)) = FlattenSeq(s) \o x
<1> DEFINE t == Append(s, x)
           n == Len(s)
<1>1. /\ t \in Seq(Seq(S)) /\ t # <<>> /\ Len(t) = n + 1 /\ n \in Nat
      /\ t[n + 1] = x /\ \A i \in 1..n : t[i] = s[i]
  BY AppendProperties
<1> HIDE DEF t
<1>2. PICK f \in [1..Len(t) -> Seq(S)] : Joins(f, t, Len(t))
  BY <1>1, JoinsExists
<1>3. FlattenSeq(t) = f[n + 1]
  BY <1>1, <1>2, FlattenIsJoin
<1>4. CASE s = <<>>
  <2>1. f[1] = x
    BY <1>1, <1>2, <1>4 DEF Joins
  <2>2. FlattenSeq(s) \o x = x
    BY <1>4, FlattenEmpty, ConcatEmptySeq
  <2> QED BY <1>1, <1>3, <1>4, <2>1, <2>2 DEF t
<1>5. CASE s # <<>>
  <2>1. n >= 1
    BY <1>5
  <2>2. Joins(f, s, n)
    <3>1. f[1] = s[1]
      BY <1>1, <1>2, <2>1 DEF Joins
    <3>2. ASSUME NEW i \in 2..n PROVE f[i] = f[i - 1] \o s[i]
      <4>1. i \in 2..Len(t) /\ t[i] = s[i]
        BY <1>1
      <4> QED BY <1>2, <4>1 DEF Joins
    <3> HIDE DEF n
    <3> QED BY <3>1, <3>2 DEF Joins
  <2>3. FlattenSeq(s) = f[n]
    BY <1>5, <2>2, FlattenIsJoin
  <2>4. f[n + 1] = f[n] \o x
    <3>1. n + 1 \in 2..Len(t) /\ (n + 1) - 1 = n
      BY <1>1, <2>1
    <3> QED BY <1>1, <1>2, <3>1 DEF Joins
  <2> QED BY <1>3, <2>3, <2>4 DEF t
<1> QED BY <1>4, <1>5

LEMMA FlattenHead ==
    ASSUME NEW S, NEW s \in Seq(Seq(S)), s # <<>>
    PROVE  FlattenSeq(s) = Head(s) \o FlattenSeq(Tail(s))
<1> DEFINE t == Tail(s)
           n == Len(t)
           x == Head(s)
<1> SUFFICES FlattenSeq(s) = x \o FlattenSeq(t)
  OBVIOUS
<1>1. /\ t \in Seq(Seq(S)) /\ n \in Nat /\ Len(s) = n + 1
      /\ x \in Seq(S) /\ x = s[1] /\ \A i \in 1..n : t[i] = s[i + 1]
  BY HeadTailProperties
<1> HIDE DEF t, x
<1>a. \A y, z \in Seq(S) : (x \o y) \o z = x \o (y \o z)
  <2>1. x \in Seq(S)
    BY <1>1
  <2> QED BY <2>1, Associative, SMTT(30)
<1>2. PICK f \in [1..Len(s) -> Seq(S)] : Joins(f, s, Len(s))
  BY JoinsExists
<1>3. FlattenSeq(s) = f[n + 1]
  BY <1>1, <1>2, FlattenIsJoin
<1>4. CASE t = <<>>
  <2>1. f[1] = x
    BY <1>1, <1>2 DEF Joins
  <2>2. x \o FlattenSeq(t) = x
    BY <1>1, <1>4, FlattenEmpty, ConcatEmptySeq
  <2>3. n + 1 = 1
    BY <1>4
  <2> QED BY <1>3, <2>1, <2>2, <2>3
<1>5. CASE t # <<>>
  <2>0. n >= 1
    BY <1>1, <1>5
  <2>1. PICK g \in [1..n -> Seq(S)] : Joins(g, t, n)
    BY <1>1, <1>5, JoinsExists
  <2>2. FlattenSeq(t) = g[n]
    BY <1>1, <1>5, <2>1, FlattenIsJoin
  <2> DEFINE T == {i \in Nat : i \in 1..n => f[i + 1] = x \o g[i]}
  <2>3. 0 \in T
    OBVIOUS
  <2>4. ASSUME NEW i \in Nat, i \in T PROVE i + 1 \in T
    <3> SUFFICES ASSUME i + 1 \in 1..n PROVE f[(i + 1) + 1] = x \o g[i + 1]
      OBVIOUS
    <3>0. f[(i + 1) + 1] = f[i + 1] \o s[(i + 1) + 1]
      <4>1. (i + 1) + 1 \in 2..Len(s) /\ ((i + 1) + 1) - 1 = i + 1
        BY <1>1
      <4> QED BY <1>2, <4>1 DEF Joins
    <3>1. s[(i + 1) + 1] = t[i + 1]
      BY <1>1
    <3>2. CASE i = 0
      <4>1. f[i + 1] = x
        BY <1>1, <1>2, <3>2 DEF Joins
      <4>2. g[i + 1] = t[i + 1]
        BY <2>1, <3>2 DEF Joins
      <4> QED BY <3>0, <3>1, <4>1, <4>2
    <3>3. CASE i # 0
      <4>1. i \in 1..n /\ i + 1 \in 2..n /\ (i + 1) - 1 = i
        BY <3>3
      <4>2. f[i + 1] = x \o g[i]
        BY <2>4, <4>1
      <4>3. g[i + 1] = g[i] \o t[i + 1]
        BY <2>1, <4>1 DEF Joins
      <4> DEFINE y == g[i]
                 z == t[i + 1]
      <4>4. y \in Seq(S)
        BY <2>1, <4>1
      <4>5. z \in Seq(S)
        BY <1>1, <4>1, ElementOfSeq
      <4> HIDE DEF y, z
      <4>6. (x \o y) \o z = x \o (y \o z)
        BY <1>a, <4>4, <4>5
      <4> QED BY <3>0, <3>1, <4>2, <4>3, <4>6 DEF y, z
    <3> QED BY <3>2, <3>3
  <2> HIDE DEF T
  <2>5. \A i \in Nat : i \in T
    BY <2>3, <2>4, SetInduction
  <2>6. f[n + 1] = x \o g[n]
    <3>1. n \in T /\ n \in 1..n
      BY <1>1, <2>0, <2>5
    <3> QED BY <3>1 DEF T
  <2> QED BY <1>3, <2>2, <2>6
<1> QED BY <1>4, <1>5

(* Dropping elements at the end drops an end of the concatenation. *)
LEMMA FlattenPrefix ==
    ASSUME NEW S, NEW s \in Seq(Seq(S)), NEW n \in 0..Len(s)
    PROVE  \E r \in Seq(S) : FlattenSeq(s) = FlattenSeq(SubSeq(s, 1, n)) \o r
<1> DEFINE t(k) == SubSeq(s, 1, k)
           F(k) == FlattenSeq(t(k))
           Extends(k) == \E r \in Seq(S) : F(k) = F(n) \o r
           T == {k \in Nat : n + k <= Len(s) => Extends(n + k)}
<1>0. \A k \in 0..Len(s) : t(k) \in Seq(Seq(S)) /\ Len(t(k)) = k
  OBVIOUS
<1>1. ASSUME NEW k \in Nat, k < Len(s)
      PROVE  F(k + 1) = F(k) \o s[k + 1]
  <2> DEFINE x == s[k + 1]
             u == t(k)
  <2>1. x \in Seq(S) /\ u \in Seq(Seq(S))
    BY <1>0, <1>1
  <2>a. t(k + 1) = Append(u, x)
    <3>1. 1 \in 1..Len(s) /\ k + 1 \in 1..Len(s) /\ (k + 1) - 1 = k
      BY <1>1
    <3>2. t(k + 1) = u \o <<x>>
      BY <3>1, SubSeqRecursiveSecond
    <3> QED BY <2>1, <3>2, AppendIsConcat
  <2> HIDE DEF x, u
  <2>2. FlattenSeq(Append(u, x)) = FlattenSeq(u) \o x
    BY <2>1, FlattenAppend
  <2> QED BY <2>a, <2>2 DEF x, u
<1>2. \A k \in 0..Len(s) : F(k) \in Seq(S)
  BY <1>0, FlattenType
<1>3. t(Len(s)) = s
  BY SubSeqFull
<1> SUFFICES Extends(Len(s))
  BY <1>3
<1> HIDE DEF F
<1>4. 0 \in T
  <2>1. F(n) \in Seq(S) /\ n + 0 = n
    BY <1>2
  <2>2. F(n) = F(n) \o <<>> /\ <<>> \in Seq(S)
    BY <2>1, ConcatEmptySeq, EmptySeq
  <2> QED BY <2>1, <2>2
<1>5. ASSUME NEW k \in Nat, n + (k + 1) <= Len(s),
             Extends(n + k)
      PROVE  Extends(n + (k + 1))
  <2>1. PICK r \in Seq(S) : F(n + k) = F(n) \o r
    BY <1>5
  <2> DEFINE x == s[(n + k) + 1]
             a == F(n)
  <2>2. x \in Seq(S) /\ a \in Seq(S)
    BY <1>2, <1>5
  <2>3. F(n + (k + 1)) = (a \o r) \o x
    <3>1. n + k \in Nat /\ n + k < Len(s) /\ n + (k + 1) = (n + k) + 1
      BY <1>5
    <3>2. F((n + k) + 1) = F(n + k) \o x
      BY <1>1, <3>1
    <3> QED BY <2>1, <3>1, <3>2
  <2> HIDE DEF x, a
  <2>4. (a \o r) \o x = a \o (r \o x)
    BY <2>2, SMTT(30)
  <2>5. r \o x \in Seq(S)
    BY <2>2, ConcatProperties
  <2> QED BY <2>3, <2>4, <2>5 DEF a
<1> HIDE DEF Extends
<1>6. ASSUME NEW k \in Nat, k \in T PROVE k + 1 \in T
  <2>1. n + (k + 1) <= Len(s) => n + k <= Len(s)
    OBVIOUS
  <2> QED BY <1>5, <1>6, <2>1
<1> HIDE DEF T
<1>7. \A k \in Nat : k \in T
  BY <1>4, <1>6, SetInduction
<1> DEFINE d == Len(s) - n
<1>8. d \in Nat /\ n + d = Len(s)
  OBVIOUS
<1> HIDE DEF d
<1>9. n + d <= Len(s) => Extends(n + d)
  BY <1>7, <1>8 DEF T
<1> QED BY <1>8, <1>9

-----------------------------------------------------------------------------
(* The inductive invariant. *)

Byte == 1..MaxBytes

(* Runs of bytes can be joined, in any grouping. *)
LEMMA BytesJoin == \A a, b, c \in Seq(Byte) : (a \o b) \o c = a \o (b \o c)
  BY Associative

LEMMA BytesConcat == \A a, b \in Seq(Byte) : a \o b \in Seq(Byte)
  BY ConcatProperties

Ciphertext == [block : [frame : Seq(Byte), window : {0}], nonce : Nat, key : {"k"}]

TransportInv ==
    /\ sent \in 0..MaxBytes
    /\ chan \in Seq(Seq(Byte)) /\ Len(chan) <= ChanCap
    /\ wire \in Seq(Ciphertext) /\ Len(wire) <= WireCap
    /\ task \in {"recv", "send", "done"} /\ counter \in Nat
    /\ task = "send" => hand \in Ciphertext
    /\ task = "done" => chan = <<>>
    /\ failed => task = "done"

(* The nonces grow along the stream and are all behind the counter. *)
Nonces ==
    /\ \A i \in 1..Len(wire) : wire[i].nonce < counter
    /\ \A i, j \in 1..Len(wire) : i < j => wire[i].nonce < wire[j].nonce
    /\ task = "send" => /\ hand.nonce < counter
                        /\ \A i \in 1..Len(wire) : wire[i].nonce < hand.nonce

WriterInv ==
    /\ rx \in Seq(Seq(Byte)) /\ Len(rx) <= ConnCap
    /\ writer \in {"recv", "write", "flush", "last", "done"}
    /\ data \in Seq(Byte) /\ out \in Seq(Byte)
    /\ buf \in Seq(Byte) /\ Len(buf) <= BufCap
    /\ broke \in BOOLEAN /\ broken \in BOOLEAN
    /\ writer # "write" => data = <<>>
    /\ broke => broken /\ writer \in {"last", "done"}
    /\ writer = "done" /\ ~broken => buf = <<>>
    /\ IdleIsFlushed

RouteInv ==
    /\ reader \in {"run", "route", "ended", "quit"}
    /\ held \in Seq(Byte) /\ sender \in BOOLEAN
    /\ writer \in {"last", "done"} /\ ~broken => ~sender /\ reader # "route" /\ rx = <<>>
    /\ reader = "ended" /\ peerKey = "k" => wire = <<>> /\ task = "done"

(* A reader with another key passes nothing on. *)
KeyInv ==
    peerKey # "k" => reader # "route" /\ rx = <<>> /\ data = <<>> /\ buf = <<>> /\ out = <<>>

(* Nothing of what was accepted is lost so far. *)
Complete ==
    /\ ~failed
    /\ Open \/ (reader = "ended" /\ peerKey = "k" /\ sender /\ ~broken)

StreamInv ==
    \E m \in 0..sent : out \o OnTheWay = FirstBytes(m) /\ (Complete => m = sent)

Shape == TransportInv /\ WriterInv /\ RouteInv

PathInv == Shape /\ Nonces /\ KeyInv /\ StreamInv

LEMMA RunIsBytes ==
    ASSUME NEW a \in Nat, NEW n \in Nat, a + n <= MaxBytes
    PROVE  [i \in 1..n |-> a + i] \in Seq(Byte) /\ Len([i \in 1..n |-> a + i]) = n
<1>1. MaxBytes \in Nat
  BY TransportAssumption
<1>2. \A i \in 1..n : a + i \in Byte
  BY <1>1 DEF Byte
<1> QED BY <1>2

(* What the client's side does to the stream. *)
LEMMA ClientShape ==
    ASSUME TransportInv, Nonces,
           (\E n \in Sizes : Send(n)) \/ DropSenders \/ TaskStep \/ TaskFails
    PROVE  /\ TransportInv' /\ Nonces'
           /\ peerKey' = peerKey
           /\ task = "done" => task' = "done" /\ wire' = wire
<1> USE TransportAssumption
<1>0. TransportInv /\ Nonces
  OBVIOUS
<1>1. ASSUME NEW n \in Sizes, Send(n)
      PROVE  /\ TransportInv' /\ Nonces' /\ peerKey' = peerKey
             /\ task = "done" => task' = "done" /\ wire' = wire
  <2> DEFINE c == [i \in 1..n |-> sent + i]
  <2>1. /\ chan' = Append(chan, c) /\ sent' = sent + n /\ task # "done" /\ Len(chan) < ChanCap
        /\ sent + n <= MaxBytes
        /\ UNCHANGED <<task, hand, failed, counter, wire, peerKey>>
    BY <1>1 DEF Send
  <2>2. n \in Nat /\ sent \in Nat /\ sent + n \in 0..MaxBytes
    BY <1>0, <2>1 DEF TransportInv
  <2>3. c \in Seq(Byte)
    BY <2>1, <2>2, RunIsBytes
  <2> HIDE DEF c
  <2>4. chan' \in Seq(Seq(Byte)) /\ Len(chan') <= ChanCap
    BY <1>0, <2>1, <2>3, AppendProperties DEF TransportInv
  <2>5. TransportInv'
    BY <1>0, <2>1, <2>2, <2>4 DEF TransportInv
  <2> QED BY <1>0, <2>1, <2>5 DEF Nonces
<1>2. CASE DropSenders
  BY <1>0, <1>2 DEF DropSenders, TransportInv, Nonces
<1>3. CASE Encode
  <2> DEFINE h == encode_encrypted(Head(chan))
  <2>1. /\ task = "recv" /\ chan # <<>> /\ hand' = h /\ counter' = counter + 1
        /\ chan' = Tail(chan) /\ task' = "send" /\ UNCHANGED <<sent, failed, wire, peerKey>>
    BY <1>3 DEF Encode, NextCounter
  <2>2. Head(chan) \in Seq(Byte) /\ chan' \in Seq(Seq(Byte)) /\ Len(chan') <= ChanCap
    BY <1>0, <2>1, HeadTailProperties DEF TransportInv
  <2>3. h \in Ciphertext /\ h.nonce = counter
    BY <1>0, <2>2 DEF encode_encrypted, encrypt_in_place_bytes_mut, compress_into_bytes_mut,
                      ResetCompress, Ciphertext, TransportInv
  <2> HIDE DEF h
  <2>4. TransportInv'
    BY <1>0, <2>1, <2>2, <2>3 DEF TransportInv
  <2>5. ASSUME NEW i \in 1..Len(wire) PROVE wire[i].nonce \in Nat
    <3>1. wire[i] \in Ciphertext
      BY <1>0, ElementOfSeq DEF TransportInv
    <3> QED BY <3>1 DEF Ciphertext
  <2>6. Nonces'
    BY <1>0, <2>1, <2>3, <2>5 DEF Nonces, TransportInv
  <2> QED BY <2>1, <2>4, <2>6
<1>4. CASE WriteFrame
  <2>1. /\ task = "send" /\ Len(wire) < WireCap /\ wire' = Append(wire, hand) /\ task' = "recv"
        /\ UNCHANGED <<sent, chan, failed, counter, peerKey>>
    BY <1>4 DEF WriteFrame
  <2>2. /\ wire' \in Seq(Ciphertext) /\ Len(wire') = Len(wire) + 1
        /\ \A i \in 1..Len(wire) : wire'[i] = wire[i]
        /\ wire'[Len(wire) + 1] = hand
    BY <1>0, <2>1, AppendProperties DEF TransportInv
  <2>3. TransportInv'
    BY <1>0, <2>1, <2>2 DEF TransportInv
  <2>4. Nonces'
    BY <1>0, <2>1, <2>2 DEF Nonces, TransportInv
  <2> QED BY <2>1, <2>3, <2>4
<1>5. CASE TaskEnds
  BY <1>0, <1>5 DEF TaskEnds, ChannelDrained, TransportInv, Nonces
<1>6. CASE TaskFails
  <2>1. PICK n \in 0..Len(wire) : wire' = SubSeq(wire, 1, n)
    BY <1>6 DEF TaskFails
  <2>2. /\ task # "done" /\ task' = "done" /\ chan' = <<>>
        /\ UNCHANGED <<sent, counter, peerKey>>
    BY <1>6 DEF TaskFails
  <2>3. /\ wire' \in Seq(Ciphertext) /\ Len(wire') = n
        /\ \A i \in 1..n : wire'[i] = wire[i]
    BY <1>0, <2>1 DEF TransportInv
  <2>4. TransportInv'
    BY <1>0, <2>1, <2>2, <2>3 DEF TransportInv
  <2>5. Nonces'
    <3>1. Len(wire) \in Nat /\ \A i \in 1..n : i \in 1..Len(wire)
      BY <1>0 DEF TransportInv
    <3> QED BY <1>0, <2>2, <2>3, <3>1 DEF Nonces
  <2> QED BY <2>2, <2>4, <2>5
<1> QED BY <1>1, <1>2, <1>3, <1>4, <1>5, <1>6 DEF TaskStep

(* What reading a frame does to it. *)
LEMMA ReadShape ==
    ASSUME TransportInv, Nonces, NextDecodes
    PROVE  /\ TransportInv' /\ Nonces' /\ UNCHANGED <<writeVars, peerKey>>
           /\ peerKey = "k" /\ Head(wire).block.frame \in Seq(Byte)
<1>1. wire # <<>> /\ wire' = Tail(wire) /\ UNCHANGED <<writeVars, peerKey>> /\ Head(wire).key = peerKey
  BY DEF NextDecodes, Decodes, Decrypts
<1>2. /\ Head(wire) \in Ciphertext /\ wire' \in Seq(Ciphertext)
      /\ Len(wire') = Len(wire) - 1 /\ Len(wire) \in Nat
      /\ \A i \in 1..Len(wire') : wire'[i] = wire[i + 1]
  BY <1>1, HeadTailProperties DEF TransportInv
<1>3. TransportInv'
  BY <1>1, <1>2, TransportAssumption DEF TransportInv, writeVars
<1>4. Nonces'
  BY <1>1, <1>2 DEF Nonces, writeVars
<1> QED BY <1>1, <1>2, <1>3, <1>4 DEF Ciphertext

(* What a step of the user's write task does to the task. *)
LEMMA WriterShape ==
    ASSUME WriterInv, NEW alive, PeerResets \/ WriterStep(alive)
    PROVE  WriterInv'
<1> USE ConnWriterAssumption
<1>0. WriterInv
  OBVIOUS
<1>1. CASE PeerResets
  BY <1>0, <1>1 DEF PeerResets, WriterInv, IdleIsFlushed
<1>2. CASE Recv
  <2>1. /\ writer = "recv" /\ rx # <<>> /\ data' = Head(rx) /\ rx' = Tail(rx) /\ writer' = "write"
        /\ UNCHANGED <<buf, broke, broken, out>>
    BY <1>2 DEF Recv
  <2>2. Head(rx) \in Seq(Byte) /\ rx' \in Seq(Seq(Byte)) /\ Len(rx') <= ConnCap
    BY <1>0, <2>1, HeadTailProperties DEF WriterInv
  <2> QED BY <1>0, <2>1, <2>2 DEF WriterInv, IdleIsFlushed
<1>3. CASE WriteToBuffer
  <2>1. /\ writer = "write" /\ Fits /\ buf' = buf \o data /\ data' = <<>>
        /\ writer' = (IF rx = <<>> THEN "flush" ELSE "recv")
        /\ UNCHANGED <<rx, broke, broken, out>>
    BY <1>3 DEF WriteToBuffer, AfterWrite
  <2>2. buf' \in Seq(Byte) /\ Len(buf') = Len(buf) + Len(data)
    BY <1>0, <2>1, ConcatProperties DEF WriterInv
  <2>3. data' \in Seq(Byte)
    BY <2>1, EmptySeq
  <2> QED BY <1>0, <2>1, <2>2, <2>3 DEF WriterInv, IdleIsFlushed, Fits
<1>4. CASE WriteToSocket
  <2>1. PICK n \in 1..Len(data) :
           /\ out' = out \o SubSeq(data, 1, n)
           /\ data' = SubSeq(data, n + 1, Len(data))
           /\ writer' = AfterWrite(SubSeq(data, n + 1, Len(data)))
    BY <1>4 DEF WriteToSocket
  <2>2. writer = "write" /\ buf = <<>> /\ UNCHANGED <<rx, buf, broke, broken>>
    BY <1>4 DEF WriteToSocket, GoesThrough
  <2>3. SubSeq(data, 1, n) \in Seq(Byte) /\ data' \in Seq(Byte)
    BY <1>0, <2>1, SMTT(30) DEF WriterInv
  <2>4. out' \in Seq(Byte)
    BY <1>0, <2>1, <2>3, ConcatProperties DEF WriterInv
  <2>5. /\ writer' \in {"write", "flush", "recv"}
        /\ writer' # "write" => data' = <<>>
    BY <2>1 DEF AfterWrite
  <2> QED BY <1>0, <2>2, <2>3, <2>4, <2>5 DEF WriterInv, IdleIsFlushed
<1>5. CASE DrainBuffer
  <2>1. PICK n \in 1..Len(buf) :
           out' = out \o SubSeq(buf, 1, n) /\ buf' = SubSeq(buf, n + 1, Len(buf))
    BY <1>5 DEF DrainBuffer
  <2>2. /\ writer \in {"write", "flush", "last"}
        /\ UNCHANGED <<rx, writer, data, broke, broken>>
    BY <1>5 DEF DrainBuffer
  <2>3. SubSeq(buf, 1, n) \in Seq(Byte) /\ buf' \in Seq(Byte) /\ Len(buf') <= BufCap
    BY <1>0, <2>1 DEF WriterInv
  <2>4. out' \in Seq(Byte)
    BY <1>0, <2>1, <2>3, ConcatProperties DEF WriterInv
  <2> QED BY <1>0, <2>2, <2>3, <2>4 DEF WriterInv, IdleIsFlushed
<1>6. CASE FlushReturns
  BY <1>0, <1>6 DEF FlushReturns, WriterInv, IdleIsFlushed
<1>7. CASE WriteFails
  <2>1. data' \in Seq(Byte)
    BY <1>7, EmptySeq DEF WriteFails
  <2> QED BY <1>0, <1>7, <2>1 DEF WriteFails, WriterInv, IdleIsFlushed
<1>8. CASE RecvNone(alive)
  BY <1>0, <1>8 DEF RecvNone, WriterInv, IdleIsFlushed
<1>9. CASE WriterEnds
  BY <1>0, <1>9 DEF WriterEnds, WriterInv, IdleIsFlushed
<1> QED BY <1>1, <1>2, <1>3, <1>4, <1>5, <1>6, <1>7, <1>8, <1>9 DEF WriterStep

LEMMA ConnSendShape ==
    ASSUME WriterInv, NEW c \in Seq(Byte), ConnSend(c)
    PROVE  WriterInv'
<1>1. /\ writer # "done" /\ Len(rx) < ConnCap /\ rx' = Append(rx, c)
      /\ UNCHANGED <<writer, data, buf, broke, broken, out>>
  BY DEF ConnSend
<1>2. rx' \in Seq(Seq(Byte)) /\ Len(rx') <= ConnCap /\ rx' # <<>>
  <2>1. rx \in Seq(Seq(Byte)) /\ Len(rx) \in Nat /\ ConnCap \in Nat
    BY ConnWriterAssumption DEF WriterInv
  <2>2. rx' \in Seq(Seq(Byte)) /\ rx' # <<>> /\ Len(rx') = Len(rx) + 1
    BY <1>1, <2>1, AppendProperties
  <2> QED BY <1>1, <2>1, <2>2
<1> QED BY <1>1, <1>2 DEF WriterInv, IdleIsFlushed

(* Each kind of step keeps Shape, the nonces apart and another reader out. *)
LEMMA ClientKeeps ==
    ASSUME Shape, Nonces, KeyInv, ClientSide
    PROVE  Shape' /\ Nonces' /\ KeyInv'
<1>1. UNCHANGED <<writerVars, reader, held, sender>>
  BY DEF ClientSide
<1>2. /\ TransportInv' /\ Nonces' /\ peerKey' = peerKey
      /\ task = "done" => task' = "done" /\ wire' = wire
  BY ClientShape DEF ClientSide, Shape
<1>3. WriterInv'
  BY <1>1 DEF Shape, WriterInv, writerVars, IdleIsFlushed
<1>4. RouteInv' /\ KeyInv'
  BY <1>1, <1>2 DEF Shape, RouteInv, KeyInv, writerVars
<1> QED BY <1>2, <1>3, <1>4 DEF Shape

LEMMA UserKeeps ==
    ASSUME Shape, Nonces, KeyInv, UserSide
    PROVE  Shape' /\ Nonces' /\ KeyInv'
<1>1. UNCHANGED <<transportVars, reader, held, sender>>
  BY DEF UserSide
<1>2. TransportInv' /\ Nonces'
  BY <1>1 DEF Shape, TransportInv, Nonces, transportVars, writeVars
<1>3. WriterInv'
  BY WriterShape DEF UserSide, Shape
<1>4. WriterInv /\ RouteInv
  BY DEF Shape
<1>5. RouteInv' /\ KeyInv'
  <2> USE <1>1, <1>4 DEF transportVars, writeVars, RouteInv, KeyInv
  <2>1. CASE PeerResets
    BY <2>1 DEF PeerResets
  <2>2. CASE Recv
    BY <2>2 DEF Recv
  <2>3. CASE WriteToBuffer
    <3>1. /\ writer = "write" /\ writer' \in {"flush", "recv"} /\ data' = <<>> /\ buf' = buf \o data
          /\ UNCHANGED <<rx, broke, broken, out>>
      BY <2>3 DEF WriteToBuffer, AfterWrite
    <3>2. <<>> \o <<>> = <<>>
      OBVIOUS
    <3> QED BY <3>1, <3>2
  <2>4. CASE WriteToSocket
    <3>1. PICK n \in 1..Len(data) : writer' = AfterWrite(SubSeq(data, n + 1, Len(data)))
      BY <2>4 DEF WriteToSocket
    <3>2. /\ writer = "write" /\ writer' \in {"write", "flush", "recv"} /\ data # <<>>
          /\ UNCHANGED <<rx, broke, broken>>
      BY <2>4, <3>1 DEF WriteToSocket, AfterWrite
    <3> QED BY <3>2
  <2>5. CASE DrainBuffer
    BY <2>5 DEF DrainBuffer
  <2>6. CASE FlushReturns
    BY <2>6 DEF FlushReturns
  <2>7. CASE WriteFails
    BY <2>7 DEF WriteFails
  <2>8. CASE RecvNone(SenderLives)
    BY <2>8 DEF RecvNone, SenderLives
  <2>9. CASE WriterEnds
    BY <2>9 DEF WriterEnds
  <2> QED BY <2>1, <2>2, <2>3, <2>4, <2>5, <2>6, <2>7, <2>8, <2>9 DEF UserSide, WriterStep
<1> QED BY <1>2, <1>3, <1>5 DEF Shape

LEMMA ReaderKeeps ==
    ASSUME Shape, Nonces, KeyInv, ReaderStep \/ ReaderQuits \/ DropSender
    PROVE  Shape' /\ Nonces' /\ KeyInv'
<1>0. TransportInv /\ WriterInv /\ RouteInv /\ Nonces /\ KeyInv
  BY DEF Shape
<1>1. CASE Read
  <2>1. /\ TransportInv' /\ Nonces' /\ UNCHANGED <<writeVars, peerKey>>
        /\ peerKey = "k" /\ Head(wire).block.frame \in Seq(Byte)
    BY <1>0, <1>1, ReadShape DEF Read
  <2>2. UNCHANGED <<writerVars, sender>> /\ reader = "run" /\ wire # <<>>
    BY <1>1 DEF Read, NextDecodes
  <2>3. WriterInv'
    BY <1>0, <2>2 DEF WriterInv, writerVars, IdleIsFlushed
  <2>4. \/ sender /\ reader' = "route" /\ held' = Head(wire).block.frame
        \/ reader' = "run" /\ held' = held
    BY <1>1, <2>2 DEF Read
  <2>5. RouteInv' /\ KeyInv'
    BY <1>0, <2>1, <2>2, <2>4 DEF RouteInv, KeyInv, writerVars
  <2> QED BY <2>1, <2>3, <2>5 DEF Shape
<1>2. CASE Route
  <2>1. /\ reader = "route" /\ ConnSend(held) /\ reader' = "run" /\ held' = <<>>
        /\ UNCHANGED <<transportVars, sender>>
    BY <1>2 DEF Route
  <2>2. TransportInv' /\ Nonces'
    BY <1>0, <2>1 DEF TransportInv, Nonces, transportVars, writeVars
  <2>3. WriterInv'
    BY <1>0, <2>1, ConnSendShape DEF RouteInv
  <2>4. writer # "done" /\ UNCHANGED <<writer, data, buf, broke, broken, out>>
    BY <2>1 DEF ConnSend
  <2>5. held' \in Seq(Byte)
    BY <2>1, EmptySeq
  <2>6. RouteInv' /\ KeyInv'
    BY <1>0, <2>1, <2>4, <2>5 DEF RouteInv, KeyInv, transportVars, writeVars
  <2> QED BY <2>2, <2>3, <2>6 DEF Shape
<1>3. CASE RouteError \/ ReadEnds \/ ReaderQuits \/ DropSender
  <2>1. UNCHANGED <<transportVars, writerVars>>
    BY <1>3 DEF RouteError, ReadEnds, ReaderQuits, DropSender
  <2>2. TransportInv' /\ Nonces' /\ WriterInv'
    BY <1>0, <2>1 DEF TransportInv, Nonces, WriterInv, IdleIsFlushed,
                      transportVars, writeVars, writerVars
  <2>3. RouteInv' /\ KeyInv'
    <3> USE <1>0, <2>1 DEF RouteInv, KeyInv, transportVars, writeVars, writerVars
    <3>1. CASE RouteError
      <4>1. held' \in Seq(Byte)
        BY <3>1, EmptySeq DEF RouteError
      <4> QED BY <3>1, <4>1 DEF RouteError
    <3>2. CASE ReadEnds
      <4>1. peerKey = "k" => wire = <<>> /\ task = "done"
        <5>1. wire # <<>> => Head(wire) \in Ciphertext
          BY HeadTailProperties DEF TransportInv
        <5> QED BY <3>2, <5>1 DEF ReadEnds, NextFails, Decodes, Decrypts, Ciphertext
      <4> QED BY <3>2, <4>1 DEF ReadEnds
    <3>3. CASE ReaderQuits
      BY <3>3 DEF ReaderQuits
    <3>4. CASE DropSender
      <4>1. sender' = FALSE /\ sender' \in BOOLEAN /\ UNCHANGED <<reader, held>>
        BY <3>4 DEF DropSender
      <4>2. RouteInv'
        BY <4>1
      <4>3. KeyInv'
        BY <4>1
      <4> QED BY <4>2, <4>3
    <3> QED BY <1>3, <3>1, <3>2, <3>3, <3>4
  <2> QED BY <2>2, <2>3 DEF Shape
<1> QED BY <1>1, <1>2, <1>3 DEF ReaderStep

-----------------------------------------------------------------------------
(* Where the bytes are. *)

FramesOf(w) == [i \in DOMAIN w |-> w[i].block.frame]

LEMMA FramesType ==
    ASSUME NEW w \in Seq(Ciphertext)
    PROVE  /\ FramesOf(w) \in Seq(Seq(Byte)) /\ Len(FramesOf(w)) = Len(w)
           /\ \A i \in 1..Len(w) : FramesOf(w)[i] = w[i].block.frame
<1>1. DOMAIN w = 1..Len(w) /\ Len(w) \in Nat
  OBVIOUS
<1>2. ASSUME NEW i \in 1..Len(w) PROVE w[i].block.frame \in Seq(Byte)
  <2>1. w[i] \in Ciphertext
    BY ElementOfSeq
  <2> QED BY <2>1 DEF Ciphertext
<1> QED BY <1>1, <1>2 DEF FramesOf

LEMMA FramesAppend ==
    ASSUME NEW w \in Seq(Ciphertext), NEW c \in Ciphertext
    PROVE  FramesOf(Append(w, c)) = Append(FramesOf(w), c.block.frame)
<1> DEFINE l == FramesOf(Append(w, c))
           r == Append(FramesOf(w), c.block.frame)
           n == Len(w)
<1>1. c.block.frame \in Seq(Byte)
  BY DEF Ciphertext
<1>2. /\ Append(w, c) \in Seq(Ciphertext) /\ Len(Append(w, c)) = n + 1 /\ n \in Nat
      /\ Append(w, c)[n + 1] = c /\ \A i \in 1..n : Append(w, c)[i] = w[i]
  BY AppendProperties
<1>3. l \in Seq(Seq(Byte)) /\ Len(l) = n + 1 /\ \A i \in 1..(n + 1) : l[i] = Append(w, c)[i].block.frame
  BY <1>2, FramesType
<1>4. /\ FramesOf(w) \in Seq(Seq(Byte)) /\ Len(FramesOf(w)) = n
      /\ \A i \in 1..n : FramesOf(w)[i] = w[i].block.frame
  BY FramesType
<1>5. /\ r \in Seq(Seq(Byte)) /\ Len(r) = n + 1 /\ r[n + 1] = c.block.frame
      /\ \A i \in 1..n : r[i] = w[i].block.frame
  BY <1>1, <1>4, AppendProperties
<1> HIDE DEF l, r, n
<1>6. ASSUME NEW i \in 1..(n + 1) PROVE l[i] = r[i]
  <2>1. i = n + 1 \/ i \in 1..n
    BY <1>2
  <2> QED BY <1>2, <1>3, <1>5, <2>1
<1>7. l = r
  BY <1>3, <1>5, <1>6, SeqEqual
<1> QED BY <1>7 DEF l, r

LEMMA FramesTail ==
    ASSUME NEW w \in Seq(Ciphertext), w # <<>>
    PROVE  /\ FramesOf(Tail(w)) = Tail(FramesOf(w)) /\ FramesOf(w) # <<>>
           /\ Head(FramesOf(w)) = Head(w).block.frame
<1> DEFINE f == FramesOf(w)
           l == FramesOf(Tail(w))
           r == Tail(f)
           n == Len(w) - 1
<1>1. n \in Nat /\ Len(w) = n + 1 /\ Head(w) = w[1]
  OBVIOUS
<1>2. Tail(w) \in Seq(Ciphertext) /\ Len(Tail(w)) = n /\ \A i \in 1..n : Tail(w)[i] = w[i + 1]
  BY HeadTailProperties
<1>3. l \in Seq(Seq(Byte)) /\ Len(l) = n /\ \A i \in 1..n : l[i] = Tail(w)[i].block.frame
  BY <1>2, FramesType
<1>4. /\ f \in Seq(Seq(Byte)) /\ Len(f) = n + 1
      /\ \A i \in 1..(n + 1) : f[i] = w[i].block.frame
  BY <1>1, FramesType
<1> HIDE DEF f, n
<1>5. f # <<>> /\ Head(f) = f[1]
  BY <1>1, <1>4
<1>6. r \in Seq(Seq(Byte)) /\ Len(r) = n /\ \A i \in 1..n : r[i] = f[i + 1]
  BY <1>1, <1>4, <1>5, HeadTailProperties
<1> HIDE DEF l, r
<1>7. ASSUME NEW i \in 1..n PROVE l[i] = r[i]
  <2>1. i + 1 \in 1..(n + 1)
    BY <1>1
  <2> QED BY <1>2, <1>3, <1>4, <1>6, <2>1
<1>8. l = r
  BY <1>3, <1>6, <1>7, SeqEqual
<1>9. Head(f) = Head(w).block.frame
  BY <1>1, <1>4, <1>5
<1> QED BY <1>5, <1>8, <1>9 DEF l, r, f

LEMMA FramesPrefix ==
    ASSUME NEW w \in Seq(Ciphertext), NEW n \in 0..Len(w)
    PROVE  FramesOf(SubSeq(w, 1, n)) = SubSeq(FramesOf(w), 1, n)
<1> DEFINE f == FramesOf(w)
           v == SubSeq(w, 1, n)
           l == FramesOf(v)
           r == SubSeq(f, 1, n)
<1>1. v \in Seq(Ciphertext) /\ Len(v) = n /\ n \in Nat /\ \A i \in 1..n : v[i] = w[i]
  OBVIOUS
<1>2. f \in Seq(Seq(Byte)) /\ Len(f) = Len(w) /\ \A i \in 1..Len(w) : f[i] = w[i].block.frame
  BY FramesType
<1> HIDE DEF v, f
<1>3. l \in Seq(Seq(Byte)) /\ Len(l) = n /\ \A i \in 1..n : l[i] = v[i].block.frame
  BY <1>1, FramesType
<1>4. r \in Seq(Seq(Byte)) /\ Len(r) = n /\ \A i \in 1..n : r[i] = f[i]
  BY <1>1, <1>2
<1> HIDE DEF l, r
<1>5. ASSUME NEW i \in 1..n PROVE l[i] = r[i]
  <2>1. i \in 1..Len(w)
    OBVIOUS
  <2> QED BY <1>1, <1>2, <1>3, <1>4, <2>1
<1>6. l = r
  BY <1>3, <1>4, <1>5, SeqEqual
<1> QED BY <1>6 DEF l, r, f, v

(* The three stretches of Travelling: stream, hand and channel. *)
InWire == FlattenSeq(FramesOf(wire))
InHand == IF task = "send" THEN hand.block.frame ELSE <<>>
InChan == FlattenSeq(chan)

LEMMA TravellingParts ==
    TransportInv => /\ InWire \in Seq(Byte) /\ InHand \in Seq(Byte) /\ InChan \in Seq(Byte)
                    /\ Travelling = InWire \o InHand \o InChan
                    /\ Travelling \in Seq(Byte)
<1> SUFFICES ASSUME TransportInv
             PROVE  /\ InWire \in Seq(Byte) /\ InHand \in Seq(Byte) /\ InChan \in Seq(Byte)
                    /\ Travelling = InWire \o InHand \o InChan
                    /\ Travelling \in Seq(Byte)
  OBVIOUS
<1>1. InWire \in Seq(Byte)
  <2>1. FramesOf(wire) \in Seq(Seq(Byte))
    BY FramesType DEF TransportInv
  <2> QED BY <2>1, FlattenType DEF InWire
<1>2. InHand \in Seq(Byte)
  BY EmptySeq DEF TransportInv, InHand, Ciphertext
<1>3. InChan \in Seq(Byte)
  BY FlattenType DEF TransportInv, InChan
<1>4. Travelling = InWire \o InHand \o InChan
  BY DEF Travelling, InWire, InHand, InChan, FramesOf
<1>5. InWire \o InHand \in Seq(Byte)
  BY <1>1, <1>2, ConcatProperties
<1>6. Travelling \in Seq(Byte)
  BY <1>3, <1>4, <1>5, ConcatProperties
<1> QED BY <1>1, <1>2, <1>3, <1>4, <1>6

(* A chunk is accepted at the end. *)
LEMMA TravelSend ==
    ASSUME TransportInv, TransportInv', NEW n \in Sizes, Send(n)
    PROVE  Travelling' = Travelling \o [i \in 1..n |-> sent + i]
<1> DEFINE c == [i \in 1..n |-> sent + i]
           a == InWire \o InHand
           b == InChan
<1>1. /\ chan' = Append(chan, c) /\ UNCHANGED <<task, hand, wire>>
      /\ n \in Nat /\ sent \in Nat /\ sent + n <= MaxBytes
  BY TransportAssumption DEF Send, TransportInv
<1>2. c \in Seq(Byte)
  BY <1>1, RunIsBytes
<1> HIDE DEF c
<1>3. InWire' = InWire /\ InHand' = InHand
  BY <1>1 DEF InWire, InHand
<1>4. InChan' = b \o c
  BY <1>1, <1>2, FlattenAppend DEF TransportInv, InChan
<1>5. a \in Seq(Byte) /\ b \in Seq(Byte) /\ Travelling = a \o b
  BY TravellingParts, ConcatProperties
<1>6. Travelling' = InWire' \o InHand' \o InChan'
  <2>1. (TransportInv => Travelling = InWire \o InHand \o InChan)'
    BY TravellingParts, PTL
  <2> QED BY <2>1
<1>7. Travelling' = a \o (b \o c)
  BY <1>3, <1>4, <1>6
<1> HIDE DEF a, b
<1>8. (a \o b) \o c = a \o (b \o c)
  BY <1>2, <1>5, BytesJoin, ZenonT(60)
<1> QED BY <1>5, <1>7, <1>8 DEF c

(* The write task moves bytes on without changing their order. *)
LEMMA TravelTask ==
    ASSUME TransportInv, TransportInv', TaskStep \/ DropSenders
    PROVE  Travelling' = Travelling
<1>0. Travelling' = InWire' \o InHand' \o InChan'
  <2>1. (TransportInv => Travelling = InWire \o InHand \o InChan)'
    BY TravellingParts, PTL
  <2> QED BY <2>1
<1>1. /\ InWire \in Seq(Byte) /\ InHand \in Seq(Byte) /\ InChan \in Seq(Byte)
      /\ Travelling = InWire \o InHand \o InChan
  BY TravellingParts
<1>2. CASE Encode
  <2> DEFINE h == Head(chan)
             w == InWire
             c == FlattenSeq(Tail(chan))
  <2>1. /\ task = "recv" /\ task' = "send" /\ chan # <<>> /\ chan' = Tail(chan) /\ wire' = wire
        /\ hand'.block.frame = h
    BY <1>2 DEF Encode, encode_encrypted, encrypt_in_place_bytes_mut, compress_into_bytes_mut
  <2>2. h \in Seq(Byte) /\ Tail(chan) \in Seq(Seq(Byte))
    BY <2>1, HeadTailProperties DEF TransportInv
  <2>3. c \in Seq(Byte)
    BY <2>2, FlattenType
  <2>4. InChan = h \o c
    BY <2>1, FlattenHead DEF InChan, TransportInv
  <2>5. InHand = <<>> /\ InHand' = h /\ InWire' = w /\ InChan' = c
    BY <2>1 DEF InHand, InWire, InChan
  <2>6. Travelling = w \o (h \o c)
    BY <1>1, <2>4, <2>5, ConcatEmptySeq
  <2>7. Travelling' = (w \o h) \o c
    BY <1>0, <2>5
  <2> HIDE DEF h, w, c
  <2>8. w \in Seq(Byte)
    BY <1>1 DEF w
  <2>9. (w \o h) \o c = w \o (h \o c)
    BY <2>2, <2>3, <2>8, BytesJoin, ZenonT(60)
  <2> QED BY <2>6, <2>7, <2>9
<1>3. CASE WriteFrame
  <2> DEFINE h == hand.block.frame
             w == InWire
             c == InChan
  <2>1. /\ task = "send" /\ task' = "recv" /\ wire' = Append(wire, hand) /\ chan' = chan
    BY <1>3 DEF WriteFrame
  <2>2. wire \in Seq(Ciphertext) /\ hand \in Ciphertext /\ h \in Seq(Byte)
    BY <2>1 DEF TransportInv, Ciphertext
  <2>3. FramesOf(wire) \in Seq(Seq(Byte)) /\ FramesOf(wire') = Append(FramesOf(wire), h)
    BY <2>1, <2>2, FramesType, FramesAppend
  <2>4. InWire' = w \o h
    BY <2>2, <2>3, FlattenAppend DEF InWire
  <2>5. InHand = h /\ InHand' = <<>> /\ InChan' = c
    BY <2>1 DEF InHand, InChan
  <2>6. w \o h \in Seq(Byte)
    BY <1>1, <2>2, ConcatProperties
  <2>7. Travelling' = (w \o h) \o <<>> \o c
    BY <1>0, <2>4, <2>5
  <2>8. (w \o h) \o <<>> = w \o h
    BY <2>6, ConcatEmptySeq
  <2> QED BY <1>1, <2>5, <2>7, <2>8
<1>4. CASE TaskEnds \/ DropSenders
  <2>1. InWire' = InWire /\ InChan' = InChan /\ InHand' = InHand
    BY <1>4 DEF TaskEnds, DropSenders, InWire, InHand, InChan
  <2> QED BY <1>0, <1>1, <2>1
<1> QED BY <1>2, <1>3, <1>4 DEF TaskStep

(* A write error loses an end of what travels. *)
LEMMA TravelFails ==
    ASSUME TransportInv, TransportInv', TaskFails
    PROVE  \E r \in Seq(Byte) : Travelling = Travelling' \o r
<1>0. /\ InWire' \in Seq(Byte) /\ InHand' = <<>> /\ InChan' = <<>>
      /\ Travelling' = InWire' \o InHand' \o InChan'
  <2>1. (TransportInv => InWire \in Seq(Byte) /\ Travelling = InWire \o InHand \o InChan)'
    BY TravellingParts, PTL
  <2>2. task' = "done" /\ chan' = <<>>
    BY DEF TaskFails
  <2> QED BY <2>1, <2>2, FlattenEmpty DEF InHand, InChan
<1>1. /\ InWire \in Seq(Byte) /\ InHand \in Seq(Byte) /\ InChan \in Seq(Byte)
      /\ Travelling = InWire \o InHand \o InChan
  BY TravellingParts
<1>2. PICK n \in 0..Len(wire) : wire' = SubSeq(wire, 1, n)
  BY DEF TaskFails
<1>3. PICK r \in Seq(Byte) : InWire = InWire' \o r
  <2>1. /\ FramesOf(wire) \in Seq(Seq(Byte)) /\ Len(FramesOf(wire)) = Len(wire)
        /\ FramesOf(wire') = SubSeq(FramesOf(wire), 1, n)
    BY <1>2, FramesType, FramesPrefix DEF TransportInv
  <2> DEFINE fs == FramesOf(wire)
  <2> HIDE DEF fs
  <2>2. fs \in Seq(Seq(Byte)) /\ n \in 0..Len(fs) /\ InWire = FlattenSeq(fs)
        /\ InWire' = FlattenSeq(SubSeq(fs, 1, n))
    BY <2>1 DEF InWire, fs
  <2>3. \E r \in Seq(Byte) : FlattenSeq(fs) = FlattenSeq(SubSeq(fs, 1, n)) \o r
    BY <2>2, FlattenPrefix
  <2> QED BY <2>2, <2>3
<1> DEFINE w == InWire'
           h == InHand
           c == InChan
<1>4. w \in Seq(Byte) /\ h \in Seq(Byte) /\ c \in Seq(Byte)
  BY <1>0, <1>1
<1>5. Travelling' = w
  BY <1>0, ConcatEmptySeq
<1>6. Travelling = ((w \o r) \o h) \o c
  BY <1>1, <1>3
<1> HIDE DEF w, h, c
<1> DEFINE x == r \o h
<1>7. r \in Seq(Byte) /\ x \in Seq(Byte)
  BY <1>3, <1>4, BytesConcat
<1>8. (w \o r) \o h = w \o x
  BY <1>4, <1>7, BytesJoin, ZenonT(60)
<1> HIDE DEF x
<1>9. (w \o x) \o c = w \o (x \o c)
  BY <1>4, <1>7, BytesJoin, ZenonT(60)
<1>10. x \o c \in Seq(Byte)
  BY <1>4, <1>7, BytesConcat
<1> QED BY <1>5, <1>6, <1>8, <1>9, <1>10

(* The oldest frame is read. *)
LEMMA TravelRead ==
    ASSUME TransportInv, TransportInv', NextDecodes
    PROVE  Travelling = Head(wire).block.frame \o Travelling'
<1>0. /\ InWire' \in Seq(Byte) /\ Travelling' = InWire' \o InHand' \o InChan'
  <2>1. (TransportInv => InWire \in Seq(Byte) /\ Travelling = InWire \o InHand \o InChan)'
    BY TravellingParts, PTL
  <2> QED BY <2>1
<1>1. /\ InWire \in Seq(Byte) /\ InHand \in Seq(Byte) /\ InChan \in Seq(Byte)
      /\ Travelling = InWire \o InHand \o InChan
  BY TravellingParts
<1>2. wire # <<>> /\ wire' = Tail(wire) /\ UNCHANGED writeVars
  BY DEF NextDecodes
<1> DEFINE f == Head(wire).block.frame
           w == InWire'
           h == InHand
           c == InChan
<1>3. InHand' = h /\ InChan' = c
  BY <1>2 DEF InHand, InChan, writeVars
<1>4. InWire = f \o w /\ f \in Seq(Byte)
  <2>1. /\ FramesOf(wire) \in Seq(Seq(Byte)) /\ FramesOf(wire) # <<>>
        /\ Head(FramesOf(wire)) = f /\ Tail(FramesOf(wire)) = FramesOf(wire')
    BY <1>2, FramesType, FramesTail DEF TransportInv
  <2>2. f \in Seq(Byte)
    BY <2>1, HeadTailProperties
  <2> QED BY <2>1, <2>2, FlattenHead DEF InWire
<1>5. w \in Seq(Byte) /\ h \in Seq(Byte) /\ c \in Seq(Byte)
  BY <1>0, <1>1
<1>6. Travelling = ((f \o w) \o h) \o c /\ Travelling' = (w \o h) \o c
  BY <1>0, <1>1, <1>3, <1>4
<1> SUFFICES Travelling = f \o Travelling'
  OBVIOUS
<1> HIDE DEF f, w, h, c
<1> DEFINE wh == w \o h
<1>7. (f \o w) \o h = f \o wh
  BY <1>4, <1>5, BytesJoin, ZenonT(60)
<1>8. f \in Seq(Byte) /\ wh \in Seq(Byte) /\ c \in Seq(Byte)
  BY <1>4, <1>5, BytesConcat
<1>9. Travelling = (f \o wh) \o c /\ Travelling' = wh \o c
  BY <1>6, <1>7
<1> HIDE DEF wh
<1>10. (f \o wh) \o c = f \o (wh \o c)
  BY <1>8, BytesJoin, ZenonT(60)
<1> QED BY <1>9, <1>10

LEMMA SplitAt ==
    ASSUME NEW S, NEW s \in Seq(S), NEW n \in 1..Len(s)
    PROVE  /\ SubSeq(s, 1, n) \in Seq(S) /\ SubSeq(s, n + 1, Len(s)) \in Seq(S)
           /\ SubSeq(s, 1, n) # <<>>
           /\ s = SubSeq(s, 1, n) \o SubSeq(s, n + 1, Len(s))
<1>1. SubSeq(s, 1, n) \in Seq(S) /\ SubSeq(s, n + 1, Len(s)) \in Seq(S) /\ SubSeq(s, 1, n) # <<>>
  OBVIOUS
<1>2. SubSeq(s, 1, n) \o SubSeq(s, n + 1, Len(s)) = SubSeq(s, 1, Len(s))
  <2>1. 1 \in 1..(Len(s) + 1) /\ n \in (1 - 1)..Len(s) /\ Len(s) \in n..Len(s)
    OBVIOUS
  <2> QED BY <2>1, ConcatAdjacentSubSeq
<1> QED BY <1>1, <1>2, SubSeqFull

LEMMA PendingType == WriterInv => Pending \in Seq(Byte) /\ FlattenSeq(rx) \in Seq(Byte)
<1> SUFFICES ASSUME WriterInv PROVE Pending \in Seq(Byte) /\ FlattenSeq(rx) \in Seq(Byte)
  OBVIOUS
<1>1. FlattenSeq(rx) \in Seq(Byte)
  BY FlattenType DEF WriterInv
<1>2. buf \o data \in Seq(Byte) /\ buf \in Seq(Byte) /\ <<>> \in Seq(Byte)
  BY ConcatProperties, EmptySeq DEF WriterInv
<1>3. (buf \o data) \o FlattenSeq(rx) \in Seq(Byte)
  BY <1>1, <1>2, ConcatProperties
<1> QED BY <1>1, <1>2, <1>3 DEF Pending

(* Most steps of the write task only move bytes. *)
LEMMA PendingSame ==
    ASSUME WriterInv, NEW alive,
           PeerResets \/ Recv \/ WriteToBuffer \/ FlushReturns \/ RecvNone(alive)
    PROVE  /\ out' = out /\ Pending' = Pending /\ broke' = broke
           /\ (writer' = "done") <=> (writer = "done")
<1> DEFINE R == FlattenSeq(rx)
<1>0. R \in Seq(Byte) /\ buf \in Seq(Byte) /\ data \in Seq(Byte)
  BY PendingType DEF WriterInv
<1>1. CASE PeerResets \/ FlushReturns \/ RecvNone(alive)
  BY <1>1 DEF PeerResets, FlushReturns, RecvNone, Pending
<1>2. CASE Recv
  <2>1. /\ writer = "recv" /\ rx # <<>> /\ data' = Head(rx) /\ rx' = Tail(rx) /\ writer' = "write"
        /\ UNCHANGED <<buf, broke, broken, out>>
    BY <1>2 DEF Recv
  <2> DEFINE h == Head(rx)
             c == FlattenSeq(Tail(rx))
  <2>2. h \in Seq(Byte) /\ Tail(rx) \in Seq(Seq(Byte))
    BY <2>1, HeadTailProperties DEF WriterInv
  <2>3. c \in Seq(Byte) /\ R = h \o c
    BY <2>1, <2>2, FlattenType, FlattenHead DEF WriterInv
  <2>4. ~broke /\ data = <<>>
    BY <2>1 DEF WriterInv
  <2>5. Pending = buf \o (h \o c)
    BY <1>0, <2>1, <2>3, <2>4, ConcatEmptySeq DEF Pending
  <2>6. Pending' = (buf \o h) \o c
    BY <2>1, <2>4 DEF Pending
  <2> HIDE DEF h, c, R
  <2>7. (buf \o h) \o c = buf \o (h \o c)
    <3>1. buf \in Seq(Byte) /\ h \in Seq(Byte) /\ c \in Seq(Byte)
      BY <1>0, <2>2, <2>3
    <3> QED BY <3>1, BytesJoin, ZenonT(60)
  <2> QED BY <2>1, <2>5, <2>6, <2>7
<1>3. CASE WriteToBuffer
  <2>1. /\ writer = "write" /\ buf' = buf \o data /\ data' = <<>>
        /\ writer' \in {"flush", "recv"} /\ UNCHANGED <<rx, broke, broken, out>>
    BY <1>3 DEF WriteToBuffer, AfterWrite
  <2>2. ~broke
    BY <2>1 DEF WriterInv
  <2>3. Pending = (buf \o data) \o R /\ Pending' = ((buf \o data) \o <<>>) \o R
    BY <2>1, <2>2 DEF Pending
  <2>4. (buf \o data) \o <<>> = buf \o data
    BY <1>0, ConcatProperties, ConcatEmptySeq
  <2> QED BY <2>1, <2>3, <2>4
<1> QED BY <1>1, <1>2, <1>3

(* The socket takes bytes from the head. *)
LEMMA PendingDelivered ==
    ASSUME WriterInv, WriteToSocket \/ DrainBuffer
    PROVE  /\ \E d \in Seq(Byte) : d # <<>> /\ out' = out \o d /\ Pending = d \o Pending'
           /\ broke' = broke /\ writer # "done" /\ writer' # "done"
<1> DEFINE R == FlattenSeq(rx)
<1>0. R \in Seq(Byte) /\ buf \in Seq(Byte) /\ data \in Seq(Byte)
  BY PendingType DEF WriterInv
<1>1. CASE WriteToSocket
  <2>1. PICK n \in 1..Len(data) :
           /\ out' = out \o SubSeq(data, 1, n)
           /\ data' = SubSeq(data, n + 1, Len(data))
           /\ writer' = AfterWrite(SubSeq(data, n + 1, Len(data)))
    BY <1>1 DEF WriteToSocket
  <2>2. writer = "write" /\ buf = <<>> /\ UNCHANGED <<rx, buf, broke, broken>>
    BY <1>1 DEF WriteToSocket, GoesThrough
  <2> DEFINE d == SubSeq(data, 1, n)
             e == SubSeq(data, n + 1, Len(data))
  <2>3. d \in Seq(Byte) /\ e \in Seq(Byte) /\ d # <<>> /\ data = d \o e
    BY <1>0, SplitAt
  <2>4. ~broke /\ writer' \in {"write", "flush", "recv"}
    BY <2>1, <2>2 DEF WriterInv, AfterWrite
  <2>5. out' = out \o d /\ data' = e
    BY <2>1
  <2> HIDE DEF d, e
  <2>6. Pending = (<<>> \o (d \o e)) \o R /\ Pending' = (<<>> \o e) \o R
    BY <2>2, <2>3, <2>4, <2>5 DEF Pending
  <2>7. <<>> \o (d \o e) = d \o e /\ <<>> \o e = e
    BY <2>3, ConcatProperties, ConcatEmptySeq
  <2>8. (d \o e) \o R = d \o (e \o R)
    <3>1. d \in Seq(Byte) /\ e \in Seq(Byte) /\ R \in Seq(Byte)
      BY <1>0, <2>3
    <3> HIDE DEF R
    <3> QED BY <3>1, BytesJoin, ZenonT(60)
  <2> QED BY <2>2, <2>3, <2>4, <2>5, <2>6, <2>7, <2>8
<1>2. CASE DrainBuffer
  <2>1. PICK n \in 1..Len(buf) :
           out' = out \o SubSeq(buf, 1, n) /\ buf' = SubSeq(buf, n + 1, Len(buf))
    BY <1>2 DEF DrainBuffer
  <2>2. writer \in {"write", "flush", "last"} /\ UNCHANGED <<rx, writer, data, broke, broken>>
    BY <1>2 DEF DrainBuffer
  <2> DEFINE d == SubSeq(buf, 1, n)
             e == SubSeq(buf, n + 1, Len(buf))
  <2>3. d \in Seq(Byte) /\ e \in Seq(Byte) /\ d # <<>> /\ buf = d \o e
    BY <1>0, SplitAt
  <2>4. out' = out \o d /\ buf' = e
    BY <2>1
  <2> HIDE DEF d, e
  <2>5. CASE broke
    BY <2>2, <2>3, <2>4, <2>5 DEF Pending
  <2>6. CASE ~broke
    <3>1. Pending = ((d \o e) \o data) \o R /\ Pending' = (e \o data) \o R
      BY <2>2, <2>3, <2>4, <2>6 DEF Pending
    <3> HIDE DEF R
    <3>2. ((d \o e) \o data) \o R = d \o ((e \o data) \o R)
      <4> DEFINE u == data
      <4>1. d \in Seq(Byte) /\ e \in Seq(Byte) /\ u \in Seq(Byte) /\ R \in Seq(Byte)
        BY <1>0, <2>3
      <4> HIDE DEF u
      <4> DEFINE x == e \o u
      <4>2. x \in Seq(Byte)
        BY <4>1, ConcatProperties
      <4>3. (d \o e) \o u = d \o x
        BY <4>1, BytesJoin, ZenonT(60)
      <4> HIDE DEF x
      <4>4. (d \o x) \o R = d \o (x \o R)
        BY <4>1, <4>2, BytesJoin, ZenonT(60)
      <4> QED BY <4>3, <4>4 DEF u, x
    <3> QED BY <2>2, <2>3, <2>4, <3>1, <3>2
  <2> QED BY <2>5, <2>6
<1> QED BY <1>1, <1>2

(* What the end of the task loses is an end of what was pending. *)
LEMMA PendingLost ==
    ASSUME WriterInv, WriteFails \/ WriterEnds
    PROVE  /\ out' = out /\ \E r \in Seq(Byte) : Pending = Pending' \o r
           /\ broke' \/ writer' = "done"
<1> DEFINE R == FlattenSeq(rx)
<1>0. R \in Seq(Byte) /\ buf \in Seq(Byte) /\ data \in Seq(Byte) /\ Pending \in Seq(Byte)
  BY PendingType DEF WriterInv
<1>1. CASE WriteFails
  <2>1. writer = "write" /\ writer' = "last" /\ broke' /\ UNCHANGED <<buf, out>>
    BY <1>1 DEF WriteFails
  <2>2. Pending = (buf \o data) \o R /\ Pending' = buf
    BY <2>1 DEF Pending, WriterInv
  <2>3. (buf \o data) \o R = buf \o (data \o R) /\ data \o R \in Seq(Byte)
    <3>1. buf \in Seq(Byte) /\ data \in Seq(Byte) /\ R \in Seq(Byte)
      BY <1>0
    <3> HIDE DEF R
    <3>2. (buf \o data) \o R = buf \o (data \o R)
      BY <3>1, BytesJoin, ZenonT(60)
    <3>3. data \o R \in Seq(Byte)
      BY <3>1, BytesConcat
    <3> QED BY <3>2, <3>3
  <2> QED BY <2>1, <2>2, <2>3
<1>2. CASE WriterEnds
  <2>1. out' = out /\ writer' = "done" /\ Pending' = <<>>
    BY <1>2 DEF WriterEnds, Pending
  <2>2. Pending = <<>> \o Pending
    BY <1>0, ConcatEmptySeq
  <2> QED BY <1>0, <2>1, <2>2
<1> QED BY <1>1, <1>2

(* A routed chunk is last in line. *)
LEMMA PendingRouted ==
    ASSUME WriterInv, NEW c \in Seq(Byte), ConnSend(c)
    PROVE  /\ out' = out /\ broke' = broke /\ writer' = writer /\ writer # "done"
           /\ Pending' = IF broke THEN Pending ELSE Pending \o c
<1> DEFINE R == FlattenSeq(rx)
           a == buf \o data
<1>0. R \in Seq(Byte) /\ a \in Seq(Byte)
  BY PendingType, ConcatProperties DEF WriterInv
<1>1. /\ writer # "done" /\ rx' = Append(rx, c)
      /\ UNCHANGED <<writer, data, buf, broke, broken, out>>
  BY DEF ConnSend
<1>2. FlattenSeq(rx') = R \o c
  BY <1>1, FlattenAppend DEF WriterInv
<1>3. CASE broke
  BY <1>1, <1>3 DEF Pending
<1>4. CASE ~broke
  <2>1. Pending = a \o R /\ Pending' = a \o (R \o c)
    BY <1>1, <1>2, <1>4 DEF Pending
  <2> HIDE DEF a, R
  <2>2. (a \o R) \o c = a \o (R \o c)
    BY <1>0, BytesJoin, ZenonT(60)
  <2> QED BY <1>1, <1>4, <2>1, <2>2
<1> QED BY <1>3, <1>4

-----------------------------------------------------------------------------
(* What a step does to the whole way: bytes enter at its end, leave at its *)
(* head, or an end of it is lost.                                          *)

InRoute == IF reader = "route" /\ writer # "done" /\ ~broke THEN held ELSE <<>>
InStream == IF Open THEN Travelling ELSE <<>>
Running == Open /\ task # "done"

Accepted ==
    /\ Running /\ Running' /\ Complete /\ out' = out
    /\ \E n \in Nat \ {0} :
          /\ sent' = sent + n /\ sent' <= MaxBytes
          /\ OnTheWay' = OnTheWay \o [i \in 1..n |-> sent + i]

Delivered ==
    /\ Running' = Running /\ (Complete' => Complete) /\ sent' = sent
    /\ \E d \in Seq(Byte) : d # <<>> /\ out' = out \o d /\ OnTheWay = d \o OnTheWay'

Moved ==
    /\ out' = out /\ OnTheWay' = OnTheWay /\ sent' >= sent
    /\ Complete' => Complete /\ sent' = sent
    /\ Running' => Running

Lost ==
    /\ out' = out /\ sent' = sent /\ ~Complete' /\ ~Running'
    /\ \E r \in Seq(Byte) : OnTheWay = OnTheWay' \o r

Outcome == Accepted \/ Delivered \/ Moved \/ Lost

LEMMA WayParts ==
    Shape => /\ Pending \in Seq(Byte) /\ InRoute \in Seq(Byte) /\ InStream \in Seq(Byte)
             /\ OnTheWay = (Pending \o InRoute) \o InStream
             /\ Pending \o InRoute \in Seq(Byte) /\ OnTheWay \in Seq(Byte)
             /\ out \in Seq(Byte) /\ sent \in 0..MaxBytes
<1> SUFFICES ASSUME Shape
             PROVE  /\ Pending \in Seq(Byte) /\ InRoute \in Seq(Byte) /\ InStream \in Seq(Byte)
                    /\ OnTheWay = (Pending \o InRoute) \o InStream
                    /\ Pending \o InRoute \in Seq(Byte) /\ OnTheWay \in Seq(Byte)
                    /\ out \in Seq(Byte) /\ sent \in 0..MaxBytes
  OBVIOUS
<1>1. Pending \in Seq(Byte)
  BY PendingType DEF Shape
<1>2. InRoute \in Seq(Byte)
  BY EmptySeq DEF Shape, RouteInv, InRoute
<1>3. InStream \in Seq(Byte)
  BY TravellingParts, EmptySeq DEF Shape, InStream
<1>4. OnTheWay = (Pending \o InRoute) \o InStream
  BY DEF OnTheWay, InRoute, InStream
<1>5. Pending \o InRoute \in Seq(Byte)
  BY <1>1, <1>2, ConcatProperties
<1>6. OnTheWay \in Seq(Byte)
  BY <1>3, <1>4, <1>5, ConcatProperties
<1>7. out \in Seq(Byte) /\ sent \in 0..MaxBytes
  BY DEF Shape, WriterInv, TransportInv
<1> QED BY <1>1, <1>2, <1>3, <1>4, <1>5, <1>6, <1>7

LEMMA ClientOutcome ==
    ASSUME Shape, Shape', ClientSide
    PROVE  Outcome
<1>0. /\ Pending \o InRoute \in Seq(Byte) /\ InStream \in Seq(Byte) /\ sent \in Nat
      /\ OnTheWay = (Pending \o InRoute) \o InStream
  BY WayParts, TransportAssumption
<1>1. OnTheWay' = (Pending' \o InRoute') \o InStream'
  <2>1. (Shape => OnTheWay = (Pending \o InRoute) \o InStream)'
    BY WayParts, PTL
  <2> QED BY <2>1
<1>2. /\ UNCHANGED <<writerVars, reader, held, sender>> /\ TransportInv /\ TransportInv'
  BY DEF ClientSide, Shape
<1>3. out' = out /\ Pending' = Pending /\ InRoute' = InRoute /\ Open' = Open /\ broken' = broken
  BY <1>2 DEF writerVars, Pending, InRoute, Open
<1> DEFINE a == Pending \o InRoute
<1>4. CASE \E n \in Sizes : Send(n)
  <2>1. PICK n \in Sizes : Send(n)
    BY <1>4
  <2>2. /\ task # "done" /\ ~failed /\ n \in Nat \ {0} /\ sent' = sent + n /\ sent' <= MaxBytes
        /\ UNCHANGED <<task, failed, peerKey>>
    BY <1>2, <2>1, TransportAssumption DEF Send, TransportInv
  <2>3. CASE Open
    <3> DEFINE c == [i \in 1..n |-> sent + i]
               t == InStream
    <3>1. InStream' = t \o c
      BY <1>2, <1>3, <2>1, <2>3, TravelSend DEF InStream
    <3>2. c \in Seq(Byte)
      BY <1>0, <2>2, RunIsBytes
    <3>3. OnTheWay' = a \o (t \o c) /\ OnTheWay = a \o t /\ a \in Seq(Byte) /\ t \in Seq(Byte)
      BY <1>0, <1>1, <1>3, <3>1
    <3> HIDE DEF a, t, c
    <3>4. (a \o t) \o c = a \o (t \o c)
      BY <3>2, <3>3, BytesJoin, ZenonT(60)
    <3>5. OnTheWay' = OnTheWay \o c
      BY <3>3, <3>4
    <3>6. Running /\ Running' /\ Complete
      BY <1>3, <2>2, <2>3 DEF Running, Complete
    <3> QED BY <1>3, <2>2, <3>5, <3>6 DEF Outcome, Accepted, c
  <2>4. CASE ~Open
    <3>1. InStream' = InStream
      BY <1>3, <2>4 DEF InStream
    <3>2. OnTheWay' = OnTheWay
      BY <1>0, <1>1, <1>3, <3>1
    <3>3. ~Complete'
      BY <1>2, <1>3, <2>2, <2>4 DEF Complete, Shape, RouteInv
    <3>4. ~Running' /\ sent' >= sent
      BY <1>0, <1>3, <2>2, <2>4 DEF Running
    <3> QED BY <1>3, <3>2, <3>3, <3>4 DEF Outcome, Moved
  <2> QED BY <2>3, <2>4
<1>5. CASE DropSenders \/ TaskStep
  <2>1. Travelling' = Travelling
    BY <1>2, <1>5, TravelTask
  <2>2. OnTheWay' = OnTheWay
    BY <1>0, <1>1, <1>3, <2>1 DEF InStream
  <2>3. UNCHANGED <<sent, failed, peerKey>> /\ (task' # "done" => task # "done")
    BY <1>5 DEF DropSenders, TaskStep, Encode, WriteFrame, TaskEnds
  <2>4. (Complete' => Complete) /\ (Running' => Running)
    BY <1>2, <1>3, <2>3 DEF Complete, Running
  <2> QED BY <1>0, <1>3, <2>2, <2>3, <2>4 DEF Outcome, Moved
<1>6. CASE TaskFails
  <2>1. failed' /\ task' = "done" /\ sent' = sent
    BY <1>6 DEF TaskFails
  <2>2. ~Complete' /\ ~Running'
    BY <2>1 DEF Complete, Running
  <2>3. CASE Open
    <3>1. PICK r \in Seq(Byte) : Travelling = Travelling' \o r
      BY <1>2, <1>6, TravelFails
    <3> DEFINE t == InStream'
    <3>2. InStream = t \o r /\ t \in Seq(Byte)
      <4>1. (TransportInv => Travelling \in Seq(Byte))'
        BY TravellingParts, PTL
      <4> QED BY <1>2, <1>3, <2>3, <3>1, <4>1 DEF InStream
    <3>3. OnTheWay' = a \o t /\ OnTheWay = a \o (t \o r) /\ a \in Seq(Byte)
      BY <1>0, <1>1, <1>3, <3>2
    <3> HIDE DEF a, t
    <3>4. (a \o t) \o r = a \o (t \o r)
      BY <3>2, <3>3, BytesJoin, ZenonT(60)
    <3>5. OnTheWay = OnTheWay' \o r
      BY <3>3, <3>4
    <3> QED BY <1>3, <2>1, <2>2, <3>5 DEF Outcome, Lost
  <2>4. CASE ~Open
    <3>1. OnTheWay' = OnTheWay
      BY <1>0, <1>1, <1>3, <2>4 DEF InStream
    <3> QED BY <1>0, <1>3, <2>1, <2>2, <3>1 DEF Outcome, Moved
  <2> QED BY <2>3, <2>4
<1> QED BY <1>4, <1>5, <1>6 DEF ClientSide

LEMMA UserOutcome ==
    ASSUME Shape, Shape', UserSide
    PROVE  Outcome
<1>0. /\ Pending \in Seq(Byte) /\ InRoute \in Seq(Byte) /\ InStream \in Seq(Byte) /\ sent \in Nat
      /\ OnTheWay = (Pending \o InRoute) \o InStream
  BY WayParts, TransportAssumption
<1>1. OnTheWay' = (Pending' \o InRoute') \o InStream' /\ Pending' \in Seq(Byte)
  <2>1. (Shape => OnTheWay = (Pending \o InRoute) \o InStream /\ Pending \in Seq(Byte))'
    BY WayParts, PTL
  <2> QED BY <2>1
<1>2. UNCHANGED <<transportVars, reader, held, sender>> /\ WriterInv
  BY DEF UserSide, Shape
<1>3. Travelling' = Travelling /\ UNCHANGED <<sent, failed, peerKey, task>>
  BY <1>2 DEF transportVars, writeVars, Travelling
<1> DEFINE h == InRoute
           t == InStream
<1>4. CASE PeerResets \/ Recv \/ WriteToBuffer \/ FlushReturns \/ RecvNone(SenderLives)
  <2>1. /\ out' = out /\ Pending' = Pending /\ broke' = broke
        /\ (writer' = "done") <=> (writer = "done")
    BY <1>2, <1>4, PendingSame
  <2>2. broken => broken'
    BY <1>4 DEF PeerResets, Recv, WriteToBuffer, FlushReturns, RecvNone
  <2>3. Open' = Open /\ InRoute' = InRoute /\ InStream' = InStream
    BY <1>2, <1>3, <2>1 DEF Open, InRoute, InStream
  <2>4. OnTheWay' = OnTheWay
    BY <1>0, <1>1, <2>1, <2>3
  <2>5. (Complete' => Complete) /\ (Running' => Running)
    BY <1>2, <1>3, <2>2, <2>3 DEF Complete, Running
  <2> QED BY <1>0, <1>3, <2>1, <2>4, <2>5 DEF Outcome, Moved
<1>5. CASE WriteToSocket \/ DrainBuffer
  <2>1. /\ \E d \in Seq(Byte) : d # <<>> /\ out' = out \o d /\ Pending = d \o Pending'
        /\ broke' = broke /\ writer # "done" /\ writer' # "done"
    BY <1>2, <1>5, PendingDelivered
  <2>2. PICK d \in Seq(Byte) : d # <<>> /\ out' = out \o d /\ Pending = d \o Pending'
    BY <2>1
  <2>3. broken' = broken
    BY <1>5 DEF WriteToSocket, DrainBuffer
  <2>4. Open' = Open /\ InRoute' = InRoute /\ InStream' = InStream
    BY <1>2, <1>3, <2>1 DEF Open, InRoute, InStream
  <2> DEFINE p == Pending'
  <2>5. OnTheWay = ((d \o p) \o h) \o t /\ OnTheWay' = (p \o h) \o t
    BY <1>0, <1>1, <2>2, <2>4
  <2>8. p \in Seq(Byte) /\ h \in Seq(Byte) /\ t \in Seq(Byte)
    BY <1>0, <1>1
  <2> HIDE DEF p, h, t
  <2>6. OnTheWay = d \o OnTheWay'
    <3> DEFINE x == p \o h
    <3>0. (d \o p) \o h = d \o x
      BY <2>8, BytesJoin, ZenonT(60)
    <3>1. x \in Seq(Byte) /\ (d \o p) \o h = d \o x
      BY <2>8, <3>0, BytesConcat
    <3>2. OnTheWay = (d \o x) \o t /\ OnTheWay' = x \o t
      BY <2>5, <3>1
    <3> HIDE DEF x
    <3>3. (d \o x) \o t = d \o (x \o t)
      <4>1. x \in Seq(Byte)
        BY <3>1
      <4> QED BY <2>8, <4>1, BytesJoin, ZenonT(60)
    <3> QED BY <3>2, <3>3
  <2>7. (Complete' => Complete) /\ Running' = Running
    BY <1>2, <1>3, <2>3, <2>4 DEF Complete, Running
  <2> QED BY <1>3, <2>2, <2>6, <2>7 DEF Outcome, Delivered
<1>6. CASE WriteFails \/ WriterEnds
  <2>1. /\ out' = out /\ \E r \in Seq(Byte) : Pending = Pending' \o r
        /\ broke' \/ writer' = "done"
    BY <1>2, <1>6, PendingLost
  <2>2. PICK r \in Seq(Byte) : Pending = Pending' \o r
    BY <2>1
  <2>3. ~Open' /\ InRoute' = <<>> /\ InStream' = <<>>
    BY <2>1 DEF Open, InRoute, InStream
  <2>4. ~Complete' /\ ~Running'
    <3>1. broken' \/ ~sender
      BY <1>6 DEF Shape, RouteInv, WriteFails, WriterEnds
    <3> QED BY <1>2, <2>3, <3>1 DEF Complete, Running
  <2> DEFINE p == Pending'
  <2>5. OnTheWay = ((p \o r) \o h) \o t /\ OnTheWay' = (p \o <<>>) \o <<>>
    BY <1>0, <1>1, <2>2, <2>3
  <2>6. p \in Seq(Byte) /\ h \in Seq(Byte) /\ t \in Seq(Byte)
    BY <1>0, <1>1
  <2> HIDE DEF p, h, t
  <2>7. OnTheWay' = p
    BY <2>5, <2>6, ConcatEmptySeq
  <2>8. \E z \in Seq(Byte) : OnTheWay = p \o z
    <3> DEFINE x == r \o h
    <3>0. (p \o r) \o h = p \o x
      BY <2>6, BytesJoin, ZenonT(60)
    <3>1. x \in Seq(Byte) /\ (p \o r) \o h = p \o x
      BY <2>6, <3>0, BytesConcat
    <3>2. OnTheWay = (p \o x) \o t
      BY <2>5, <3>1
    <3> HIDE DEF x
    <3>3. (p \o x) \o t = p \o (x \o t)
      BY <2>6, <3>1, BytesJoin, ZenonT(60)
    <3>4. x \o t \in Seq(Byte)
      BY <2>6, <3>1, BytesConcat
    <3> QED BY <3>2, <3>3, <3>4
  <2> QED BY <1>3, <2>1, <2>4, <2>7, <2>8 DEF Outcome, Lost
<1> QED BY <1>4, <1>5, <1>6 DEF UserSide, WriterStep

LEMMA ReaderOutcome ==
    ASSUME Shape, Shape', ReaderStep \/ ReaderQuits \/ DropSender
    PROVE  Outcome
<1>0. /\ Pending \in Seq(Byte) /\ InRoute \in Seq(Byte) /\ InStream \in Seq(Byte) /\ sent \in Nat
      /\ OnTheWay = (Pending \o InRoute) \o InStream /\ Pending \o InRoute \in Seq(Byte)
  BY WayParts, TransportAssumption
<1>1. OnTheWay' = (Pending' \o InRoute') \o InStream'
  <2>1. (Shape => OnTheWay = (Pending \o InRoute) \o InStream)'
    BY WayParts, PTL
  <2> QED BY <2>1
<1>2. TransportInv /\ TransportInv' /\ WriterInv /\ RouteInv /\ RouteInv'
  BY DEF Shape
<1> DEFINE p == Pending
<1>3. CASE Read
  <2>1. /\ reader = "run" /\ NextDecodes /\ UNCHANGED <<writerVars, sender, writeVars, peerKey>>
    BY <1>3 DEF Read, NextDecodes
  <2>2. /\ out' = out /\ Pending' = Pending /\ InRoute = <<>>
        /\ UNCHANGED <<writer, broke, broken, sent, failed, task>>
    BY <2>1 DEF writerVars, writeVars, Pending, InRoute
  <2>3. CASE Open
    <3> DEFINE f == Head(wire).block.frame
               t == Travelling'
    <3>1. reader' = "route" /\ held' = f
      BY <1>3, <2>3 DEF Read, Open
    <3>2. Travelling = f \o t
      BY <1>2, <2>1, TravelRead
    <3>3. f \in Seq(Byte) /\ t \in Seq(Byte) /\ p \in Seq(Byte)
      <4>1. (TransportInv => Travelling \in Seq(Byte))'
        BY TravellingParts, PTL
      <4>2. wire # <<>> /\ Head(wire) \in Ciphertext
        BY <1>2, <2>1, HeadTailProperties DEF TransportInv, NextDecodes
      <4> QED BY <1>0, <1>2, <4>1, <4>2 DEF Ciphertext
    <3>4. Open' /\ InRoute' = f /\ InStream = f \o t /\ InStream' = t
      BY <2>1, <2>2, <2>3, <3>1, <3>2 DEF Open, InRoute, InStream
    <3>5. OnTheWay = (p \o <<>>) \o (f \o t) /\ OnTheWay' = (p \o f) \o t
      BY <1>0, <1>1, <2>2, <3>4
    <3> HIDE DEF f, t, p
    <3>6. (p \o f) \o t = p \o (f \o t)
      BY <3>3, BytesJoin, ZenonT(60)
    <3>7. p \o <<>> = p
      BY <3>3, ConcatEmptySeq
    <3>8. OnTheWay' = OnTheWay
      BY <3>5, <3>6, <3>7
    <3>9. (Complete' => Complete) /\ (Running' => Running)
      BY <2>2, <2>3 DEF Complete, Running
    <3> QED BY <1>0, <2>2, <3>8, <3>9 DEF Outcome, Moved
  <2>4. CASE ~Open
    <3>1. reader' \in {"run", "route"} /\ (sender \/ reader' = "run")
      BY <1>3, <2>1 DEF Read
    <3>2. ~Open' /\ InRoute' = <<>> /\ InStream = <<>> /\ InStream' = <<>>
      BY <2>1, <2>2, <2>4, <3>1 DEF Open, InRoute, InStream
    <3>3. OnTheWay' = OnTheWay
      BY <1>0, <1>1, <2>2, <3>2
    <3>4. ~Complete' /\ ~Running'
      BY <3>1, <3>2 DEF Complete, Running
    <3> QED BY <1>0, <2>2, <3>3, <3>4 DEF Outcome, Moved
  <2> QED BY <2>3, <2>4
<1>4. CASE Route
  <2>1. /\ reader = "route" /\ ConnSend(held) /\ reader' = "run"
        /\ UNCHANGED <<transportVars, sender>> /\ held \in Seq(Byte)
    BY <1>2, <1>4 DEF Route, RouteInv
  <2>2. /\ out' = out /\ broke' = broke /\ writer' = writer /\ writer # "done"
        /\ Pending' = IF broke THEN Pending ELSE Pending \o held
    BY <1>2, <2>1, PendingRouted
  <2>3. Travelling' = Travelling /\ UNCHANGED <<sent, failed, peerKey, task, broken>>
    BY <2>1 DEF transportVars, writeVars, Travelling, ConnSend
  <2>4. Open' = Open /\ InRoute' = <<>> /\ InStream' = InStream
    BY <2>1, <2>2, <2>3 DEF Open, InRoute, InStream
  <2>5. Pending' \o <<>> = Pending \o InRoute
    <3>1. CASE broke
      BY <2>1, <2>2, <3>1 DEF InRoute
    <3>2. CASE ~broke
      <4>1. Pending' = Pending \o held /\ InRoute = held
        BY <2>1, <2>2, <3>2 DEF InRoute
      <4>2. Pending \o held \in Seq(Byte)
        BY <1>0, <2>1, ConcatProperties
      <4>3. (Pending \o held) \o <<>> = Pending \o held
        BY <4>2, ConcatEmptySeq
      <4> QED BY <4>1, <4>3
    <3> QED BY <3>1, <3>2
  <2>6. OnTheWay' = OnTheWay
    BY <1>0, <1>1, <2>4, <2>5
  <2>7. (Complete' => Complete) /\ (Running' => Running)
    BY <2>1, <2>3, <2>4 DEF Complete, Running
  <2> QED BY <1>0, <2>2, <2>3, <2>6, <2>7 DEF Outcome, Moved
<1>5. CASE RouteError
  <2>1. /\ reader = "route" /\ writer = "done" /\ reader' = "run"
        /\ UNCHANGED <<transportVars, writerVars, sender>>
    BY <1>5 DEF RouteError
  <2>2. /\ Pending' = Pending /\ out' = out /\ sent' = sent
        /\ ~Open /\ ~Open' /\ InRoute = <<>> /\ InRoute' = <<>> /\ InStream = <<>> /\ InStream' = <<>>
    BY <2>1 DEF transportVars, writeVars, writerVars, Pending, Open, InRoute, InStream
  <2>3. OnTheWay' = OnTheWay
    BY <1>0, <1>1, <2>2
  <2>4. ~Complete' /\ ~Running'
    BY <2>1, <2>2 DEF Complete, Running
  <2> QED BY <1>0, <2>2, <2>3, <2>4 DEF Outcome, Moved
<1>6. CASE ReadEnds \/ ReaderQuits \/ DropSender
  <2>1. /\ UNCHANGED <<transportVars, writerVars, held>>
        /\ reader = "route" <=> reader' = "route"
    BY <1>6 DEF ReadEnds, ReaderQuits, DropSender
  <2>2. /\ Pending' = Pending /\ out' = out /\ InRoute' = InRoute
        /\ UNCHANGED <<sent, failed, peerKey, task, broken, broke, writer>>
    BY <2>1 DEF transportVars, writeVars, writerVars, Pending, InRoute
  <2>3. ~Open'
    BY <1>6 DEF ReadEnds, ReaderQuits, DropSender, Open
  <2>4. ~Running' /\ InStream' = <<>>
    BY <2>3 DEF Running, InStream
  <2>5. OnTheWay' = Pending \o InRoute
    BY <1>0, <1>1, <2>2, <2>4, ConcatEmptySeq
  <2>6. CASE ~Complete'
    <3>1. OnTheWay = OnTheWay' \o InStream
      BY <1>0, <2>5
    <3> QED BY <1>0, <2>2, <2>4, <2>6, <3>1 DEF Outcome, Lost
  <2>7. CASE Complete'
    <3>1. reader' = "ended" /\ peerKey = "k" /\ sender' /\ ~broken /\ ~failed
      BY <2>2, <2>3, <2>7 DEF Complete
    <3>2. ReadEnds \/ DropSender
      BY <1>6, <3>1 DEF ReaderQuits
    <3>3. ReadEnds
      BY <3>1, <3>2 DEF DropSender
    <3>4. Open /\ Complete
      BY <1>2, <3>1, <3>3 DEF ReadEnds, Open, Complete, RouteInv, WriterInv
    <3>5. Travelling = <<>>
      <4>1. wire = <<>> /\ task = "done" /\ chan = <<>>
        BY <1>2, <2>1, <2>2, <3>1 DEF RouteInv, TransportInv, transportVars
      <4>2. FramesOf(wire) = <<>>
        BY <4>1 DEF FramesOf
      <4>3. InWire = <<>> /\ InHand = <<>> /\ InChan = <<>>
        BY <4>1, <4>2, FlattenEmpty DEF InWire, InHand, InChan
      <4>4. (<<>> \o <<>>) \o <<>> = <<>>
        OBVIOUS
      <4> QED BY <1>2, <4>3, <4>4, TravellingParts
    <3>6. OnTheWay = Pending \o InRoute
      <4>1. InStream = <<>>
        BY <3>4, <3>5 DEF InStream
      <4> QED BY <1>0, <4>1, ConcatEmptySeq
    <3> QED BY <1>0, <2>2, <2>4, <2>5, <3>4, <3>6 DEF Outcome, Moved
  <2> QED BY <2>6, <2>7
<1> QED BY <1>3, <1>4, <1>5, <1>6 DEF ReaderStep

-----------------------------------------------------------------------------
(* Prefixes of the answer. *)

LEMMA FirstType ==
    ASSUME NEW m \in 0..MaxBytes
    PROVE  FirstBytes(m) \in Seq(Byte) /\ Len(FirstBytes(m)) = m /\ \A i \in 1..m : FirstBytes(m)[i] = i
<1>1. MaxBytes \in Nat /\ m \in Nat
  BY TransportAssumption
<1>2. \A i \in 1..m : i \in Byte
  BY <1>1 DEF Byte
<1> QED BY <1>1, <1>2 DEF FirstBytes

LEMMA FirstPrefix ==
    ASSUME NEW m \in 0..MaxBytes, NEW a \in Seq(Byte), NEW r \in Seq(Byte), a \o r = FirstBytes(m)
    PROVE  a = FirstBytes(Len(a)) /\ Len(a) + Len(r) = m /\ Len(a) \in 0..m
<1> DEFINE n == Len(a)
<1>1. /\ m \in Nat /\ MaxBytes \in Nat /\ Len(FirstBytes(m)) = m
      /\ \A i \in 1..m : FirstBytes(m)[i] = i
  BY TransportAssumption, FirstType
<1>2. /\ Len(a \o r) = n + Len(r) /\ n \in Nat /\ Len(r) \in Nat
      /\ \A i \in 1..n : (a \o r)[i] = a[i]
  BY ConcatProperties
<1>3. n + Len(r) = m /\ n \in 0..m /\ n \in 0..MaxBytes
  BY <1>1, <1>2
<1>4. FirstBytes(n) \in Seq(Byte) /\ Len(FirstBytes(n)) = n /\ \A i \in 1..n : FirstBytes(n)[i] = i
  BY <1>3, FirstType
<1>5. \A i \in 1..n : a[i] = FirstBytes(n)[i]
  BY <1>1, <1>2, <1>3, <1>4
<1>6. a = FirstBytes(n)
  BY <1>4, <1>5, SeqEqual
<1> QED BY <1>3, <1>6

LEMMA FirstExtends ==
    ASSUME NEW m \in Nat, NEW n \in Nat, m + n <= MaxBytes
    PROVE  FirstBytes(m) \o [i \in 1..n |-> m + i] = FirstBytes(m + n)
<1> DEFINE a == FirstBytes(m)
           c == [i \in 1..n |-> m + i]
           z == FirstBytes(m + n)
<1>0. MaxBytes \in Nat /\ m \in 0..MaxBytes /\ m + n \in 0..MaxBytes
  BY TransportAssumption
<1>1. a \in Seq(Byte) /\ Len(a) = m /\ \A i \in 1..m : a[i] = i
  BY <1>0, FirstType
<1>2. c \in Seq(Byte) /\ Len(c) = n /\ \A i \in 1..n : c[i] = m + i
  BY RunIsBytes
<1>3. z \in Seq(Byte) /\ Len(z) = m + n /\ \A i \in 1..(m + n) : z[i] = i
  BY <1>0, FirstType
<1> HIDE DEF a, c, z
<1>4. /\ a \o c \in Seq(Byte) /\ Len(a \o c) = m + n
      /\ \A i \in 1..(m + n) : (a \o c)[i] = IF i <= m THEN a[i] ELSE c[i - m]
  <2>1. /\ a \o c \in Seq(Byte) /\ Len(a \o c) = Len(a) + Len(c)
        /\ \A i \in 1..(Len(a) + Len(c)) :
              (a \o c)[i] = IF i <= Len(a) THEN a[i] ELSE c[i - Len(a)]
    BY <1>1, <1>2, SMTT(30)
  <2> QED BY <1>1, <1>2, <2>1, Zenon
<1>5. ASSUME NEW i \in 1..(m + n) PROVE (a \o c)[i] = z[i]
  <2>1. CASE i <= m
    BY <1>1, <1>3, <1>4, <2>1
  <2>2. CASE ~(i <= m)
    <3>1. i - m \in 1..n /\ m + (i - m) = i
      BY <2>2
    <3>2. c[i - m] = i
      BY <1>2, <3>1
    <3> QED BY <1>3, <1>4, <2>2, <3>2
  <2> QED BY <2>1, <2>2
<1>6. a \o c = z
  BY <1>3, <1>4, <1>5, SeqEqual
<1> QED BY <1>6 DEF a, c, z

LEMMA OutcomeStream ==
    ASSUME Shape, Shape', StreamInv, Outcome
    PROVE  StreamInv'
<1>0. out \in Seq(Byte) /\ OnTheWay \in Seq(Byte) /\ sent \in 0..MaxBytes
  BY WayParts
<1>1. out' \in Seq(Byte) /\ OnTheWay' \in Seq(Byte) /\ sent' \in 0..MaxBytes
  <2>1. (Shape => out \in Seq(Byte) /\ OnTheWay \in Seq(Byte) /\ sent \in 0..MaxBytes)'
    BY WayParts, PTL
  <2> QED BY <2>1
<1>2. PICK m \in 0..sent : out \o OnTheWay = FirstBytes(m) /\ (Complete => m = sent)
  BY DEF StreamInv
<1>3. m \in Nat /\ MaxBytes \in Nat /\ sent \in Nat /\ m \in 0..MaxBytes
  BY <1>0, TransportAssumption
<1> DEFINE o == out
           q == OnTheWay
           p == OnTheWay'
<1>4. CASE Accepted
  <2>1. PICK n \in Nat \ {0} : /\ sent' = sent + n /\ sent' <= MaxBytes
                               /\ p = q \o [i \in 1..n |-> sent + i]
    BY <1>4 DEF Accepted
  <2>2. out' = out /\ m = sent
    BY <1>2, <1>4 DEF Accepted
  <2> DEFINE c == [i \in 1..n |-> sent + i]
  <2>3. c \in Seq(Byte) /\ FirstBytes(sent) \o c = FirstBytes(sent + n)
    BY <1>3, <2>1, RunIsBytes, FirstExtends
  <2>4. p = q \o c
    BY <2>1
  <2>5. o \in Seq(Byte) /\ q \in Seq(Byte) /\ c \in Seq(Byte)
    BY <1>0, <2>3
  <2>6. o \o q = FirstBytes(sent)
    BY <1>2, <2>2
  <2> HIDE DEF c, o, q, p
  <2>7. (o \o q) \o c = o \o (q \o c)
    BY <2>5, BytesJoin, ZenonT(60)
  <2>8. o \o p = FirstBytes(sent')
    BY <2>1, <2>3, <2>4, <2>6, <2>7
  <2>9. sent' \in 0..sent'
    BY <1>3, <2>1
  <2> QED BY <2>2, <2>8, <2>9 DEF StreamInv, o, p
<1>5. CASE Delivered
  <2>1. PICK d \in Seq(Byte) : out' = out \o d /\ OnTheWay = d \o OnTheWay'
    BY <1>5 DEF Delivered
  <2>2. o \in Seq(Byte) /\ p \in Seq(Byte)
    BY <1>0, <1>1
  <2>3. out' = o \o d /\ q = d \o p /\ o \o q = FirstBytes(m)
    BY <1>2, <2>1
  <2>4. sent' = sent /\ (Complete' => Complete)
    BY <1>5 DEF Delivered
  <2> HIDE DEF o, q, p
  <2>5. (o \o d) \o p = o \o (d \o p)
    BY <2>2, BytesJoin, ZenonT(60)
  <2>6. out' \o p = FirstBytes(m)
    BY <2>3, <2>5
  <2> QED BY <1>2, <2>4, <2>6 DEF StreamInv, p
<1>6. CASE Moved
  <2>1. m \in 0..sent'
    BY <1>1, <1>3, <1>6 DEF Moved
  <2>2. out' \o OnTheWay' = FirstBytes(m) /\ (Complete' => m = sent')
    BY <1>2, <1>6 DEF Moved
  <2> QED BY <2>1, <2>2 DEF StreamInv
<1>7. CASE Lost
  <2>1. PICK r \in Seq(Byte) : OnTheWay = OnTheWay' \o r
    BY <1>7 DEF Lost
  <2>2. out' = out /\ sent' = sent /\ ~Complete'
    BY <1>7 DEF Lost
  <2>3. o \in Seq(Byte) /\ p \in Seq(Byte)
    BY <1>0, <1>1
  <2>4. q = p \o r /\ o \o q = FirstBytes(m)
    BY <1>2, <2>1
  <2> HIDE DEF o, q, p
  <2> DEFINE w == o \o p
  <2>a. w \o r = o \o (p \o r)
    BY <2>3, BytesJoin, ZenonT(60)
  <2>5. w \in Seq(Byte) /\ w \o r = o \o (p \o r)
    BY <2>3, <2>a, BytesConcat
  <2> HIDE DEF w
  <2>6. w \o r = FirstBytes(m)
    BY <2>4, <2>5
  <2>7. w = FirstBytes(Len(w)) /\ Len(w) \in 0..m
    BY <1>3, <2>5, <2>6, FirstPrefix
  <2>8. Len(w) \in 0..sent'
    BY <1>3, <2>2, <2>7
  <2>9. out' \o OnTheWay' = FirstBytes(Len(w))
    BY <2>2, <2>7 DEF w, o, p
  <2> QED BY <2>2, <2>8, <2>9 DEF StreamInv
<1> QED BY <1>4, <1>5, <1>6, <1>7 DEF Outcome

LEMMA InitPathInv == Init => PathInv
<1> SUFFICES ASSUME Init PROVE PathInv
  OBVIOUS
<1> USE DEF Init, TransportInit, WriterInit
<1>1. TransportInv /\ Nonces
  BY TransportAssumption, EmptySeq DEF TransportInv, Nonces
<1>2. WriterInv /\ RouteInv /\ KeyInv
  <2>1. /\ <<>> \in Seq(Byte) /\ <<>> \in Seq(Seq(Byte)) /\ Len(<<>>) = 0
        /\ 0 <= ConnCap /\ 0 <= BufCap
    BY ConnWriterAssumption, EmptySeq
  <2>2. WriterInv
    BY <2>1 DEF WriterInv, IdleIsFlushed
  <2>3. RouteInv /\ KeyInv
    BY <2>1 DEF RouteInv, KeyInv
  <2> QED BY <2>2, <2>3
<1>3. OnTheWay = <<>>
  <2>1. Travelling = <<>>
    <3>1. FramesOf(wire) = <<>>
      BY DEF FramesOf
    <3>2. InWire = <<>> /\ InHand = <<>> /\ InChan = <<>>
      BY <3>1, FlattenEmpty DEF InWire, InHand, InChan
    <3>3. (<<>> \o <<>>) \o <<>> = <<>>
      OBVIOUS
    <3> QED BY <1>1, <3>2, <3>3, TravellingParts
  <2>2. Pending = <<>>
    <3>1. Pending = (<<>> \o <<>>) \o <<>>
      BY FlattenEmpty DEF Pending
    <3> QED BY <3>1
  <2>3. InRoute = <<>> /\ InStream = <<>>
    BY <2>1 DEF InRoute, InStream
  <2> QED BY <1>1, <1>2, <2>2, <2>3, WayParts DEF Shape
<1>4. StreamInv
  <2>1. FirstBytes(0) = <<>> /\ <<>> \o <<>> = <<>>
    BY DEF FirstBytes
  <2>2. out \o OnTheWay = FirstBytes(0) /\ sent = 0 /\ 0 \in 0..0
    BY <1>3, <2>1
  <2> QED BY <2>2 DEF StreamInv
<1> QED BY <1>1, <1>2, <1>4 DEF PathInv, Shape

LEMMA NextOutcome ==
    ASSUME PathInv, Next
    PROVE  PathInv' /\ Outcome
<1>1. Shape /\ Nonces /\ KeyInv /\ StreamInv
  BY DEF PathInv
<1>2. Shape' /\ Nonces' /\ KeyInv'
  BY <1>1, ClientKeeps, UserKeeps, ReaderKeeps DEF Next
<1>3. Outcome
  BY <1>1, <1>2, ClientOutcome, UserOutcome, ReaderOutcome DEF Next
<1>4. StreamInv'
  BY <1>1, <1>2, <1>3, OutcomeStream
<1> QED BY <1>2, <1>3, <1>4 DEF PathInv

LEMMA StutterPathInv ==
    ASSUME PathInv, UNCHANGED vars
    PROVE  PathInv'
<1>1. UNCHANGED <<transportVars, writerVars, reader, held, sender>> /\ Shape /\ Nonces /\ KeyInv /\ StreamInv
  BY DEF vars, PathInv
<1> USE DEF transportVars, writeVars, writerVars
<1>2. TransportInv' /\ Nonces'
  BY <1>1 DEF Shape, TransportInv, Nonces
<1>3. WriterInv'
  BY <1>1 DEF Shape, WriterInv, IdleIsFlushed
<1>4. RouteInv' /\ KeyInv'
  BY <1>1 DEF Shape, RouteInv, KeyInv
<1>5. Open' = Open /\ Pending' = Pending /\ Travelling' = Travelling
  BY <1>1 DEF Open, Pending, Travelling
<1>6. OnTheWay' = OnTheWay /\ (Complete' <=> Complete)
  BY <1>1, <1>5 DEF OnTheWay, Complete
<1>7. StreamInv'
  BY <1>1, <1>6 DEF StreamInv
<1> QED BY <1>2, <1>3, <1>4, <1>7 DEF PathInv, Shape

LEMMA PathInvariant == Spec => []PathInv
<1>1. PathInv /\ [Next]_vars => PathInv'
  BY NextOutcome, StutterPathInv
<1> QED BY <1>1, InitPathInv, PTL DEF Spec

-----------------------------------------------------------------------------
(* Channels, stream, buffers and chunks stay well typed and within their   *)
(* capacities; in particular the BufWriter never holds more than BufCap.   *)
THEOREM PathTypeCorrect == Spec => []TypeOK
<1>1. PathInv => TypeOK
  <2> SUFFICES ASSUME PathInv PROVE TypeOK
    OBVIOUS
  <2>0. TransportInv /\ WriterInv /\ RouteInv
    BY DEF PathInv, Shape
  <2>1. Seq(Byte) \subseteq Seq(Nat)
    <3>1. Byte \subseteq Nat
      BY TransportAssumption DEF Byte
    <3> QED BY <3>1, SeqMonotonic
  <2>2. rx \in Seq(Seq(Nat)) /\ data \in Seq(Nat) /\ out \in Seq(Nat) /\ buf \in Seq(Nat)
    BY <2>0, <2>1, SeqMonotonic DEF WriterInv
  <2>3. WriterTypeOK
    BY <2>0, <2>2 DEF WriterInv, WriterTypeOK
  <2>4. held \in Seq(1..MaxBytes)
    BY <2>0 DEF RouteInv, Byte
  <2> QED BY <2>0, <2>3, <2>4 DEF TypeOK, TransportInv, RouteInv
<1> QED BY <1>1, PathInvariant, PTL

(* A write task that waits for the next chunk holds nothing back. *)
THEOREM NothingHeldBack == Spec => []IdleIsFlushed
<1>1. PathInv => IdleIsFlushed
  BY DEF PathInv, Shape, WriterInv
<1> QED BY <1>1, PathInvariant, PTL

(* No two ciphertexts in the stream and in hand share a nonce, and none    *)
(* depends on an earlier one to be inflated.                               *)
THEOREM NoncesNeverRepeat == Spec => []SealedApart
<1>1. PathInv => SealedApart
  <2> SUFFICES ASSUME PathInv PROVE SealedApart
    OBVIOUS
  <2>0. TransportInv /\ Nonces
    BY DEF PathInv, Shape
  <2>1. wire \in Seq(Ciphertext) /\ Len(wire) \in Nat /\ (task = "send" => hand \in Ciphertext)
    BY <2>0 DEF TransportInv
  <2>2. ASSUME NEW i \in 1..Len(wire)
        PROVE  wire[i].block.window = 0 /\ wire[i].nonce \in Nat
    <3>1. wire[i] \in Ciphertext
      BY <2>1, ElementOfSeq
    <3> QED BY <3>1 DEF Ciphertext
  <2>3. \A i, j \in 1..Len(wire) : i # j => wire[i].nonce # wire[j].nonce
    BY <2>0, <2>1, <2>2 DEF Nonces
  <2>4. CASE task # "send"
    <3> DEFINE s == wire \o (IF task = "send" THEN <<hand>> ELSE <<>>)
    <3>1. s = wire
      BY <2>1, <2>4, ConcatEmptySeq
    <3>2. DOMAIN wire = 1..Len(wire)
      BY <2>1
    <3> HIDE DEF s
    <3>3. \A i \in DOMAIN s : /\ s[i].block.window = 0
                             /\ \A j \in DOMAIN s : i # j => s[i].nonce # s[j].nonce
      BY <2>2, <2>3, <3>1, <3>2
    <3> QED BY <3>3 DEF SealedApart, s
  <2>5. CASE task = "send"
    <3> DEFINE s == wire \o (IF task = "send" THEN <<hand>> ELSE <<>>)
               n == Len(wire)
    <3>1. /\ DOMAIN s = 1..(n + 1) /\ s[n + 1] = hand
          /\ \A i \in 1..n : s[i] = wire[i]
      BY <2>1, <2>5
    <3>2. hand.block.window = 0 /\ hand.nonce \in Nat
      BY <2>1, <2>5 DEF Ciphertext
    <3>3. \A i \in 1..n : wire[i].nonce # hand.nonce
      BY <2>0, <2>2, <2>5, <3>2 DEF Nonces
    <3> HIDE DEF s
    <3>4. \A i \in 1..(n + 1) : i \in 1..n \/ i = n + 1
      BY <2>1
    <3>5. ASSUME NEW i \in DOMAIN s
          PROVE  /\ s[i].block.window = 0
                 /\ \A j \in DOMAIN s : i # j => s[i].nonce # s[j].nonce
      <4>1. CASE i \in 1..n
        BY <2>2, <2>3, <3>1, <3>3, <3>4, <4>1
      <4>2. CASE i = n + 1
        BY <3>1, <3>2, <3>3, <3>4, <4>2
      <4> QED BY <3>1, <3>4, <4>1, <4>2
    <3> QED BY <3>5 DEF SealedApart, s
  <2> QED BY <2>4, <2>5
<1> QED BY <1>1, PathInvariant, PTL

(* The user gets a prefix of the answer and never a byte of a session with *)
(* another key, whatever fails and whoever leaves.                         *)
THEOREM AnswerIsPrefix == Spec => []PrefixArrives
<1>1. PathInv => PrefixArrives
  <2> SUFFICES ASSUME PathInv PROVE PrefixArrives
    OBVIOUS
  <2>1. out \in Seq(Byte) /\ OnTheWay \in Seq(Byte) /\ sent \in 0..MaxBytes
    BY WayParts DEF PathInv
  <2>2. PICK m \in 0..sent : out \o OnTheWay = FirstBytes(m)
    BY DEF PathInv, StreamInv
  <2>3. m \in 0..MaxBytes
    BY <2>1, TransportAssumption
  <2>4. out = FirstBytes(Len(out))
    BY <2>1, <2>2, <2>3, FirstPrefix
  <2> QED BY <2>4 DEF PrefixArrives, PathInv, KeyInv
<1> QED BY <1>1, PathInvariant, PTL

(* An orderly end of the client's session loses nothing of the answer, and *)
(* a write task that ends with its user still there has written all.       *)
THEOREM OrderlyEndLosesNothing == Spec => []OrderlyEndIsComplete
<1>1. PathInv => OrderlyEndIsComplete
  <2> SUFFICES ASSUME PathInv PROVE OrderlyEndIsComplete
    OBVIOUS
  <2>0. WriterInv /\ RouteInv /\ Shape /\ StreamInv
    BY DEF PathInv, Shape
  <2>1. ASSUME reader = "ended", ~failed, peerKey = "k", sender, ~broken
        PROVE  out \o Pending = FirstBytes(sent)
    <3>1. Complete /\ InRoute = <<>> /\ InStream = <<>>
      BY <2>1 DEF Complete, InRoute, InStream, Open
    <3>2. Pending \in Seq(Byte) /\ OnTheWay = (Pending \o <<>>) \o <<>>
      BY <2>0, <3>1, WayParts
    <3>3. OnTheWay = Pending
      BY <3>2, ConcatEmptySeq
    <3> QED BY <2>0, <3>1, <3>3 DEF StreamInv
  <2>2. writer = "done" /\ ~broken => rx = <<>> /\ buf = <<>>
    BY <2>0 DEF WriterInv, RouteInv
  <2> QED BY <2>1, <2>2 DEF OrderlyEndIsComplete
<1> QED BY <1>1, PathInvariant, PTL

(* The two channels, the two tasks, the main loop, the buffers and the     *)
(* stream implement the one lossy queue that the session modules take them *)
(* for: initial states map to initial states, every step to a step of Pipe *)
(* or to none.                                                             *)
THEOREM PathRefinesPipe == Spec => PathIsPipe
<1> DEFINE w == IF Open /\ task # "done" THEN "run" ELSE "done"
           Step == P!Accept \/ P!Deliver \/ P!End
<1>1. Init => P!PipeInit
  <2> SUFFICES ASSUME Init PROVE P!PipeInit
    OBVIOUS
  <2>1. Open /\ task # "done"
    BY DEF Init, TransportInit, WriterInit, Open
  <2>2. out = <<>> /\ sent = 0 /\ Shape /\ StreamInv
    BY InitPathInv DEF Init, TransportInit, WriterInit, PathInv
  <2>3. OnTheWay = <<>>
    <3>1. OnTheWay \in Seq(Byte) /\ <<>> \o OnTheWay = FirstBytes(0)
      BY <2>2, WayParts DEF StreamInv
    <3>2. Len(FirstBytes(0)) = 0 /\ <<>> \o OnTheWay = OnTheWay
      BY <3>1, ConcatEmptySeq DEF FirstBytes
    <3> QED BY <3>1, <3>2, EmptySeq
  <2> QED BY <2>1, <2>3 DEF P!PipeInit
<1>2. ASSUME PathInv, PathInv', Outcome
      PROVE  Step \/ (OnTheWay' = OnTheWay /\ w' = w)
  <2>0. out \in Seq(Byte) /\ OnTheWay \in Seq(Byte) /\ sent \in 0..MaxBytes
    BY <1>2, WayParts DEF PathInv
  <2>1. out' \in Seq(Byte) /\ OnTheWay' \in Seq(Byte) /\ sent' \in 0..MaxBytes
    <3>1. (Shape => out \in Seq(Byte) /\ OnTheWay \in Seq(Byte) /\ sent \in 0..MaxBytes)'
      BY WayParts, PTL
    <3> QED BY <1>2, <3>1 DEF PathInv
  <2>2. CASE Accepted
    <3>1. w = "run" /\ w' = "run"
      BY <2>2 DEF Accepted, Running
    <3>2. PICK n \in Nat \ {0} : /\ sent + n <= MaxBytes
                                 /\ OnTheWay' = OnTheWay \o [i \in 1..n |-> sent + i]
      BY <2>2 DEF Accepted
    <3> DEFINE c == [i \in 1..n |-> sent + i]
    <3>3. c \in Seq(Byte) /\ Len(c) = n
      <4>1. sent \in Nat /\ n \in Nat /\ sent + n <= MaxBytes
        BY <2>0, <3>2, TransportAssumption
      <4> QED BY <4>1, RunIsBytes
    <3>4. OnTheWay' = OnTheWay \o c
      BY <3>2
    <3> HIDE DEF c, w
    <3>5. Len(OnTheWay) < Len(OnTheWay') /\ SubSeq(OnTheWay', 1, Len(OnTheWay)) = OnTheWay
      BY <2>0, <3>3, <3>4
    <3>6. Len(OnTheWay') <= MaxBytes
      <4>1. PICK m \in 0..sent' : out' \o OnTheWay' = FirstBytes(m)
        BY <1>2 DEF PathInv, StreamInv
      <4> DEFINE a == out'
                 b == OnTheWay'
      <4>2. a \in Seq(Byte) /\ b \in Seq(Byte) /\ a \o b = FirstBytes(m)
        BY <2>1, <4>1
      <4>3. m \in 0..MaxBytes
        BY <2>1, TransportAssumption
      <4> HIDE DEF a, b
      <4>4. Len(a) + Len(b) = m
        BY <4>2, <4>3, FirstPrefix
      <4>5. Len(b) <= MaxBytes
        BY <4>2, <4>3, <4>4, TransportAssumption
      <4> QED BY <4>5 DEF b
    <3> QED BY <3>1, <3>5, <3>6 DEF P!Accept, w
  <2>3. CASE Delivered
    <3>1. w' = w
      BY <2>3 DEF Delivered, Running
    <3>2. PICK d \in Seq(Byte) : d # <<>> /\ OnTheWay = d \o OnTheWay'
      BY <2>3 DEF Delivered
    <3> DEFINE q == OnTheWay
               p == OnTheWay'
    <3>3. q \in Seq(Byte) /\ p \in Seq(Byte) /\ q = d \o p
      BY <2>0, <2>1, <3>2
    <3> HIDE DEF q, p, w
    <3>4. Len(d) \in 1..Len(q) /\ p = SubSeq(q, Len(d) + 1, Len(q))
      BY <3>2, <3>3
    <3> QED BY <3>1, <3>4 DEF P!Deliver, q, p, w
  <2>4. CASE Moved
    <3>1. OnTheWay' = OnTheWay /\ w \in {"run", "done"} /\ (w' = w \/ w' = "done")
      BY <2>4 DEF Moved, Running
    <3>2. CASE w' = w
      BY <3>1, <3>2
    <3>3. CASE w' = "done"
      <4>1. Len(OnTheWay) \in 0..Len(OnTheWay) /\ OnTheWay' = SubSeq(OnTheWay, 1, Len(OnTheWay))
        BY <2>0, <3>1, SubSeqFull
      <4> QED BY <3>3, <4>1 DEF P!End
    <3> QED BY <3>1, <3>2, <3>3
  <2>5. CASE Lost
    <3>1. w' = "done"
      BY <2>5 DEF Lost, Running
    <3>2. PICK r \in Seq(Byte) : OnTheWay = OnTheWay' \o r
      BY <2>5 DEF Lost
    <3> DEFINE q == OnTheWay
               p == OnTheWay'
    <3>3. q \in Seq(Byte) /\ p \in Seq(Byte) /\ q = p \o r
      BY <2>0, <2>1, <3>2
    <3> HIDE DEF q, p, w
    <3>4. Len(p) \in 0..Len(q) /\ p = SubSeq(q, 1, Len(p))
      BY <3>3
    <3> QED BY <3>1, <3>4 DEF P!End, q, p, w
  <2> QED BY <1>2, <2>2, <2>3, <2>4, <2>5 DEF Outcome
<1>3. ASSUME UNCHANGED vars PROVE OnTheWay' = OnTheWay /\ w' = w
  BY <1>3 DEF vars, transportVars, writeVars, writerVars, OnTheWay, Open, Pending, Travelling
<1>4. PathInv /\ PathInv' /\ [Next]_vars => [Step]_(P!pipeVars)
  <2> SUFFICES ASSUME PathInv, PathInv', [Next]_vars
               PROVE  Step \/ P!pipeVars' = P!pipeVars
    OBVIOUS
  <2>1. Step \/ (OnTheWay' = OnTheWay /\ w' = w)
    <3>1. CASE Next
      BY <1>2, <3>1, NextOutcome
    <3>2. CASE UNCHANGED vars
      BY <1>3, <3>2
    <3> QED BY <3>1, <3>2
  <2> HIDE DEF Step
  <2> QED BY <2>1 DEF P!pipeVars
<1> QED BY <1>1, <1>4, PathInvariant, PTL DEF Spec, PathIsPipe, P!PipeSpec
=============================================================================
