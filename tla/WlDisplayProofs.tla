--------------------------- MODULE WlDisplayProofs ---------------------------
(***************************************************************************)
(* Theorems about WlDisplay for any compositors, rings and interleavings of  *)
(* their threads with the dispatch thread.                                   *)
(*                                                                           *)
(* What many events do to the client is proved by induction over the events, *)
(* in the form WFMin gives.                                                   *)
(***************************************************************************)
EXTENDS WlDisplay, FiniteSetTheorems, TLAPS

LEMMA CountingUp ==
  ASSUME NEW S, 0 \in S, \A n \in Nat : n \in S => n + 1 \in S
  PROVE  Nat \subseteq S
<1> DEFINE Less == OpToRel(<, Nat)
           T == Nat \ S
<1>1. IsWellFoundedOn(Less, Nat)
  BY NatLessThanWellFounded, Zenon
<1>2. \A x, y \in Nat : x < y => <<x, y>> \in Less
  BY DEF OpToRel
<1> HIDE DEF Less
<1>3. SUFFICES ASSUME T # {}
               PROVE  FALSE
  OBVIOUS
<1>4. PICK x \in T : \A y \in T : ~(<<y, x>> \in Less)
  <2>1. T \subseteq Nat
    OBVIOUS
  <2>2. QED
    BY <1>1, <1>3, <2>1, WFMin
<1>5. x \in Nat /\ x # 0 /\ x - 1 \in Nat /\ x - 1 < x
  OBVIOUS
<1>6. x - 1 \in S
  BY <1>2, <1>4, <1>5
<1>7. x - 1 + 1 = x
  BY <1>5
<1>8. QED
  BY <1>4, <1>5, <1>6, <1>7

LEMMA LeastOf ==
  ASSUME NEW S \in SUBSET Nat, S # {}
  PROVE  Min(S) \in S
<1> DEFINE Less == OpToRel(<, Nat)
<1>1. IsWellFoundedOn(Less, Nat)
  BY NatLessThanWellFounded, Zenon
<1>2. \A x, y \in Nat : x < y => <<x, y>> \in Less
  BY DEF OpToRel
<1> HIDE DEF Less
<1>3. PICK x \in S : \A y \in S : ~(<<y, x>> \in Less)
  BY <1>1, WFMin
<1>4. ASSUME NEW y \in S PROVE x =< y
  <2>1. x \in Nat /\ y \in Nat /\ ~(y < x)
    BY <1>2, <1>3
  <2>2. QED
    BY <2>1
<1>5. QED
  BY <1>3, <1>4 DEF Min

-----------------------------------------------------------------------------
(* Sequences and what is in them.                                            *)

LEMMA RangeOfTwo ==
  ASSUME NEW S, NEW s \in Seq(S), NEW t \in Seq(S)
  PROVE  s \o t \in Seq(S) /\ Range(s \o t) = Range(s) \cup Range(t)
<1>1. /\ s \o t \in Seq(S) /\ DOMAIN s = 1..Len(s) /\ DOMAIN t = 1..Len(t)
      /\ DOMAIN (s \o t) = 1..(Len(s) + Len(t)) /\ Len(s) \in Nat /\ Len(t) \in Nat
      /\ \A k \in 1..Len(s) : (s \o t)[k] = s[k]
      /\ \A k \in 1..Len(t) : (s \o t)[Len(s) + k] = t[k]
  OBVIOUS
<1>2. ASSUME NEW k \in 1..(Len(s) + Len(t))
      PROVE  (s \o t)[k] \in Range(s) \cup Range(t)
  <2>1. CASE k <= Len(s)
    BY <1>1, <2>1 DEF Range
  <2>2. CASE k > Len(s)
    <3>1. k - Len(s) \in 1..Len(t) /\ Len(s) + (k - Len(s)) = k
      BY <1>1, <2>2
    <3>2. (s \o t)[k] = t[k - Len(s)]
      BY <1>1, <3>1
    <3>3. QED
      BY <1>1, <3>1, <3>2 DEF Range
  <2>3. QED
    BY <1>1, <2>1, <2>2
<1>3. \A k \in 1..Len(s) : s[k] \in Range(s \o t)
  <2>1. TAKE k \in 1..Len(s)
  <2>2. k \in DOMAIN (s \o t) /\ (s \o t)[k] = s[k]
    BY <1>1
  <2>3. QED
    BY <2>2 DEF Range
<1>4. \A k \in 1..Len(t) : t[k] \in Range(s \o t)
  <2>1. TAKE k \in 1..Len(t)
  <2>2. Len(s) + k \in DOMAIN (s \o t) /\ (s \o t)[Len(s) + k] = t[k]
    BY <1>1
  <2>3. QED
    BY <2>2 DEF Range
<1>5. Range(s) \cup Range(t) \subseteq Range(s \o t)
  BY <1>1, <1>3, <1>4 DEF Range
<1>6. Range(s \o t) \subseteq Range(s) \cup Range(t)
  BY <1>1, <1>2 DEF Range
<1>7. QED
  BY <1>1, <1>5, <1>6

LEMMA RangeOfTail ==
  ASSUME NEW S, NEW s \in Seq(S), s # <<>>
  PROVE  /\ Head(s) \in S /\ Tail(s) \in Seq(S)
         /\ Range(s) = {Head(s)} \cup Range(Tail(s))
         /\ \A k \in DOMAIN Tail(s) : k + 1 \in DOMAIN s /\ Tail(s)[k] = s[k + 1]
<1>1. /\ Len(s) \in Nat /\ Len(s) > 0 /\ DOMAIN s = 1..Len(s) /\ Head(s) = s[1]
      /\ Tail(s) \in Seq(S) /\ DOMAIN Tail(s) = 1..(Len(s) - 1)
      /\ \A k \in 1..(Len(s) - 1) : Tail(s)[k] = s[k + 1]
  OBVIOUS
<1>2. ASSUME NEW k \in 1..Len(s)
      PROVE  s[k] \in {Head(s)} \cup Range(Tail(s))
  <2>1. CASE k = 1
    BY <1>1, <2>1
  <2>2. CASE k # 1
    <3>1. k - 1 \in 1..(Len(s) - 1) /\ k - 1 + 1 = k
      BY <1>1, <2>2
    <3>2. Tail(s)[k - 1] = s[k]
      BY <1>1, <3>1
    <3>3. QED
      BY <1>1, <3>1, <3>2 DEF Range
  <2>3. QED
    BY <2>1, <2>2
<1>3. Head(s) \in Range(s)
  BY <1>1 DEF Range
<1>4. \A k \in 1..(Len(s) - 1) : k + 1 \in 1..Len(s) /\ Tail(s)[k] = s[k + 1]
  BY <1>1
<1>5. Range(Tail(s)) \subseteq Range(s)
  BY <1>1, <1>4 DEF Range
<1>6. Range(s) \subseteq {Head(s)} \cup Range(Tail(s))
  BY <1>1, <1>2 DEF Range
<1>7. QED
  BY <1>1, <1>3, <1>4, <1>5, <1>6

LEMMA RangeOfOne == ASSUME NEW S, NEW x \in S PROVE <<x>> \in Seq(S) /\ Range(<<x>>) = {x}
BY DEF Range

LEMMA RangeOfLast ==
  ASSUME NEW S, NEW s \in Seq(S), NEW x \in S
  PROVE  /\ Append(s, x) \in Seq(S) /\ Range(Append(s, x)) = Range(s) \cup {x}
<1>1. Append(s, x) = s \o <<x>>
  OBVIOUS
<1>2. Append(s, x) \in Seq(S)
  OBVIOUS
<1>3. <<x>> \in Seq(S) /\ Range(<<x>>) = {x}
  BY RangeOfOne
<1> DEFINE t == <<x>>
<1>4. Range(s \o t) = Range(s) \cup Range(t)
  <2>1. t \in Seq(S)
    BY <1>3
  <2> HIDE DEF t
  <2>2. QED
    BY <2>1, RangeOfTwo
<1>5. QED
  BY <1>1, <1>2, <1>3, <1>4

LEMMA RangeIn == ASSUME NEW S, NEW s \in Seq(S) PROVE Range(s) \subseteq S
BY DEF Range

\* What the compositor announces first: everything it offers.
LEMMA Announced ==
  ASSUME NEW S, IsFiniteSet(S)
  PROVE  /\ Cardinality(S) \in Nat /\ SetToSeq(S) \in [1..Cardinality(S) -> S]
         /\ \A x \in S : \E k \in 1..Cardinality(S) : SetToSeq(S)[k] = x
<1> DEFINE n == Cardinality(S)
           f == SetToSeq(S)
<1>1. n \in Nat /\ ExistsBijection(1..n, S)
  BY FS_CardinalityType
<1>2. \E g \in [1..n -> S] : IsInjective(g)
  BY <1>1 DEF ExistsBijection, Bijection, Injection
<1>3. f \in [1..n -> S] /\ IsInjective(f)
  BY <1>2 DEF SetToSeq
<1>4. f \in Injection(1..n, S)
  BY <1>3 DEF Injection
<1>5. IsFiniteSet(1..n) /\ Cardinality(1..n) = n
  BY <1>1, FS_Interval
<1> HIDE DEF n, f
<1>6. f \in Surjection(1..n, S)
  BY <1>4, <1>5, FS_Injection DEF n
<1>7. QED
  BY <1>1, <1>3, <1>6 DEF Surjection, n, f

-----------------------------------------------------------------------------
(* What an event does to the client, and what many do.                       *)

Things == ItfSet \cup Rings \cup {"main", "seat"}
Registry == <<"registry", "main">>
Requests == {"bind", "auth", "sync", "toplevel"} \X Things
Globals == {"global"} \X ItfSet
Late == {"device", "format", "modifiers", "authenticated", "keyboard", "configure", "done"} \X Things
Events == Globals \cup Late
Client == [made : SUBSET (ItfSet \cup {"keyboard"}), formats : SUBSET Things, devices : SUBSET Things,
           auth : SUBSET Things, heard : SUBSET Rings, done : SUBSET Things, acked : SUBSET Things,
           out : Seq(Requests)]

\* What is learnt stays learnt.
Grows(c, d) == /\ c.made \subseteq d.made /\ c.formats \subseteq d.formats
               /\ c.devices \subseteq d.devices /\ c.done \subseteq d.done

LEMMA SendStep ==
  ASSUME NEW c \in Client, NEW q \in Requests
  PROVE  /\ Send(c, q) \in Client /\ Send(c, q) = [c EXCEPT !.out = Append(c.out, q)]
         /\ Range(Send(c, q).out) = Range(c.out) \cup {q}
<1>1. Append(c.out, q) \in Seq(Requests) /\ Range(Append(c.out, q)) = Range(c.out) \cup {q}
  BY RangeOfLast DEF Client
<1>2. Send(c, q).out = Append(c.out, q)
  BY DEF Send, Client
<1>3. Send(c, q) \in Client
  BY <1>1 DEF Send, Client
<1>4. QED
  BY <1>1, <1>2, <1>3 DEF Send

LEMMA GlobalStep ==
  ASSUME NEW c \in Client, NEW e \in Globals
  PROVE  /\ Effect(c, e) \in Client /\ Grows(c, Effect(c, e)) /\ Effect(c, e).done = c.done
         /\ Effect(c, e).heard = c.heard
         /\ (world.noZCopy /\ e[2] \in Range(ZCopy)) \/ e[2] \in Effect(c, e).made
         /\ (\A i \in c.made \cap Answered : <<"bind", i>> \in Range(c.out)) =>
              \A i \in Effect(c, e).made \cap Answered : <<"bind", i>> \in Range(Effect(c, e).out)
         /\ ("dmabuf" \in c.made => "dmabuf" \in c.devices) =>
              ("dmabuf" \in Effect(c, e).made => "dmabuf" \in Effect(c, e).devices)
         /\ (\A q \in Range(c.out) : q[1] = "bind") => \A q \in Range(Effect(c, e).out) : q[1] = "bind"
<1> DEFINE i == e[2]
           d == Effect(c, e)
<1>1. i \in ItfSet /\ d = registryHandler(c, i)
  BY DEF Globals, Effect
<1>2. CASE world.noZCopy /\ i \in Range(ZCopy)
  <2>1. d = c
    BY <1>1, <1>2 DEF registryHandler
  <2>2. QED
    BY <2>1, <1>2 DEF Grows
<1>3. CASE ~(world.noZCopy /\ i \in Range(ZCopy))
  <2>1. <<"bind", i>> \in Requests
    BY <1>1 DEF Requests, Things
  <2>2. Append(c.out, <<"bind", i>>) \in Seq(Requests)
        /\ Range(Append(c.out, <<"bind", i>>)) = Range(c.out) \cup {<<"bind", i>>}
    BY <2>1, RangeOfLast, SMTT(30) DEF Client
  <2>3. d = [c EXCEPT !.made = @ \cup {i},
                      !.devices = IF i = "dmabuf" THEN @ \cup {i} ELSE @,
                      !.out = IF i \in Answered THEN Append(@, <<"bind", i>>) ELSE @]
    BY <1>1, <1>3 DEF registryHandler
  <2>4. i \in Things
    BY <1>1 DEF Things
  <2>5. /\ d.made = c.made \cup {i} /\ d.devices = (IF i = "dmabuf" THEN c.devices \cup {i} ELSE c.devices)
        /\ d.out = IF i \in Answered THEN Append(c.out, <<"bind", i>>) ELSE c.out
        /\ d.formats = c.formats /\ d.done = c.done /\ d.heard = c.heard
    BY <2>3 DEF Client
  <2> DEFINE made == c.made \cup {i}
             devices == IF i = "dmabuf" THEN c.devices \cup {i} ELSE c.devices
             out == IF i \in Answered THEN Append(c.out, <<"bind", i>>) ELSE c.out
  <2>6. d \in Client
    <3>1. made \in SUBSET (ItfSet \cup {"keyboard"}) /\ devices \in SUBSET Things /\ out \in Seq(Requests)
      BY <1>1, <2>2, <2>4 DEF Client
    <3>2. d = [c EXCEPT !.made = made, !.devices = devices, !.out = out]
      BY <2>3
    <3> HIDE DEF made, devices, out, d
    <3>3. QED
      BY <3>1, <3>2 DEF Client
  <2> HIDE DEF d
  <2>7. QED
    BY <1>3, <2>2, <2>5, <2>6 DEF Grows, d
<1>4. QED
  BY <1>2, <1>3

LEMMA LateStep ==
  ASSUME NEW c \in Client, NEW e \in Late
  PROVE  /\ Effect(c, e) \in Client /\ Grows(c, Effect(c, e)) /\ Effect(c, e).heard = c.heard
         /\ Effect(c, e).made \subseteq c.made \cup {"keyboard"}
         /\ Effect(c, e).done \subseteq c.done \cup (IF e[1] = "done" THEN {e[2]} ELSE {})
         /\ \A q \in Range(Effect(c, e).out) : q \in Range(c.out) \/ q[1] = "auth"
         /\ e[1] = "format" => e[2] \in Effect(c, e).formats
         /\ e[1] = "device" => e[2] \in Effect(c, e).devices
         /\ e[1] = "keyboard" => "keyboard" \in Effect(c, e).made
<1> DEFINE i == e[2]
           d == Effect(c, e)
<1>1. i \in Things
  BY DEF Late
<1>2. CASE e[1] = "device"
  <2> DEFINE b == [c EXCEPT !.devices = @ \cup {i}]
  <2>1. b \in Client /\ b.out = c.out
    BY <1>1 DEF Client
  <2>2. <<"auth", i>> \in Requests
    BY <1>1 DEF Requests
  <2>3. d = Send(b, <<"auth", i>>)
    BY <1>2 DEF Effect, onDevice
  <2>0. /\ b.made = c.made /\ b.formats = c.formats /\ b.done = c.done /\ b.heard = c.heard
        /\ b.devices = c.devices \cup {i}
    BY DEF Client
  <2> HIDE DEF b, d
  <2>4. d \in Client /\ d = [b EXCEPT !.out = Append(b.out, <<"auth", i>>)]
        /\ Range(d.out) = Range(c.out) \cup {<<"auth", i>>}
    BY <2>1, <2>2, <2>3, SendStep
  <2>5. d.made = c.made /\ d.formats = c.formats /\ d.done = c.done /\ d.devices = c.devices \cup {i}
        /\ d.heard = c.heard
    BY <2>0, <2>1, <2>4 DEF Client
  <2>6. QED
    BY <1>2, <2>4, <2>5 DEF Grows, d
<1>3. CASE e[1] = "format"
  <2>1. d = [c EXCEPT !.formats = @ \cup {i}]
    BY <1>3 DEF Effect, onFormat
  <2>2. d \in Client /\ d.made = c.made /\ d.formats = c.formats \cup {i} /\ d.done = c.done
        /\ d.devices = c.devices /\ d.out = c.out /\ d.heard = c.heard
    BY <1>1, <2>1 DEF Client
  <2> HIDE DEF d
  <2>3. QED
    BY <1>3, <2>2 DEF Grows, d
<1>4. CASE e[1] = "modifiers"
  <2>1. d = c
    BY <1>4 DEF Effect
  <2>2. QED
    BY <1>4, <2>1 DEF Grows
<1>5. CASE e[1] = "authenticated"
  <2>1. d = [c EXCEPT !.auth = @ \cup {i}]
    BY <1>5 DEF Effect, onAuthenticated
  <2>2. d \in Client /\ d.made = c.made /\ d.formats = c.formats /\ d.done = c.done
        /\ d.devices = c.devices /\ d.out = c.out /\ d.heard = c.heard
    BY <1>1, <2>1 DEF Client
  <2> HIDE DEF d
  <2>3. QED
    BY <1>5, <2>2 DEF Grows, d
<1>6. CASE e[1] = "keyboard"
  <2>1. d = IF "keyboard" \in c.made THEN c ELSE [c EXCEPT !.made = @ \cup {"keyboard"}]
    BY <1>6 DEF Effect, readCapabilities
  <2>2. d \in Client /\ d.made = c.made \cup {"keyboard"} /\ d.formats = c.formats /\ d.done = c.done
        /\ d.devices = c.devices /\ d.out = c.out /\ d.heard = c.heard
    BY <2>1 DEF Client
  <2> HIDE DEF d
  <2>3. QED
    BY <1>6, <2>2 DEF Grows, d
<1>7. CASE e[1] = "configure"
  <2>1. d = [c EXCEPT !.acked = @ \cup {i}]
    BY <1>7 DEF Effect, handleSurfaceConfiguration
  <2>2. d \in Client /\ d.made = c.made /\ d.formats = c.formats /\ d.done = c.done
        /\ d.devices = c.devices /\ d.out = c.out /\ d.heard = c.heard
    BY <1>1, <2>1 DEF Client
  <2> HIDE DEF d
  <2>3. QED
    BY <1>7, <2>2 DEF Grows, d
<1>8. CASE e[1] = "done"
  <2>1. d = [c EXCEPT !.done = @ \cup {i}]
    BY <1>8 DEF Effect
  <2>2. d \in Client /\ d.made = c.made /\ d.formats = c.formats /\ d.done = c.done \cup {i}
        /\ d.devices = c.devices /\ d.out = c.out /\ d.heard = c.heard
    BY <1>1, <2>1 DEF Client
  <2> HIDE DEF d
  <2>3. QED
    BY <1>8, <2>2 DEF Grows, d
<1>9. QED
  BY <1>2, <1>3, <1>4, <1>5, <1>6, <1>7, <1>8 DEF Late

\* Effects() handles one event after the other.
LEMMA EffectsAre ==
  ASSUME NEW c, NEW E, NEW events \in Seq(E)
  PROVE  \E after : /\ after[0] = c /\ Effects(c, events) = after[Len(events)]
                    /\ \A i \in 1..Len(events) : after[i] = Effect(after[i - 1], events[i])
<1> DEFINE n == Len(events)
           F(h, m) == [i \in 0..m |-> IF i = 0 THEN c ELSE Effect(h[i - 1], events[i])]
           K == {m \in Nat : \E h : h = F(h, m)}
<1>1. 0 \in K
  <2> DEFINE h == [i \in 0..0 |-> c]
  <2>1. F(h, 0) = h
    OBVIOUS
  <2>2. QED
    BY <2>1
<1>2. ASSUME NEW m \in Nat, m \in K
      PROVE  m + 1 \in K
  <2>1. PICK h : h = F(h, m)
    BY <1>2
  <2> DEFINE g == [i \in 0..(m + 1) |-> IF i = m + 1 THEN Effect(h[m], events[m + 1]) ELSE h[i]]
  <2>2. ASSUME NEW i \in 0..(m + 1)
        PROVE  g[i] = IF i = 0 THEN c ELSE Effect(g[i - 1], events[i])
    <3>1. CASE i = m + 1
      <4>1. m \in 0..(m + 1) /\ m # m + 1 /\ i # 0 /\ i - 1 = m
        BY <3>1
      <4>2. g[i - 1] = h[m]
        BY <4>1
      <4>3. g[i] = Effect(h[m], events[i])
        BY <3>1
      <4>4. QED
        BY <4>1, <4>2, <4>3
    <3>2. CASE i # m + 1
      <4>1. i \in 0..m /\ i \in 0..(m + 1) /\ (i # 0 => i - 1 \in 0..m /\ i - 1 \in 0..(m + 1) /\ i - 1 # m + 1)
        BY <3>2
      <4>2. g[i] = h[i] /\ (i # 0 => g[i - 1] = h[i - 1])
        BY <3>2, <4>1
      <4>3. h[i] = IF i = 0 THEN c ELSE Effect(h[i - 1], events[i])
        <5>1. F(h, m)[i] = IF i = 0 THEN c ELSE Effect(h[i - 1], events[i])
          BY <4>1
        <5> HIDE DEF F
        <5>2. QED
          BY <5>1, <2>1
      <4> HIDE DEF g
      <4>4. QED
        BY <4>2, <4>3
    <3>3. QED
      BY <3>1, <3>2
  <2>3. g = [i \in 0..(m + 1) |-> g[i]]
    OBVIOUS
  <2> HIDE DEF g
  <2>4. g = F(g, m + 1)
    BY <2>2, <2>3
  <2> HIDE DEF F
  <2>5. QED
    BY <2>4
<1> HIDE DEF K
<1>3. n \in K
  BY <1>1, <1>2, CountingUp
<1>4. \E h : h = F(h, n)
  BY <1>3 DEF K
<1> DEFINE after == CHOOSE h : h = F(h, n)
<1>5. after = F(after, n)
  BY <1>4
<1>6. Effects(c, events) = after[n]
  BY DEF Effects
<1>7. /\ after[0] = c
      /\ \A i \in 1..n : after[i] = Effect(after[i - 1], events[i])
  <2> HIDE DEF after
  <2>1. \A i \in 0..n : after[i] = IF i = 0 THEN c ELSE Effect(after[i - 1], events[i])
    <3>1. TAKE i \in 0..n
    <3>2. F(after, n)[i] = IF i = 0 THEN c ELSE Effect(after[i - 1], events[i])
      OBVIOUS
    <3> HIDE DEF F
    <3>3. QED
      BY <3>2, <1>5
  <2>2. n \in Nat
    OBVIOUS
  <2>3. QED
    BY <2>1, <2>2
<1> HIDE DEF after
<1>8. QED
  BY <1>6, <1>7

\* What every event keeps, many keep; what one of them brings about, and every
\* other keeps, is there in the end.
LEMMA EffectsKeep ==
  ASSUME NEW E, NEW S, NEW events \in Seq(E), NEW c \in S,
         \A d \in S, e \in E : Effect(d, e) \in S
  PROVE  Effects(c, events) \in S
<1>1. PICK after : /\ after[0] = c /\ Effects(c, events) = after[Len(events)]
                   /\ \A i \in 1..Len(events) : after[i] = Effect(after[i - 1], events[i])
  BY EffectsAre
<1> DEFINE K == {m \in Nat : m <= Len(events) => after[m] \in S}
<1>2. 0 \in K
  BY <1>1
<1>3. ASSUME NEW m \in Nat, m \in K
      PROVE  m + 1 \in K
  <2>1. CASE m + 1 <= Len(events)
    <3>1. m + 1 \in 1..Len(events) /\ m <= Len(events) /\ m + 1 - 1 = m
      BY <2>1
    <3>2. after[m] \in S /\ events[m + 1] \in E
      BY <1>3, <3>1
    <3>3. after[m + 1] = Effect(after[m], events[m + 1])
      BY <1>1, <3>1
    <3>4. QED
      BY <3>2, <3>3
  <2>2. CASE ~(m + 1 <= Len(events))
    BY <2>2
  <2>3. QED
    BY <2>1, <2>2
<1> HIDE DEF K
<1>4. Len(events) \in K
  BY <1>2, <1>3, CountingUp
<1>5. QED
  BY <1>1, <1>4 DEF K

LEMMA EffectsBring ==
  ASSUME NEW E, NEW S, NEW T, NEW events \in Seq(E), NEW c \in S,
         \A d \in S, e \in E : Effect(d, e) \in S /\ (d \in T => Effect(d, e) \in T),
         \E k \in 1..Len(events) : \A d \in S : Effect(d, events[k]) \in T
  PROVE  Effects(c, events) \in T
<1>0. \E after : /\ after[0] = c /\ Effects(c, events) = after[Len(events)]
                  /\ \A i \in 1..Len(events) : after[i] = Effect(after[i - 1], events[i])
  BY ONLY EffectsAre, events \in Seq(E)
<1>1. PICK after : /\ after[0] = c /\ Effects(c, events) = after[Len(events)]
                   /\ \A i \in 1..Len(events) : after[i] = Effect(after[i - 1], events[i])
  BY ONLY <1>0
<1>2. PICK k \in 1..Len(events) : \A d \in S : Effect(d, events[k]) \in T
  OBVIOUS
<1> DEFINE K == {m \in Nat : m <= Len(events) => after[m] \in S /\ (k <= m => after[m] \in T)}
<1>3. 0 \in K
  BY <1>1
<1>4. ASSUME NEW m \in Nat, m \in K
      PROVE  m + 1 \in K
  <2>1. CASE m + 1 <= Len(events)
    <3>1. m + 1 \in 1..Len(events) /\ m <= Len(events) /\ m + 1 - 1 = m
      BY <2>1
    <3>2. after[m] \in S /\ events[m + 1] \in E /\ (k <= m => after[m] \in T)
      BY <1>4, <3>1
    <3>3. after[m + 1] = Effect(after[m], events[m + 1])
      BY <1>1, <3>1
    <3>4. after[m + 1] \in S
      BY <3>2, <3>3
    <3>5. k <= m + 1 => k = m + 1 \/ k <= m
      OBVIOUS
    <3>6. k = m + 1 => after[m + 1] \in T
      BY <1>2, <3>2, <3>3
    <3>7. k <= m => after[m + 1] \in T
      BY <3>2, <3>3
    <3>8. QED
      BY <3>4, <3>5, <3>6, <3>7
  <2>2. CASE ~(m + 1 <= Len(events))
    BY <2>2
  <2>3. QED
    BY <2>1, <2>2
<1> HIDE DEF K
<1>5. Len(events) \in K
  BY <1>3, <1>4, CountingUp
<1>6. QED
  BY <1>1, <1>2, <1>5 DEF K

LEMMA OneEvent ==
  ASSUME NEW c \in Client, NEW e \in Events
  PROVE  /\ Effect(c, e) \in Client /\ Grows(c, Effect(c, e))
         /\ Effect(c, e).done \subseteq c.done \cup (IF e[1] = "done" THEN {e[2]} ELSE {})
         /\ e[1] = "format" => e[2] \in Effect(c, e).formats
         /\ e[1] = "device" => e[2] \in Effect(c, e).devices
         /\ e[1] = "keyboard" => "keyboard" \in Effect(c, e).made
         /\ e[1] = "global" => (world.noZCopy /\ e[2] \in Range(ZCopy)) \/ e[2] \in Effect(c, e).made
<1>1. CASE e \in Globals
  <2>1. e[1] = "global"
    BY <1>1 DEF Globals
  <2>2. QED
    BY <1>1, <2>1, GlobalStep
<1>2. CASE e \in Late
  <2>1. e[1] # "global"
    BY <1>2 DEF Late
  <2>2. QED
    BY <1>2, <2>1, LateStep
<1>3. QED
  BY <1>1, <1>2 DEF Events

LEMMA ManyEvents ==
  ASSUME NEW c \in Client, NEW events \in Seq(Events)
  PROVE  /\ Effects(c, events) \in Client /\ Grows(c, Effects(c, events))
         /\ "main" \in Effects(c, events).done =>
              "main" \in c.done \/ <<"done", "main">> \in Range(events)
         /\ \A i \in Things : <<"format", i>> \in Range(events) => i \in Effects(c, events).formats
         /\ \A i \in Things : <<"device", i>> \in Range(events) => i \in Effects(c, events).devices
         /\ \A i \in Things : <<"keyboard", i>> \in Range(events) => "keyboard" \in Effects(c, events).made
         /\ \A i \in ItfSet : <<"global", i>> \in Range(events) =>
               (world.noZCopy /\ i \in Range(ZCopy)) \/ i \in Effects(c, events).made
<1> DEFINE E == Range(events)
           S == {d \in Client : /\ Grows(c, d)
                                /\ "main" \in d.done => "main" \in c.done \/ <<"done", "main">> \in E}
           d0 == Effects(c, events)
<1>1. E \subseteq Events /\ events \in Seq(E) /\ DOMAIN events = 1..Len(events)
  <2>1. /\ Len(events) \in Nat /\ events \in [1..Len(events) -> Events] /\ DOMAIN events = 1..Len(events)
    OBVIOUS
  <2>2. \A k \in 1..Len(events) : events[k] \in E
    BY <2>1 DEF Range
  <2>3. events \in [1..Len(events) -> E]
    BY <2>1, <2>2
  <2>4. E \subseteq Events
    BY RangeIn
  <2> HIDE DEF E
  <2>5. QED
    BY <2>1, <2>3, <2>4
<1>2. c \in S
  BY DEF Grows
<1>3. ASSUME NEW d \in S, NEW e \in E
      PROVE  Effect(d, e) \in S
  <2> DEFINE f == Effect(d, e)
  <2>1. d \in Client /\ e \in Events
    BY <1>1
  <2>2. /\ f \in Client /\ Grows(d, f)
        /\ f.done \subseteq d.done \cup (IF e[1] = "done" THEN {e[2]} ELSE {})
    BY <2>1, OneEvent
  <2>3. e[1] = "done" /\ e[2] = "main" => <<"done", "main">> \in E
    <3>1. e = <<e[1], e[2]>>
      BY <2>1 DEF Events, Late, Globals
    <3>2. QED
      BY <3>1
  <2> HIDE DEF f, E
  <2>4. Grows(c, f)
    BY <2>2 DEF Grows
  <2>5. "main" \in f.done => "main" \in c.done \/ <<"done", "main">> \in E
    BY <2>2, <2>3
  <2>6. QED
    BY <2>2, <2>4, <2>5 DEF f
<1>4. d0 \in S
  <2> HIDE DEF S, E
  <2>1. QED
    BY <1>1, <1>2, <1>3, EffectsKeep
<1>5. ASSUME NEW T, NEW w, w \in E,
             \A d \in S, e \in E : d \in T => Effect(d, e) \in T,
             \A d \in S : Effect(d, w) \in T
      PROVE  d0 \in T
  <2>1. \E k \in 1..Len(events) : events[k] = w
    BY <1>1, <1>5 DEF Range
  <2> HIDE DEF S, E
  <2>2. \E k \in 1..Len(events) : \A d \in S : Effect(d, events[k]) \in T
    BY <2>1, <1>5
  <2>3. QED
    BY <1>1, <1>2, <1>3, <1>5, <2>2, EffectsBring
<1>6. ASSUME NEW d \in S, NEW e \in E
      PROVE  /\ Effect(d, e) \in Client /\ Grows(d, Effect(d, e))
             /\ e[1] = "format" => e[2] \in Effect(d, e).formats
             /\ e[1] = "device" => e[2] \in Effect(d, e).devices
             /\ e[1] = "keyboard" => "keyboard" \in Effect(d, e).made
             /\ e[1] = "global" => (world.noZCopy /\ e[2] \in Range(ZCopy)) \/ e[2] \in Effect(d, e).made
  BY <1>1, OneEvent
<1>7. ASSUME NEW i \in Things, <<"format", i>> \in E
      PROVE  i \in d0.formats
  <2> DEFINE T == {d \in Client : i \in d.formats}
             w == <<"format", i>>
  <2>1. w \in E /\ w[1] = "format" /\ w[2] = i
    BY <1>7
  <2> HIDE DEF S, E, w
  <2>2. \A d \in S, e \in E : d \in T => Effect(d, e) \in T
    BY <1>6 DEF Grows
  <2>3. \A d \in S : Effect(d, w) \in T
    BY <1>6, <2>1
  <2> HIDE DEF T, d0
  <2>4. d0 \in T
    BY <1>5, <2>1, <2>2, <2>3
  <2>5. QED
    BY <2>4 DEF T
<1>8. ASSUME NEW i \in Things, <<"device", i>> \in E
      PROVE  i \in d0.devices
  <2> DEFINE T == {d \in Client : i \in d.devices}
             w == <<"device", i>>
  <2>1. w \in E /\ w[1] = "device" /\ w[2] = i
    BY <1>8
  <2> HIDE DEF S, E, w
  <2>2. \A d \in S, e \in E : d \in T => Effect(d, e) \in T
    BY <1>6 DEF Grows
  <2>3. \A d \in S : Effect(d, w) \in T
    BY <1>6, <2>1
  <2> HIDE DEF T, d0
  <2>4. d0 \in T
    BY <1>5, <2>1, <2>2, <2>3
  <2>5. QED
    BY <2>4 DEF T
<1>9. ASSUME NEW i \in Things, <<"keyboard", i>> \in E
      PROVE  "keyboard" \in d0.made
  <2> DEFINE T == {d \in Client : "keyboard" \in d.made}
             w == <<"keyboard", i>>
  <2>1. w \in E /\ w[1] = "keyboard" /\ w[2] = i
    BY <1>9
  <2> HIDE DEF S, E, w
  <2>2. \A d \in S, e \in E : d \in T => Effect(d, e) \in T
    BY <1>6 DEF Grows
  <2>3. \A d \in S : Effect(d, w) \in T
    BY <1>6, <2>1
  <2> HIDE DEF T, d0
  <2>4. d0 \in T
    BY <1>5, <2>1, <2>2, <2>3
  <2>5. QED
    BY <2>4 DEF T
<1>10. ASSUME NEW i \in ItfSet, <<"global", i>> \in E
       PROVE  (world.noZCopy /\ i \in Range(ZCopy)) \/ i \in d0.made
  <2> DEFINE kept == world.noZCopy /\ i \in Range(ZCopy)
             T == {d \in Client : kept \/ i \in d.made}
             w == <<"global", i>>
  <2>1. w \in E /\ w[1] = "global" /\ w[2] = i
    BY <1>10
  <2> HIDE DEF S, E, w
  <2>2. \A d \in S, e \in E : d \in T => Effect(d, e) \in T
    BY <1>6 DEF Grows
  <2>3. \A d \in S : Effect(d, w) \in T
    BY <1>6, <2>1
  <2> HIDE DEF T, d0
  <2>4. d0 \in T
    BY <1>5, <2>1, <2>2, <2>3
  <2>5. QED
    BY <2>4 DEF T
<1>11. QED
  BY <1>4, <1>7, <1>8, <1>9, <1>10

LEMMA ManyLate ==
  ASSUME NEW c \in Client, NEW events \in Seq(Late)
  PROVE  Effects(c, events).made \subseteq c.made \cup {"keyboard"}
<1> DEFINE S == {d \in Client : d.made \subseteq c.made \cup {"keyboard"}}
<1>1. c \in S
  OBVIOUS
<1>2. ASSUME NEW d \in S, NEW e \in Late
      PROVE  Effect(d, e) \in S
  BY LateStep
<1> HIDE DEF S
<1>3. Effects(c, events) \in S
  BY <1>1, <1>2, EffectsKeep
<1>4. QED
  BY <1>3 DEF S

LEMMA NoClientIs == NoClient \in Client /\ Range(NoClient.out) = {} /\ NoClient.made = {} /\ NoClient.done = {}
<1>1. <<>> \in Seq(Requests) /\ Range(<<>>) = {}
  BY DEF Range
<1>2. QED
  BY <1>1 DEF NoClient, Client

LEMMA ManyGlobals ==
  ASSUME NEW events \in Seq(Globals)
  PROVE  LET d == Effects(NoClient, events)
         IN  /\ d \in Client /\ d.done = {}
             /\ \A q \in Range(d.out) : q[1] = "bind"
             /\ \A i \in d.made \cap Answered : <<"bind", i>> \in Range(d.out)
             /\ "dmabuf" \in d.made => "dmabuf" \in d.devices
             /\ \A i \in ItfSet : <<"global", i>> \in Range(events) =>
                   (world.noZCopy /\ i \in Range(ZCopy)) \/ i \in d.made
<1> DEFINE S == {d \in Client : /\ d.done = {}
                                /\ \A q \in Range(d.out) : q[1] = "bind"
                                /\ \A i \in d.made \cap Answered : <<"bind", i>> \in Range(d.out)
                                /\ "dmabuf" \in d.made => "dmabuf" \in d.devices}
           d0 == Effects(NoClient, events)
<1>1. NoClient \in S
  BY NoClientIs
<1>2. ASSUME NEW d \in S, NEW e \in Globals
      PROVE  Effect(d, e) \in S
  BY GlobalStep
<1>3. d0 \in S
  <2> HIDE DEF S
  <2>1. QED
    BY <1>1, <1>2, EffectsKeep
<1>4. ASSUME NEW i \in ItfSet, <<"global", i>> \in Range(events)
      PROVE  (world.noZCopy /\ i \in Range(ZCopy)) \/ i \in d0.made
  <2> DEFINE T == {d \in Client : (world.noZCopy /\ i \in Range(ZCopy)) \/ i \in d.made}
  <2>1. PICK k \in 1..Len(events) : events[k] = <<"global", i>>
    BY <1>4 DEF Range
  <2>2. \A d \in S, e \in Globals : d \in T => Effect(d, e) \in T
    <3>1. TAKE d \in S, e \in Globals
    <3>2. Effect(d, e) \in Client /\ Grows(d, Effect(d, e))
      BY GlobalStep
    <3>3. QED
      BY <3>2 DEF Grows
  <2>3. \A d \in S : Effect(d, events[k]) \in T
    <3>1. TAKE d \in S
    <3> DEFINE e == events[k]
    <3>2. e \in Globals /\ e[2] = i
      BY <2>1
    <3> HIDE DEF e
    <3>3. Effect(d, e) \in Client /\ ((world.noZCopy /\ e[2] \in Range(ZCopy)) \/ e[2] \in Effect(d, e).made)
      BY <3>2, GlobalStep
    <3>4. QED
      BY <3>2, <3>3 DEF e
  <2> HIDE DEF S, T
  <2>4. \E j \in 1..Len(events) : \A d \in S : Effect(d, events[j]) \in T
    BY <2>3
  <2>5. d0 \in T
    BY <1>1, <1>2, <2>2, <2>4, EffectsBring
  <2>6. QED
    BY <2>5 DEF T
<1>5. QED
  BY <1>3, <1>4

-----------------------------------------------------------------------------
(* The invariant.                                                            *)

Zero == {"drm", "kms", "dmabuf"}
Before == main \in {"connect", "sync", "roundtrip", "ready", "failed"}
Asking == main \in {"sync", "roundtrip"}
After == main \notin {"connect", "sync", "roundtrip"}

\* What travels is of the kinds above, and a reader is in no handler.
Typed ==
  /\ TypeOK
  /\ client \in Client /\ inbox \in Seq(Late) /\ wire \in Seq(Events)
  /\ handling \in [Threads -> Late \cup {None}]
  /\ \A r \in Rings : r \in readers => handling[r] = None
  /\ world.had => plugged

\* The main thread is alone before Display::start(); the registry is asked for
\* first, and nothing is announced after the round trip.
Alone ==
  /\ Before => /\ dpc = "off" /\ readers = {} /\ denied = {} /\ inbox = <<>>
               /\ rpc = [r \in Rings |-> "new"] /\ handling = [t \in Threads |-> None]
               /\ con = [r \in Rings |-> None] /\ db = con /\ fb = con
  /\ main = "connect" => /\ client = NoClient
                         /\ \/ inq = <<Registry>> /\ wire = <<>>
                            \/ inq = <<>> /\ wire = AnswerTo(Registry)
  /\ main # "connect" => inq \in Seq(Requests)
  /\ After => wire \in Seq(Late)

\* Every choice of a class is the one that would be made now.
Chosen == \A r \in Rings : /\ con[r] \in {None, RoleOf}
                           /\ db[r] \in {None, DisplayBufferOf}
                           /\ fb[r] \in {None, db[r]}

\* What the client binds; a binding the compositor will see before the request of
\* the round trip; and an answer to it that is owed or on its way.
Real == IF world.noZCopy THEN world.offer \ Zero ELSE world.offer
Ahead(i) == \/ main = "sync" /\ <<"bind", i>> \in Range(client.out)
            \/ /\ <<"done", "main">> \notin Range(wire)
               /\ \E k \in DOMAIN inq :
                    /\ inq[k] = <<"bind", i>>
                    /\ \A j \in DOMAIN inq : inq[j] = <<"sync", "main">> => k < j
Owed(i, what) == Ahead(i) \/ <<what, i>> \in Range(wire)

\* The round trip ends behind the answers to the bindings of the first dispatch.
Asked ==
  ~Gone /\ Asking =>
    /\ first \subseteq client.made /\ "main" \notin client.done
    /\ \A i \in Real \ client.made : <<"global", i>> \in Range(wire)
    /\ world.whole => client.made \subseteq first \cup {"keyboard"} /\ wire \in Seq(Late)
    /\ main = "sync" => /\ inq = <<>> /\ \A q \in Range(client.out) : q[1] = "bind"
                        /\ <<"done", "main">> \notin Range(wire)
    /\ main = "roundtrip" => client.out = <<>>
    /\ \A i \in first \cap (Zero \cup {"shm"}) : Owed(i, "format") \/ i \in client.formats
    /\ \A i \in first \cap {"drm", "kms"} : Owed(i, "device") \/ i \in client.devices
    /\ "dmabuf" \in first => "dmabuf" \in client.devices
    /\ world.had /\ "seat" \in first => Owed("seat", "keyboard") \/ "keyboard" \in client.made

\* What may be refused: what came after the first dispatch.
Second == client.made \ (first \cup {"keyboard"})

Learnt ==
  ~Gone /\ After =>
    /\ Real \subseteq client.made /\ first \subseteq client.made /\ denied \subseteq Second
    /\ world.whole => Second = {}
    /\ first \cap (Zero \cup {"shm"}) \subseteq client.formats
    /\ first \cap Zero \subseteq client.devices
    /\ world.had /\ "seat" \in first => "keyboard" \in client.made

IInv == Typed /\ Alone /\ Chosen /\ Asked /\ Learnt

-----------------------------------------------------------------------------
(* What the classes are chosen by.                                           *)

LEMMA FirstIs ==
  ASSUME NEW S, NEW order \in Seq(S), NEW other
  PROVE  \/ FirstOf(order, other) = other /\ \A k \in DOMAIN order : order[k] \notin client.made
         \/ \E k \in DOMAIN order : FirstOf(order, other) = order[k] /\ order[k] \in client.made
<1> DEFINE made == {k \in DOMAIN order : order[k] \in client.made}
<1>1. FirstOf(order, other) = IF made = {} THEN other ELSE order[Min(made)]
  BY DEF FirstOf
<1>2. made \in SUBSET Nat
  OBVIOUS
<1>3. CASE made = {}
  BY <1>1, <1>3
<1>4. CASE made # {}
  <2>1. Min(made) \in made
    <3> HIDE DEF made
    <3>1. QED
      BY <1>2, <1>4, LeastOf
  <2>2. FirstOf(order, other) = order[Min(made)]
    BY <1>1, <1>4
  <2>3. QED
    BY <2>1, <2>2
<1>5. QED
  BY <1>3, <1>4

LEMMA Zeros == Range(ZCopy) = Zero
BY DEF Range, ZCopy, Zero

LEMMA Appended ==
  ASSUME NEW S, NEW s \in Seq(S), NEW x \in S
  PROVE  /\ Append(s, x) \in Seq(S) /\ Len(Append(s, x)) = Len(s) + 1
         /\ Append(s, x)[Len(s) + 1] = x /\ \A i \in 1..Len(s) : Append(s, x)[i] = s[i]
OBVIOUS

LEMMA SameSeq ==
  ASSUME NEW S, NEW s \in Seq(S), NEW t \in Seq(S), Len(s) = Len(t), \A i \in 1..Len(s) : s[i] = t[i]
  PROVE  s = t
OBVIOUS

LEMMA AppendFour ==
  ASSUME NEW a, NEW b, NEW c, NEW d
  PROVE  Append(<<a, b, c>>, d) = <<a, b, c, d>>
<1> DEFINE V == {a, b, c, d}
<1>1. <<a, b, c>> \in Seq(V) /\ Len(<<a, b, c>>) = 3 /\ d \in V /\ <<a, b, c, d>> \in Seq(V)
      /\ Len(<<a, b, c, d>>) = 4
  OBVIOUS
<1> HIDE DEF V
<1>2. /\ Append(<<a, b, c>>, d) \in Seq(V) /\ Len(Append(<<a, b, c>>, d)) = 4
      /\ Append(<<a, b, c>>, d)[4] = d /\ \A i \in 1..3 : Append(<<a, b, c>>, d)[i] = <<a, b, c>>[i]
  BY <1>1, Appended
<1>3. \A i \in 1..4 : Append(<<a, b, c>>, d)[i] = <<a, b, c, d>>[i]
  BY <1>2
<1>4. QED
  BY <1>1, <1>2, <1>3, SameSeq

LEMMA ChoiceIs ==
  ASSUME client \in Client
  PROVE  /\ RoleOf \in Classes
         /\ DisplayBufferOf \in Zero \cup {"shm", None} /\ DisplayBufferOf \in Classes
         /\ DisplayBufferOf # None => DisplayBufferOf \in client.made
         /\ "shm" \in client.made => DisplayBufferOf # None
         /\ FrameBufferOf = DisplayBufferOf
<1> DEFINE order == <<"drm", "kms", "dmabuf", "shm">>
           x == FirstOf(order, None)
           y == FirstOf(Roles, "plain")
<1>1. Append(ZCopy, "shm") = order
  BY AppendFour DEF ZCopy
<1>2. DisplayBufferOf = x /\ FrameBufferOf = x /\ RoleOf = y
  BY <1>1 DEF DisplayBufferOf, FrameBufferOf, RoleOf
<1>3. order \in Seq(Zero \cup {"shm"}) /\ Roles \in Seq({"ivi", "shell"})
  BY DEF Roles, Zero
<1>4. \/ x = None /\ \A k \in DOMAIN order : order[k] \notin client.made
      \/ \E k \in DOMAIN order : x = order[k] /\ order[k] \in client.made
  <2> HIDE DEF order
  <2>1. QED
    BY <1>3, FirstIs
<1>5. \/ y = "plain" \/ \E k \in DOMAIN Roles : y = Roles[k] /\ Roles[k] \in client.made
  BY <1>3, FirstIs
<1> HIDE DEF x, y
<1>6. \/ x = None /\ "shm" \notin client.made
      \/ x \in Zero \cup {"shm"} /\ x \in client.made
  BY <1>4 DEF Zero
<1>7. y = "plain" \/ (y \in {"ivi", "shell"} /\ y \in client.made)
  BY <1>5 DEF Roles
<1>8. client.made \subseteq ItfSet \cup {"keyboard"}
  BY DEF Client
<1>9. None \notin Zero \cup {"shm"}
  BY WlDisplayAssumption DEF Zero
<1>10. x \in Classes /\ y \in Classes
  BY <1>6, <1>7, <1>8 DEF Classes, Zero
<1>11. QED
  BY <1>2, <1>6, <1>9, <1>10

LEMMA SameChoice ==
  ASSUME \A x : x # "keyboard" => (x \in client'.made <=> x \in client.made)
  PROVE  RoleOf' = RoleOf /\ DisplayBufferOf' = DisplayBufferOf
<1> DEFINE order == <<"drm", "kms", "dmabuf", "shm">>
<1>1. Append(ZCopy, "shm") = order
  BY AppendFour DEF ZCopy
<1>2. \A k \in DOMAIN order : order[k] \in client'.made <=> order[k] \in client.made
  OBVIOUS
<1>3. \A k \in DOMAIN Roles : Roles[k] \in client'.made <=> Roles[k] \in client.made
  BY DEF Roles
<1>4. {k \in DOMAIN order : order[k] \in client'.made} = {k \in DOMAIN order : order[k] \in client.made}
  BY <1>2
<1>5. {k \in DOMAIN Roles : Roles[k] \in client'.made} = {k \in DOMAIN Roles : Roles[k] \in client.made}
  BY <1>3
<1> HIDE DEF order
<1>6. DisplayBufferOf' = DisplayBufferOf
  BY <1>1, <1>4 DEF DisplayBufferOf, FirstOf
<1>7. RoleOf' = RoleOf
  BY <1>5 DEF RoleOf, FirstOf
<1>8. QED
  BY <1>6, <1>7

LEMMA ChosenKept ==
  ASSUME Chosen, Grows(client, client'), client'.made \subseteq client.made \cup {"keyboard"},
         con' = con, db' = db, fb' = fb
  PROVE  Chosen'
<1>1. RoleOf' = RoleOf /\ DisplayBufferOf' = DisplayBufferOf
  BY SameChoice DEF Grows
<1>2. QED
  BY <1>1 DEF Chosen

LEMMA LearntKept ==
  ASSUME Learnt, After, client \in Client, client' \in Client, Grows(client, client'),
         client'.made \subseteq client.made \cup {"keyboard"}, world' = world, first' = first,
         Gone => Gone', ~Gone => denied' \subseteq denied \cup Second
  PROVE  Learnt'
<1>1. SUFFICES ASSUME ~Gone'
               PROVE  /\ Real' \subseteq client'.made /\ first' \subseteq client'.made
                      /\ denied' \subseteq Second'
                      /\ world.whole => Second' = {}
                      /\ first' \cap (Zero \cup {"shm"}) \subseteq client'.formats
                      /\ first' \cap Zero \subseteq client'.devices
                      /\ world.had /\ "seat" \in first' => "keyboard" \in client'.made
  BY DEF Learnt
<1>2. /\ Real \subseteq client.made /\ first \subseteq client.made /\ denied \subseteq Second
      /\ world.whole => Second = {}
      /\ first \cap (Zero \cup {"shm"}) \subseteq client.formats
      /\ first \cap Zero \subseteq client.devices
      /\ world.had /\ "seat" \in first => "keyboard" \in client.made
  BY <1>1 DEF Learnt
<1>3. Real' = Real
  BY DEF Real
<1>4. Second' = Second
  BY DEF Second, Grows
<1>5. denied' \subseteq Second'
  BY <1>1, <1>2, <1>4
<1>6. QED
  BY <1>2, <1>3, <1>4, <1>5 DEF Grows

\* A step after Display::start(): the client only learns.
LEMMA LaterStep ==
  ASSUME IInv, ~Before', After, Typed', Chosen', Grows(client, client'),
         client'.made \subseteq client.made \cup {"keyboard"}, world' = world, first' = first,
         Gone => Gone', ~Gone => denied' \subseteq denied \cup Second,
         inq' \in Seq(Requests), wire' \in Seq(Late)
  PROVE  IInv'
<1>1. After' /\ ~Asking' /\ main' # "connect"
  BY DEF Before, After, Asking, Typed, TypeOK
<1>2. Alone'
  BY <1>1 DEF Alone
<1>3. Asked'
  BY <1>1 DEF Asked
<1>4. Learnt'
  BY LearntKept DEF IInv, Typed
<1>5. QED
  BY <1>2, <1>3, <1>4 DEF IInv

LEMMA FlushedStep ==
  ASSUME client \in Client, inq \in Seq(Requests), Flushed
  PROVE  /\ client' \in Client /\ Grows(client, client') /\ client'.made = client.made
         /\ inq' \in Seq(Requests)
<1>1. client' = [client EXCEPT !.out = <<>>]
  BY DEF Flushed
<1>2. client' \in Client /\ Grows(client, client') /\ client'.made = client.made
  <2>1. <<>> \in Seq(Requests)
    OBVIOUS
  <2>2. QED
    BY <1>1, <2>1 DEF Client, Grows
<1>3. client.out \in Seq(Requests)
  BY DEF Client
<1>4. inq' \in Seq(Requests)
  BY <1>3, RangeOfTwo DEF Flushed
<1>5. QED
  BY <1>2, <1>4

-----------------------------------------------------------------------------
(* What the compositor answers.                                              *)

LEMMA RangeOfPair ==
  ASSUME NEW S, NEW x \in S, NEW y \in S
  PROVE  <<x, y>> \in Seq(S) /\ Range(<<x, y>>) = {x, y}
<1>1. DOMAIN <<x, y>> = {1, 2} /\ <<x, y>>[1] = x /\ <<x, y>>[2] = y /\ <<x, y>> \in Seq(S)
  OBVIOUS
<1>2. QED
  BY <1>1 DEF Range

LEMMA RangeOfNone == ASSUME NEW S PROVE <<>> \in Seq(S) /\ Range(<<>>) = {}
<1>1. DOMAIN <<>> = {} /\ <<>> \in Seq(S)
  OBVIOUS
<1>2. QED
  BY <1>1 DEF Range

LEMMA RegistryAnswer ==
  ASSUME world \in Worlds
  PROVE  /\ AnswerTo(Registry) \in Seq(Globals)
         /\ \A i \in world.offer : <<"global", i>> \in Range(AnswerTo(Registry))
<1> DEFINE n == Cardinality(world.offer)
           f == SetToSeq(world.offer)
           g == [k \in 1..n |-> <<"global", f[k]>>]
<1>1. world.offer \in Offers /\ world.offer \subseteq ItfSet /\ IsFiniteSet(world.offer)
  BY WlDisplayAssumption DEF Worlds, ItfSet
<1>2. /\ n \in Nat /\ f \in [1..n -> world.offer]
      /\ \A i \in world.offer : \E k \in 1..n : f[k] = i
  BY <1>1, Announced
<1>3. AnswerTo(Registry) = g
  BY DEF AnswerTo, Registry
<1> HIDE DEF n, f
<1>4. g \in [1..n -> Globals]
  <2>1. \A k \in 1..n : f[k] \in ItfSet
    BY <1>1, <1>2
  <2>2. \A k \in 1..n : <<"global", f[k]>> \in Globals
    BY <2>1 DEF Globals
  <2>3. QED
    BY <2>2
<1>5. g \in Seq(Globals) /\ DOMAIN g = 1..n
  <2> HIDE DEF g
  <2>1. QED
    BY <1>2, <1>4
<1>6. ASSUME NEW i \in world.offer
      PROVE  <<"global", i>> \in Range(g)
  <2>1. PICK k \in 1..n : f[k] = i
    BY <1>2
  <2>2. g[k] = <<"global", i>>
    BY <2>1
  <2> HIDE DEF g
  <2>3. QED
    BY <1>5, <2>2 DEF Range
<1>7. QED
  BY <1>3, <1>5, <1>6

LEMMA BindAnswer ==
  ASSUME NEW i \in Things
  PROVE  /\ OnBind(i) \in Seq(Late)
         /\ i \in Zero \cup {"shm"} => <<"format", i>> \in Range(OnBind(i))
         /\ i \in {"drm", "kms"} => <<"device", i>> \in Range(OnBind(i))
         /\ i = "seat" /\ plugged => <<"keyboard", i>> \in Range(OnBind(i))
         /\ \A e \in Range(OnBind(i)) : e[1] # "done"
<1>1. /\ <<"format", i>> \in Late /\ <<"device", i>> \in Late /\ <<"modifiers", i>> \in Late
      /\ <<"keyboard", i>> \in Late
  BY DEF Late
<1>2. CASE i = "shm"
  <2>1. OnBind(i) = << <<"format", i>> >>
    BY <1>2 DEF OnBind
  <2>2. OnBind(i) \in Seq(Late) /\ Range(OnBind(i)) = {<<"format", i>>}
    BY <1>1, <2>1, RangeOfOne
  <2>3. QED
    BY <1>2, <2>2
<1>3. CASE i \in {"drm", "kms"}
  <2>1. OnBind(i) = << <<"device", i>>, <<"format", i>> >>
    BY <1>3 DEF OnBind
  <2>2. OnBind(i) \in Seq(Late) /\ Range(OnBind(i)) = {<<"device", i>>, <<"format", i>>}
    BY <1>1, <2>1, RangeOfPair
  <2>3. QED
    BY <1>3, <2>2
<1>4. CASE i = "dmabuf"
  <2>1. OnBind(i) = << <<"modifiers", i>>, <<"format", i>> >>
    BY <1>4 DEF OnBind
  <2>2. OnBind(i) \in Seq(Late) /\ Range(OnBind(i)) = {<<"modifiers", i>>, <<"format", i>>}
    BY <1>1, <2>1, RangeOfPair
  <2>3. QED
    BY <1>4, <2>2
<1>5. CASE i = "seat" /\ plugged
  <2>1. OnBind(i) = << <<"keyboard", i>> >>
    BY <1>5 DEF OnBind
  <2>2. OnBind(i) \in Seq(Late) /\ Range(OnBind(i)) = {<<"keyboard", i>>}
    BY <1>1, <2>1, RangeOfOne
  <2>3. QED
    BY <1>5, <2>2 DEF Zero
<1>6. CASE i \notin {"shm", "drm", "kms", "dmabuf"} /\ ~(i = "seat" /\ plugged)
  <2>1. OnBind(i) = <<>>
    BY <1>6 DEF OnBind
  <2>2. QED
    BY <1>6, <2>1, RangeOfNone DEF Zero
<1>7. QED
  BY <1>2, <1>3, <1>4, <1>5, <1>6

LEMMA LateAnswer ==
  ASSUME NEW q \in Requests
  PROVE  /\ AnswerTo(q) \in Seq(Late)
         /\ q[1] = "bind" => AnswerTo(q) = OnBind(q[2])
         /\ <<"done", "main">> \in Range(AnswerTo(q)) => q = <<"sync", "main">>
<1> DEFINE i == q[2]
<1>1. i \in Things /\ q = <<q[1], i>> /\ q[1] \in {"bind", "auth", "sync", "toplevel"}
  BY DEF Requests
<1>2. CASE q[1] = "bind"
  <2>1. AnswerTo(q) = OnBind(i)
    BY <1>2 DEF AnswerTo
  <2>2. OnBind(i) \in Seq(Late) /\ \A e \in Range(OnBind(i)) : e[1] # "done"
    BY <1>1, BindAnswer
  <2>3. QED
    BY <2>1, <2>2
<1>3. CASE q[1] = "auth"
  <2>1. AnswerTo(q) = << <<"authenticated", i>> >> /\ <<"authenticated", i>> \in Late
    BY <1>1, <1>3 DEF AnswerTo, Late
  <2>2. AnswerTo(q) \in Seq(Late) /\ Range(AnswerTo(q)) = {<<"authenticated", i>>}
    BY <2>1, RangeOfOne
  <2>3. QED
    BY <1>3, <2>2
<1>4. CASE q[1] = "sync"
  <2>1. AnswerTo(q) = << <<"done", i>> >> /\ <<"done", i>> \in Late
    BY <1>1, <1>4 DEF AnswerTo, Late
  <2>2. AnswerTo(q) \in Seq(Late) /\ Range(AnswerTo(q)) = {<<"done", i>>}
    BY <2>1, RangeOfOne
  <2>3. <<"done", "main">> = <<"done", i>> => i = "main"
    OBVIOUS
  <2>4. QED
    BY <1>1, <1>4, <2>2, <2>3
<1>5. CASE q[1] = "toplevel"
  <2>1. AnswerTo(q) = << <<"configure", i>> >> /\ <<"configure", i>> \in Late
    BY <1>1, <1>5 DEF AnswerTo, Late
  <2>2. AnswerTo(q) \in Seq(Late) /\ Range(AnswerTo(q)) = {<<"configure", i>>}
    BY <2>1, RangeOfOne
  <2>3. QED
    BY <1>5, <2>2
<1>6. QED
  BY <1>1, <1>2, <1>3, <1>4, <1>5

-----------------------------------------------------------------------------
(* Steps of the compositor.                                                  *)

LEMMA IInvInit == Init => IInv
<1> SUFFICES ASSUME Init PROVE IInv
  OBVIOUS
<1>2. client \in Client /\ inbox \in Seq(Late) /\ wire \in Seq(Events)
  BY NoClientIs DEF Init
<1>3. world.had \in BOOLEAN /\ world \in Worlds
  BY DEF Init, Worlds
<1>4. handling \in [Threads -> Late \cup {None}]
  BY DEF Init
<1>5. con \in [Rings -> Classes] /\ db \in [Rings -> Classes] /\ fb \in [Rings -> Classes]
  BY DEF Init, Classes
<1>6. handling[Dispatcher] = None /\ \A r \in Rings : handling[r] = None
  BY DEF Init, Threads
<1>7. rpc \in [Rings -> {"new", "idle", "roundtrip", "draw"}]
  BY DEF Init
<1>8. TypeOK
  BY <1>3, <1>5, <1>6, <1>7 DEF Init, TypeOK
<1>9. Typed
  BY <1>2, <1>3, <1>4, <1>6, <1>8 DEF Typed, Init
<1>10. Alone /\ Chosen /\ Asked /\ Learnt
  BY DEF Alone, Chosen, Asked, Learnt, Asking, After, Init, Registry
<1>11. QED
  BY <1>9, <1>10 DEF IInv

\* Nothing but what TypeOK says of them depends on these.
LEMMA TypedKept ==
  ASSUME Typed, UNCHANGED <<dpc, rpc, con, db, fb, early, denied, handling, readers, killed, stopping>>,
         world' \in Worlds, first' \subseteq ItfSet \cup {"keyboard"}, plugged' \in BOOLEAN, lost' \in {"no", "readable", "error"},
         main' \in {"connect", "sync", "roundtrip", "ready", "failed", "run", "stop", "join", "done"},
         client' \in Client, inbox' \in Seq(Late), wire' \in Seq(Events), world'.had => plugged'
  PROVE  Typed'
BY DEF Typed, TypeOK

LEMMA AnswerStep ==
  ASSUME IInv, Answer
  PROVE  IInv'
<1> DEFINE q == Head(inq)
           a == AnswerTo(q)
<1>1. /\ ~Gone /\ inq # <<>> /\ wire' = wire \o a /\ inq' = Tail(inq)
      /\ world' = world /\ first' = first /\ lost' = lost /\ client' = client /\ main' = main /\ denied' = denied
      /\ plugged' = plugged /\ inbox' = inbox
      /\ UNCHANGED <<dpc, rpc, con, db, fb, early, denied, handling, readers, killed, stopping>>
  BY DEF known, Answer, compositor, rings
<1>2. world \in Worlds /\ client \in Client /\ inbox \in Seq(Late) /\ wire \in Seq(Events)
  BY DEF IInv, Typed, TypeOK
<1>3. Seq(Late) \subseteq Seq(Events) /\ Seq(Globals) \subseteq Seq(Events)
  BY DEF Events
<1>4. Gone' = Gone /\ Grows(client, client')
  BY <1>1 DEF Gone, Grows
<1>5. Chosen'
  BY <1>1, <1>4, ChosenKept DEF IInv
<1>6. CASE main = "connect"
  <2>1. inq = <<Registry>> /\ wire = <<>>
    BY <1>1, <1>6 DEF IInv, Alone
  <2>2. q = Registry /\ inq' = <<>> /\ wire' = AnswerTo(Registry)
    <3>1. q = Registry /\ Tail(inq) = <<>>
      BY <2>1
    <3>2. a \in Seq(Globals)
      BY <1>2, <3>1, RegistryAnswer
    <3> HIDE DEF q
    <3>3. <<>> \o a = a
      BY <3>2
    <3>4. QED
      BY <1>1, <2>1, <3>1, <3>3
  <2>3. wire' \in Seq(Globals) /\ wire' \in Seq(Events)
    BY <1>2, <1>3, <2>2, RegistryAnswer
  <2>4. Typed'
    BY <1>1, <1>2, <2>3, TypedKept DEF IInv, Typed, TypeOK
  <2>5. AnswerTo(Registry)' = AnswerTo(Registry)
    BY <1>1 DEF AnswerTo, Registry
  <2>6. Alone'
    BY <1>1, <1>6, <2>2, <2>5 DEF IInv, Alone, Before, After
  <2>7. ~Asking' /\ ~After'
    BY <1>1, <1>6 DEF Asking, After
  <2>8. QED
    BY <1>5, <2>4, <2>6, <2>7 DEF IInv, Asked, Learnt
<1>7. CASE main # "connect"
  <2>1. inq \in Seq(Requests)
    BY <1>7 DEF IInv, Alone
  <2>2. /\ q \in Requests /\ inq' \in Seq(Requests) /\ Range(inq) = {q} \cup Range(inq')
        /\ \A k \in DOMAIN inq' : k + 1 \in DOMAIN inq /\ inq'[k] = inq[k + 1]
    BY <1>1, <2>1, RangeOfTail
  <2>3. a \in Seq(Late) /\ (<<"done", "main">> \in Range(a) => q = <<"sync", "main">>)
    BY <2>2, LateAnswer
  <2> HIDE DEF q, a
  <2>4. wire' \in Seq(Events) /\ Range(wire') = Range(wire) \cup Range(a)
    BY <1>1, <1>2, <1>3, <2>3, RangeOfTwo
  <2>5. wire \in Seq(Late) => wire' \in Seq(Late)
    BY <1>1, <2>3, RangeOfTwo
  <2>6. Typed'
    BY <1>1, <1>2, <2>4, TypedKept DEF IInv, Typed, TypeOK
  <2>7. Alone'
    BY <1>1, <1>7, <2>2, <2>5 DEF IInv, Alone, Before, After
  <2>8. Learnt'
    BY <1>1, <1>2, <1>4, <2>6, LearntKept DEF IInv, Learnt, After, Typed
  <2>9. Asked'
    <3>1. SUFFICES ASSUME Asking
                   PROVE  Asked'
      BY <1>1 DEF Asked, Asking
    <3>2. /\ first \subseteq client.made /\ "main" \notin client.done
          /\ \A i \in Real \ client.made : <<"global", i>> \in Range(wire)
          /\ world.whole => client.made \subseteq first \cup {"keyboard"} /\ wire \in Seq(Late)
          /\ main = "sync" => inq = <<>>
          /\ main = "roundtrip" => client.out = <<>>
          /\ \A i \in first \cap (Zero \cup {"shm"}) : Owed(i, "format") \/ i \in client.formats
          /\ \A i \in first \cap {"drm", "kms"} : Owed(i, "device") \/ i \in client.devices
          /\ "dmabuf" \in first => "dmabuf" \in client.devices
          /\ world.had /\ "seat" \in first => Owed("seat", "keyboard") \/ "keyboard" \in client.made
      BY <1>1, <3>1 DEF IInv, Asked
    <3>3. main = "roundtrip"
      BY <1>1, <3>1, <3>2 DEF Asking
    <3>4. Real' = Real
      BY <1>1 DEF Real
    <3>5. ASSUME NEW i \in Things, NEW what \in {"format", "device", "keyboard"}, Owed(i, what),
                 what = "format" => i \in Zero \cup {"shm"}, what = "device" => i \in {"drm", "kms"},
                 what = "keyboard" => i = "seat" /\ plugged
          PROVE  Owed(i, what)'
      <4>1. CASE <<what, i>> \in Range(wire)
        BY <2>4, <4>1 DEF Owed
      <4>2. CASE Ahead(i)
        <5>1. <<"done", "main">> \notin Range(wire)
          BY <3>3, <4>2 DEF Ahead
        <5>2. PICK k \in DOMAIN inq : /\ inq[k] = <<"bind", i>>
                                     /\ \A j \in DOMAIN inq : inq[j] = <<"sync", "main">> => k < j
          BY <3>3, <4>2 DEF Ahead
        <5>3. /\ Len(inq) \in Nat /\ DOMAIN inq = 1..Len(inq) /\ 1 \in DOMAIN inq /\ inq[1] = q
              /\ DOMAIN inq' = 1..(Len(inq) - 1) /\ \A j \in 1..(Len(inq) - 1) : inq'[j] = inq[j + 1]
          BY <1>1, <2>1 DEF q
        <5>4. CASE k = 1
          <6>1. q = <<"bind", i>>
            <7>1. inq[1] = <<"bind", i>>
              BY <5>2, <5>4
            <7>2. QED
              BY <5>3, <7>1
          <6>2. q[1] = "bind" /\ q[2] = i
            BY <6>1
          <6>3. a = OnBind(i)
            BY <2>2, <6>2, LateAnswer DEF a
          <6>4. <<what, i>> \in Range(a)
            BY <3>5, <6>3, BindAnswer
          <6>5. QED
            BY <2>4, <6>4 DEF Owed
        <5>5. CASE k # 1
          <6>1. k - 1 \in DOMAIN inq' /\ inq'[k - 1] = <<"bind", i>>
            <7>1. k - 1 \in 1..(Len(inq) - 1) /\ (k - 1) + 1 = k
              BY <5>3, <5>5
            <7>2. QED
              BY <5>2, <5>3, <7>1
          <6>2. \A j \in DOMAIN inq' : inq'[j] = <<"sync", "main">> => k - 1 < j
            <7>1. TAKE j \in DOMAIN inq'
            <7>2. j \in Nat /\ j + 1 \in DOMAIN inq /\ inq'[j] = inq[j + 1] /\ k \in Nat
              BY <5>3
            <7>3. inq[j + 1] = <<"sync", "main">> => k < j + 1
              BY <5>2, <7>2
            <7>4. QED
              BY <7>2, <7>3
          <6>3. q # <<"sync", "main">>
            BY <5>2, <5>3
          <6>4. <<"done", "main">> \notin Range(wire')
            BY <2>3, <2>4, <5>1, <6>3
          <6>5. QED
            BY <6>1, <6>2, <6>4 DEF Owed, Ahead
        <5>6. QED
          BY <5>4, <5>5
      <4>3. QED
        BY <3>5, <4>1, <4>2 DEF Owed
    <3>6. world.had => plugged
      BY DEF IInv, Typed
    <3>7. "seat" \in Things /\ first \cap (Zero \cup {"shm"}) \subseteq Things
           /\ first \cap {"drm", "kms"} \subseteq Things
      BY <1>2, <3>2 DEF Things, Client, Zero
    <3>8. \A i \in first \cap (Zero \cup {"shm"}) : Owed(i, "format")' \/ i \in client.formats
      BY <3>2, <3>5, <3>7
    <3>9. \A i \in first \cap {"drm", "kms"} : Owed(i, "device")' \/ i \in client.devices
      BY <3>2, <3>5, <3>7
    <3>10. world.had /\ "seat" \in first => Owed("seat", "keyboard")' \/ "keyboard" \in client.made
      BY <3>2, <3>5, <3>6, <3>7
    <3>11. \A i \in Real \ client.made : <<"global", i>> \in Range(wire')
      BY <2>4, <3>2
    <3>12. QED
      BY <1>1, <2>5, <3>2, <3>3, <3>4, <3>8, <3>9, <3>10, <3>11 DEF Asked
  <2>10. QED
    BY <1>5, <2>6, <2>7, <2>8, <2>9 DEF IInv
<1>8. QED
  BY <1>6, <1>7

LEMMA PlugInStep ==
  ASSUME IInv, PlugIn
  PROVE  IInv'
<1> DEFINE e == <<"keyboard", "seat">>
<1>1. /\ ~Gone /\ plugged' = TRUE /\ inq' = inq
      /\ wire' = wire \/ (wire' = Append(wire, e) /\ "seat" \in client.made)
      /\ world' = world /\ first' = first /\ lost' = lost /\ client' = client /\ main' = main /\ denied' = denied
      /\ inbox' = inbox
      /\ UNCHANGED <<dpc, rpc, con, db, fb, early, denied, handling, readers, killed, stopping>>
  BY DEF known, PlugIn, rings
<1>2. world \in Worlds /\ client \in Client /\ inbox \in Seq(Late) /\ wire \in Seq(Events)
  BY DEF IInv, Typed, TypeOK
<1>3. e \in Late /\ e \in Events
  BY DEF Late, Events, Things
<1>4. /\ Append(wire, e) \in Seq(Events) /\ Range(Append(wire, e)) = Range(wire) \cup {e}
      /\ (wire \in Seq(Late) => Append(wire, e) \in Seq(Late))
  BY <1>2, <1>3, RangeOfLast
<1>5. Gone' = Gone /\ Grows(client, client')
  BY <1>1 DEF Gone, Grows
<1>6. Typed'
  BY <1>1, <1>2, <1>4, TypedKept DEF IInv, Typed, TypeOK
<1>7. Chosen'
  BY <1>1, <1>5, ChosenKept DEF IInv
<1>8. Learnt'
  BY <1>1, <1>2, <1>5, <1>6, LearntKept DEF IInv, Learnt, After, Typed
<1>9. Alone'
  <2>1. main = "connect" => wire' = wire
    BY <1>1, NoClientIs DEF IInv, Alone
  <2>2. AnswerTo(Registry)' = AnswerTo(Registry)
    BY <1>1 DEF AnswerTo, Registry
  <2>3. QED
    BY <1>1, <1>4, <2>1, <2>2 DEF IInv, Alone, Before, After
<1>10. Range(wire) \subseteq Range(wire') /\ (<<"done", "main">> \in Range(wire') => <<"done", "main">> \in Range(wire))
       /\ (wire \in Seq(Late) => wire' \in Seq(Late))
  <2> DEFINE f == <<"done", "main">>
  <2>1. e # f
    OBVIOUS
  <2> HIDE DEF e, f
  <2>2. Range(wire) \subseteq Range(wire') /\ (f \in Range(wire') => f \in Range(wire))
    BY <1>1, <1>4, <2>1
  <2>3. wire \in Seq(Late) => wire' \in Seq(Late)
    BY <1>1, <1>4
  <2>4. QED
    BY <2>2, <2>3 DEF f
<1>11. Real' = Real
  BY <1>1 DEF Real
<1>12. \A i, what : Owed(i, what) => Owed(i, what)'
  BY <1>1, <1>10 DEF Owed, Ahead
<1>13. Asked'
  <2>1. SUFFICES ASSUME Asking
                 PROVE  Asked'
    BY <1>1 DEF Asked, Asking
  <2>2. QED
    BY <1>1, <1>10, <1>11, <1>12, <2>1 DEF IInv, Asked
<1>14. QED
  BY <1>6, <1>7, <1>8, <1>9, <1>13 DEF IInv

LEMMA LeaveStep ==
  ASSUME IInv, Leave
  PROVE  IInv'
<1>1. /\ lost' \in {"readable", "error"} /\ plugged' = plugged /\ inq' = inq /\ wire' = wire
      /\ inbox' = inbox /\ world' = world /\ first' = first /\ client' = client /\ main' = main
      /\ UNCHANGED <<dpc, rpc, con, db, fb, early, denied, handling, readers, killed, stopping>>
  BY DEF known, Leave, rings, queues
<1>2. Gone' /\ Grows(client, client')
  BY <1>1 DEF Gone, Grows
<1>3. Typed'
  BY <1>1, TypedKept DEF IInv, Typed, TypeOK
<1>4. Chosen'
  BY <1>1, <1>2, ChosenKept DEF IInv
<1>5. AnswerTo(Registry)' = AnswerTo(Registry)
  BY <1>1 DEF AnswerTo, Registry
<1>6. Alone'
  BY <1>1, <1>5 DEF IInv, Alone, Before, After
<1>7. Asked' /\ Learnt'
  BY <1>2 DEF Asked, Learnt
<1>8. QED
  BY <1>3, <1>4, <1>6, <1>7 DEF IInv

-----------------------------------------------------------------------------
(* Steps of the main thread.                                                 *)

LEMMA Whole ==
  ASSUME NEW S, NEW s \in Seq(S)
  PROVE  /\ \A n \in 1..Len(s) : SubSeq(s, 1, n) \in Seq(S) /\ SubSeq(s, n + 1, Len(s)) \in Seq(S)
         /\ SubSeq(s, 1, Len(s)) = s /\ SubSeq(s, Len(s) + 1, Len(s)) = <<>>
         /\ \A n \in 1..Len(s) : Range(s) = Range(SubSeq(s, 1, n)) \cup Range(SubSeq(s, n + 1, Len(s)))
<1>1. \A m, n \in Nat : m >= 1 /\ n <= Len(s) => SubSeq(s, m, n) \in Seq(S)
  OBVIOUS
<1>2. Len(s) \in Nat
  OBVIOUS
<1>3. SubSeq(s, 1, Len(s)) = s
  OBVIOUS
<1>4. SubSeq(s, Len(s) + 1, Len(s)) = <<>>
  OBVIOUS
<1>5. ASSUME NEW n \in 1..Len(s)
      PROVE  Range(s) = Range(SubSeq(s, 1, n)) \cup Range(SubSeq(s, n + 1, Len(s)))
  <2> DEFINE t == SubSeq(s, 1, n)
             u == SubSeq(s, n + 1, Len(s))
  <2>1. t \in Seq(S) /\ u \in Seq(S) /\ s = t \o u
    OBVIOUS
  <2> HIDE DEF t, u
  <2>2. Range(t \o u) = Range(t) \cup Range(u)
    BY <2>1, RangeOfTwo
  <2>3. Range(s) = Range(t) \cup Range(u)
    BY <2>1, <2>2
  <2>4. QED
    BY <2>3 DEF t, u
<1>6. QED
  BY <1>1, <1>2, <1>3, <1>4, <1>5

\* Nobody has chosen anything yet.
LEMMA NoneChosen ==
  ASSUME Alone, Before, con' = con, db' = db, fb' = fb
  PROVE  Chosen'
BY DEF Alone, Chosen

LEMMA ConnectStep ==
  ASSUME IInv, Connect
  PROVE  IInv'
<1>1. PICK n \in 1..Len(wire) : /\ world.whole => n = Len(wire)
                                /\ client' = Effects(client, SubSeq(wire, 1, n))
                                /\ wire' = SubSeq(wire, n + 1, Len(wire))
  BY DEF Connect
<1>2. /\ main = "connect" /\ wire # <<>> /\ main' = "sync" /\ plugged' = plugged /\ inq' = inq
      /\ inbox' = inbox /\ world' = world /\ first' = client'.made /\ lost' = lost
      /\ UNCHANGED <<dpc, rpc, con, db, fb, early, denied, handling, readers, killed, stopping>>
  BY DEF Connect, rings, compositor
<1>3. client = NoClient /\ inq = <<>> /\ wire = AnswerTo(Registry)
  BY <1>2 DEF IInv, Alone
<1>4. world \in Worlds /\ inbox \in Seq(Late)
  BY DEF IInv, Typed, TypeOK
<1>5. wire \in Seq(Globals) /\ \A i \in world.offer : <<"global", i>> \in Range(wire)
  BY <1>3, <1>4, RegistryAnswer
<1> DEFINE events == SubSeq(wire, 1, n)
<1>6. events \in Seq(Globals) /\ wire' \in Seq(Globals)
  BY <1>1, <1>5, Whole
<1> HIDE DEF events
<1>7. client' = Effects(NoClient, events)
  BY <1>1, <1>3 DEF events
<1>8. /\ client' \in Client /\ client'.done = {}
      /\ \A q \in Range(client'.out) : q[1] = "bind"
      /\ \A i \in client'.made \cap Answered : <<"bind", i>> \in Range(client'.out)
      /\ "dmabuf" \in client'.made => "dmabuf" \in client'.devices
      /\ \A i \in ItfSet : <<"global", i>> \in Range(events) =>
            (world.noZCopy /\ i \in Range(ZCopy)) \/ i \in client'.made
  BY <1>6, <1>7, ManyGlobals
<1>9. Seq(Globals) \subseteq Seq(Events)
  BY DEF Events
<1>10. Typed'
  <2>1. first' \subseteq ItfSet \cup {"keyboard"}
    BY <1>2, <1>8 DEF Client
  <2>2. QED
    BY <1>2, <1>4, <1>6, <1>8, <1>9, <2>1, TypedKept DEF IInv, Typed, TypeOK
<1>11. Chosen'
  BY <1>2, NoneChosen DEF IInv, Before
<1>12. Alone'
  BY <1>2, <1>3 DEF IInv, Alone, Before, After
<1>13. Learnt'
  BY <1>2 DEF Learnt, After
<1>14. Asked'
  <2>1. world.whole => wire' \in Seq(Late)
    <3>1. SUFFICES ASSUME world.whole
                   PROVE  wire' = <<>>
      OBVIOUS
    <3>2. QED
      BY <1>1, <1>5, <3>1, Whole
  <2>2. Range(wire) = Range(events) \cup Range(wire')
    BY <1>1, <1>5, Whole DEF events
  <2>3. \A i \in Real' \ client'.made : <<"global", i>> \in Range(wire')
    <3>1. world.offer \subseteq ItfSet
      BY <1>4 DEF Worlds, ItfSet
    <3>2. TAKE i \in Real' \ client'.made
    <3>3. i \in world.offer /\ ~(world.noZCopy /\ i \in Range(ZCopy))
      BY <1>2, Zeros DEF Real
    <3>4. <<"global", i>> \notin Range(events)
      BY <1>8, <3>1, <3>3
    <3>5. QED
      BY <1>5, <2>2, <3>3, <3>4
  <2>4. first' = client'.made
    BY <1>2
  <2>5. \A i \in first' \cap Answered : \A what : Owed(i, what)'
    BY <1>2, <1>8, <2>4 DEF Owed, Ahead
  <2>6. Zero \cup {"shm", "seat"} \subseteq Answered /\ {"drm", "kms"} \subseteq Answered
    BY DEF Zero, Answered
  <2>7. <<"done", "main">> \notin Range(wire')
    <3>1. <<"done", "main">> \notin Globals
      BY DEF Globals
    <3>2. QED
      BY <1>6, <3>1, RangeIn
  <2>8. inq' = <<>>
    BY <1>2, <1>3
  <2>9. QED
    BY <1>2, <1>8, <2>1, <2>3, <2>4, <2>5, <2>6, <2>7, <2>8 DEF Asked
<1>15. QED
  BY <1>10, <1>11, <1>12, <1>13, <1>14 DEF IInv

LEMMA SyncStep ==
  ASSUME IInv, Sync
  PROVE  IInv'
<1> DEFINE q == <<"sync", "main">>
           out == client.out
           t == Append(out, q)
<1>1. /\ main = "sync" /\ main' = "roundtrip" /\ plugged' = plugged /\ inq' = inq \o t
      /\ wire' = wire /\ inbox' = inbox /\ world' = world /\ first' = first /\ lost' = lost
      /\ client' = [client EXCEPT !.out = <<>>]
      /\ UNCHANGED <<dpc, rpc, con, db, fb, early, denied, handling, readers, killed, stopping>>
  BY DEF known, Sync, rings, compositor
<1>2. /\ world \in Worlds /\ client \in Client /\ inbox \in Seq(Late) /\ wire \in Seq(Events)
      /\ inq \in Seq(Requests)
  BY <1>1 DEF IInv, Typed, TypeOK, Alone
<1>3. q \in Requests /\ out \in Seq(Requests)
  BY <1>2 DEF Requests, Things, Client
<1>4. t \in Seq(Requests) /\ Range(t) = Range(out) \cup {q}
  BY <1>3, RangeOfLast
<1>5. /\ Len(t) = Len(out) + 1 /\ t[Len(out) + 1] = q /\ \A k \in 1..Len(out) : t[k] = out[k]
      /\ Len(out) \in Nat /\ DOMAIN t = 1..(Len(out) + 1) /\ DOMAIN out = 1..Len(out)
  BY <1>3
<1> HIDE DEF t, out, q
<1>6. inq' \in Seq(Requests)
  BY <1>1, <1>2, <1>4, RangeOfTwo
<1>7. /\ client' \in Client /\ client'.out = <<>> /\ client'.made = client.made /\ client'.done = client.done
      /\ client'.formats = client.formats /\ client'.devices = client.devices
  <2>1. <<>> \in Seq(Requests)
    OBVIOUS
  <2>2. QED
    BY <1>1, <1>2, <2>1 DEF Client
<1>8. Typed'
  BY <1>1, <1>2, <1>7, TypedKept DEF IInv, Typed, TypeOK
<1>9. Chosen'
  BY <1>1, NoneChosen DEF IInv, Before
<1>10. Alone'
  BY <1>1, <1>6 DEF IInv, Alone, Before, After
<1>11. Learnt'
  BY <1>1 DEF Learnt, After
<1>12. Asked'
  <2>1. SUFFICES ASSUME ~Gone
                 PROVE  Asked'
    BY <1>1 DEF Asked, Gone
  <2>2. /\ first \subseteq client.made /\ "main" \notin client.done
        /\ \A i \in Real \ client.made : <<"global", i>> \in Range(wire)
        /\ world.whole => client.made \subseteq first \cup {"keyboard"} /\ wire \in Seq(Late)
        /\ inq = <<>> /\ \A p \in Range(out) : p[1] = "bind"
        /\ ~(<<"done", "main">> \in Range(wire))
        /\ \A i \in first \cap (Zero \cup {"shm"}) : Owed(i, "format") \/ i \in client.formats
        /\ \A i \in first \cap {"drm", "kms"} : Owed(i, "device") \/ i \in client.devices
        /\ "dmabuf" \in first => "dmabuf" \in client.devices
        /\ world.had /\ "seat" \in first => Owed("seat", "keyboard") \/ "keyboard" \in client.made
    BY <1>1, <2>1 DEF IInv, Asked, Asking, out
  <2>3. inq' = t
    BY <1>1, <1>4, <2>2
  <2>4. ASSUME NEW i, Ahead(i)
        PROVE  Ahead(i)'
    <3>1. <<"bind", i>> \in Range(out)
      BY <2>2, <2>4 DEF Ahead, out
    <3>2. PICK k \in 1..Len(out) : out[k] = <<"bind", i>>
      BY <1>5, <3>1 DEF Range
    <3>3. k \in DOMAIN t /\ t[k] = <<"bind", i>> /\ k < Len(out) + 1
      BY <1>5, <3>2
    <3>4. ASSUME NEW j \in DOMAIN t, t[j] = q
          PROVE  j = Len(out) + 1
      <4>1. q[1] = "sync"
        BY DEF q
      <4>2. ASSUME j \in 1..Len(out) PROVE FALSE
        <5>1. t[j] \in Range(out)
          BY <1>5, <4>2 DEF Range
        <5>2. QED
          BY <2>2, <3>4, <4>1, <5>1
      <4>3. QED
        BY <1>5, <4>2
    <3>5. k \in DOMAIN inq' /\ inq'[k] = <<"bind", i>>
          /\ \A j \in DOMAIN inq' : inq'[j] = <<"sync", "main">> => k < j
      BY <2>3, <3>3, <3>4 DEF q
    <3>6. <<"done", "main">> \notin Range(wire')
      BY <1>1, <2>2
    <3>7. QED
      BY <3>5, <3>6 DEF Ahead
  <2>5. \A i, what : Owed(i, what) => Owed(i, what)'
    BY <1>1, <2>4 DEF Owed
  <2>6. Real' = Real
    BY <1>1 DEF Real
  <2>7. QED
    BY <1>1, <1>7, <2>2, <2>5, <2>6 DEF Asked
<1>13. QED
  BY <1>8, <1>9, <1>10, <1>11, <1>12 DEF IInv

LEMMA RoundtripStep ==
  ASSUME IInv, Roundtrip
  PROVE  IInv'
<1> DEFINE c == Effects(client, wire)
           over == "main" \in c.done \/ wire = <<>>
<1>1. /\ main = "roundtrip" /\ (wire # <<>> \/ Gone)
      /\ client' = [c EXCEPT !.out = IF over THEN @ ELSE <<>>]
      /\ inq' = IF over THEN inq ELSE inq \o c.out
      /\ main' = IF ~over THEN main ELSE IF "compositor" \in c.made THEN "ready" ELSE "failed"
      /\ wire' = <<>> /\ plugged' = plugged /\ inbox' = inbox /\ world' = world /\ first' = first /\ lost' = lost
      /\ UNCHANGED <<dpc, rpc, con, db, fb, early, denied, handling, readers, killed, stopping>>
  BY DEF known, Roundtrip, rings, compositor
<1>2. /\ world \in Worlds /\ client \in Client /\ inbox \in Seq(Late) /\ wire \in Seq(Events)
      /\ inq \in Seq(Requests)
  BY <1>1 DEF IInv, Typed, TypeOK, Alone
<1>3. c \in Client
  BY <1>2, ManyEvents
<1> HIDE DEF c
<1>4. /\ client' \in Client /\ client'.made = c.made /\ client'.done = c.done
      /\ client'.formats = c.formats /\ client'.devices = c.devices
      /\ ~over => client'.out = <<>>
  <2>1. <<>> \in Seq(Requests)
    OBVIOUS
  <2> HIDE DEF over
  <2>2. QED
    BY <1>1, <1>3, <2>1 DEF Client
<1> HIDE DEF over
<1>5. c.out \in Seq(Requests)
  BY <1>3 DEF Client
<1>6. (inq \o c.out) \in Seq(Requests) /\ Range(inq \o c.out) = Range(inq) \cup Range(c.out)
  BY <1>2, <1>5, RangeOfTwo
<1>7. inq' \in Seq(Requests) /\ wire' \in Seq(Late) /\ wire' \in Seq(Events) /\ Range(wire') = {}
  BY <1>1, <1>2, <1>6, RangeOfNone
<1>8. main' \in {"roundtrip", "ready", "failed"} /\ (main' = "roundtrip" <=> ~over)
  BY <1>1
<1>9. Typed'
  BY <1>1, <1>2, <1>4, <1>7, <1>8, TypedKept DEF IInv, Typed, TypeOK
<1>10. Chosen'
  BY <1>1, NoneChosen DEF IInv, Before
<1>11. Alone'
  BY <1>1, <1>7, <1>8 DEF IInv, Alone, Before, After
<1>12. ASSUME ~Gone
       PROVE  Asked' /\ Learnt'
  <2>1. /\ first \subseteq client.made /\ "main" \notin client.done
        /\ \A i \in Real \ client.made : <<"global", i>> \in Range(wire)
        /\ world.whole => client.made \subseteq first \cup {"keyboard"} /\ wire \in Seq(Late)
        /\ \A i \in first \cap (Zero \cup {"shm"}) : Owed(i, "format") \/ i \in client.formats
        /\ \A i \in first \cap {"drm", "kms"} : Owed(i, "device") \/ i \in client.devices
        /\ "dmabuf" \in first => "dmabuf" \in client.devices
        /\ world.had /\ "seat" \in first => Owed("seat", "keyboard") \/ "keyboard" \in client.made
    BY <1>1, <1>12 DEF IInv, Asked, Asking
  <2>2. /\ Grows(client, c)
        /\ "main" \in c.done => "main" \in client.done \/ <<"done", "main">> \in Range(wire)
        /\ \A i \in Things : <<"format", i>> \in Range(wire) => i \in c.formats
        /\ \A i \in Things : <<"device", i>> \in Range(wire) => i \in c.devices
        /\ \A i \in Things : <<"keyboard", i>> \in Range(wire) => "keyboard" \in c.made
        /\ \A i \in ItfSet : <<"global", i>> \in Range(wire) =>
              (world.noZCopy /\ i \in Range(ZCopy)) \/ i \in c.made
    BY <1>2, ManyEvents DEF c
  <2>3. world.whole => c.made \subseteq first \cup {"keyboard"}
    <3>1. SUFFICES ASSUME world.whole
                   PROVE  c.made \subseteq first \cup {"keyboard"}
      OBVIOUS
    <3>2. c.made \subseteq client.made \cup {"keyboard"}
      BY <1>2, <2>1, <3>1, ManyLate DEF c
    <3>3. QED
      BY <2>1, <3>1, <3>2
  <2>4. Real \subseteq c.made /\ Real' = Real
    <3>1. world.offer \subseteq ItfSet
      BY <1>2 DEF Worlds, ItfSet
    <3>2. \A i \in Real : i \in ItfSet /\ ~(world.noZCopy /\ i \in Range(ZCopy))
      BY <3>1, Zeros DEF Real
    <3>3. QED
      BY <1>1, <2>1, <2>2, <3>2 DEF Real, Grows
  <2>5. first \subseteq c.made /\ ("dmabuf" \in first => "dmabuf" \in c.devices)
    BY <2>1, <2>2 DEF Grows
  <2>6. ASSUME NEW i \in Things, NEW what, Owed(i, what)
        PROVE  Ahead(i) \/ <<what, i>> \in Range(wire)
    BY <2>6 DEF Owed
  <2>7. first \cap (Zero \cup {"shm"}) \subseteq Things /\ first \cap {"drm", "kms"} \subseteq Things
        /\ "seat" \in Things
    BY <1>2, <2>1 DEF Client, Things, Zero
  <2>8. /\ \A i \in first \cap (Zero \cup {"shm"}) : i \in c.formats \/ Ahead(i)
        /\ \A i \in first \cap {"drm", "kms"} : i \in c.devices \/ Ahead(i)
        /\ world.had /\ "seat" \in first => "keyboard" \in c.made \/ Ahead("seat")
    <3>1. ASSUME NEW i \in first \cap (Zero \cup {"shm"})
          PROVE  i \in c.formats \/ Ahead(i)
      BY <2>1, <2>2, <2>6, <2>7 DEF Grows
    <3>2. ASSUME NEW i \in first \cap {"drm", "kms"}
          PROVE  i \in c.devices \/ Ahead(i)
      BY <2>1, <2>2, <2>6, <2>7 DEF Grows
    <3>3. world.had /\ "seat" \in first => "keyboard" \in c.made \/ Ahead("seat")
      BY <2>1, <2>2, <2>6, <2>7 DEF Grows
    <3>4. QED
      BY <3>1, <3>2, <3>3
  <2>9. CASE over
    <3>1. <<"done", "main">> \in Range(wire)
      BY <1>1, <1>12, <2>1, <2>2, <2>9 DEF over
    <3>2. \A i : ~Ahead(i)
      BY <1>1, <3>1 DEF Ahead
    <3>3. /\ first \cap (Zero \cup {"shm"}) \subseteq c.formats
          /\ first \cap {"drm", "kms"} \subseteq c.devices
          /\ world.had /\ "seat" \in first => "keyboard" \in c.made
      BY <2>8, <3>2
    <3>4. first \cap Zero \subseteq c.devices
      BY <2>5, <3>3 DEF Zero
    <3>5. denied' = {}
      BY <1>1 DEF IInv, Alone, Before
    <3>6. world.whole => Second' = {}
      BY <1>1, <1>4, <2>3 DEF Second
    <3>7. ~Asking'
      BY <1>8, <2>9 DEF Asking
    <3>8. QED
      BY <1>1, <1>4, <2>4, <2>5, <3>3, <3>4, <3>5, <3>6, <3>7 DEF Asked, Learnt
  <2>10. CASE ~over
    <3>1. inq' = inq \o c.out /\ main' = "roundtrip" /\ client'.out = <<>> /\ ~After'
      BY <1>1, <1>4, <1>8, <2>10 DEF After
    <3>2. /\ Len(inq) \in Nat /\ Len(c.out) \in Nat /\ DOMAIN inq = 1..Len(inq)
          /\ DOMAIN inq' = 1..(Len(inq) + Len(c.out)) /\ \A k \in 1..Len(inq) : inq'[k] = inq[k]
      BY <1>2, <1>5, <3>1
    <3>3. ASSUME NEW i, Ahead(i)
          PROVE  Ahead(i)'
      <4>1. PICK k \in DOMAIN inq : /\ inq[k] = <<"bind", i>>
                                   /\ \A j \in DOMAIN inq : inq[j] = <<"sync", "main">> => k < j
        BY <1>1, <3>3 DEF Ahead
      <4>2. k \in DOMAIN inq' /\ inq'[k] = <<"bind", i>> /\ k \in Nat /\ k <= Len(inq)
        BY <3>2, <4>1
      <4>3. ASSUME NEW j \in DOMAIN inq', inq'[j] = <<"sync", "main">>
            PROVE  k < j
        <5>1. CASE j <= Len(inq)
          <6>1. j \in DOMAIN inq /\ inq[j] = <<"sync", "main">>
            BY <3>2, <4>3, <5>1
          <6>2. QED
            BY <4>1, <6>1
        <5>2. CASE j > Len(inq)
          BY <3>2, <4>2, <5>2
        <5>3. QED
          BY <3>2, <5>1, <5>2
      <4>4. <<"done", "main">> \notin Range(wire')
        BY <1>7
      <4>5. QED
        BY <4>2, <4>3, <4>4 DEF Ahead
    <3>4. "main" \notin c.done
      BY <2>10 DEF over
    <3>5. /\ \A i \in first \cap (Zero \cup {"shm"}) : i \in c.formats \/ Owed(i, "format")'
          /\ \A i \in first \cap {"drm", "kms"} : i \in c.devices \/ Owed(i, "device")'
          /\ world.had /\ "seat" \in first => "keyboard" \in c.made \/ Owed("seat", "keyboard")'
      BY <2>8, <3>3 DEF Owed
    <3>6. QED
      BY <1>1, <1>4, <1>7, <2>3, <2>4, <2>5, <3>1, <3>4, <3>5 DEF Asked, Learnt
  <2>11. QED
    BY <2>9, <2>10
<1>13. Gone => Asked' /\ Learnt'
  BY <1>1 DEF Asked, Learnt, Gone
<1>14. QED
  BY <1>9, <1>10, <1>11, <1>12, <1>13 DEF IInv

\* Start, and the steps that only say where the main thread is.
LEMMA MainStep ==
  ASSUME IInv, Start \/ Signal \/ Stop \/ Join
  PROVE  IInv'
<1>1. /\ main \in {"ready", "run", "stop", "join"} /\ main' \in {"run", "stop", "join", "done"}
      /\ main = "ready" => dpc = "off" /\ dpc' = "loop" /\ readers = {}
                          /\ handling = [t \in Threads |-> None]
      /\ main # "ready" => dpc' = dpc
      /\ UNCHANGED <<world, first, plugged, lost, inq, wire, inbox, client, rpc, con, db, fb, early, denied,
                     handling, readers, killed>>
      /\ stopping' = stopping \/ stopping' = TRUE
  BY DEF known, Start, Signal, Stop, Join, rings, compositor, queues, IInv, Alone, Before
<1>2. Gone' = Gone /\ Grows(client, client')
  BY <1>1 DEF Gone, Grows
<1>3. Typed'
  BY <1>1, ZenonT(30) DEF IInv, Typed, TypeOK
<1>4. Chosen'
  BY <1>1, <1>2, ChosenKept DEF IInv
<1>5. inq' \in Seq(Requests) /\ wire' \in Seq(Late) /\ After /\ ~Before'
  BY <1>1 DEF IInv, Alone, After, Before
<1>6. QED
  BY <1>1, <1>2, <1>3, <1>4, <1>5, LaterStep

-----------------------------------------------------------------------------
(* Steps of the threads, once they run.                                      *)

LEMMA Running ==
  ASSUME IInv, ~Before
  PROVE  /\ After /\ inq \in Seq(Requests) /\ wire \in Seq(Late) /\ client \in Client
         /\ Grows(client, client)
BY DEF IInv, Typed, TypeOK, Alone, After, Before, Grows

LEMMA TakeStep ==
  ASSUME IInv, NEW t \in Threads, Take(t)
  PROVE  IInv'
<1>1. /\ Dispatching(t) /\ handling[t] = None /\ inbox # <<>>
      /\ handling' = [handling EXCEPT ![t] = Head(inbox)] /\ inbox' = Tail(inbox)
      /\ UNCHANGED <<world, first, plugged, lost, inq, wire, client, main, dpc, rpc, con, db, fb, early,
                     denied, readers, killed, stopping>>
  BY DEF known, Take, rings, compositor
<1>2. ~Before
  BY <1>1 DEF IInv, Alone
<1>3. Head(inbox) \in Late /\ inbox' \in Seq(Late)
  BY <1>1, RangeOfTail DEF IInv, Typed
<1>4. t # Dispatcher => t \in Rings /\ rpc[t] = "roundtrip" /\ t \notin readers
  BY <1>1 DEF Dispatching, Threads
<1>5. t = Dispatcher => dpc = "loop"
  BY <1>1 DEF Dispatching
<1>6. Dispatcher \in Threads /\ Dispatcher \notin Rings /\ Rings \subseteq Threads
  BY WlDisplayAssumption DEF Threads
<1>7. handling' \in [Threads -> Late \cup {None}] /\ \A x \in Threads : x # t => handling'[x] = handling[x]
  BY <1>1, <1>3 DEF IInv, Typed
<1>8. Typed'
  BY <1>1, <1>3, <1>4, <1>5, <1>6, <1>7 DEF IInv, Typed, TypeOK
<1>9. /\ After /\ inq \in Seq(Requests) /\ wire \in Seq(Late) /\ Grows(client, client)
  BY <1>2, Running
<1>10. Gone' = Gone /\ client' = client
  BY <1>1 DEF Gone
<1>11. Chosen'
  BY <1>1, <1>9, ChosenKept DEF IInv
<1>12. QED
  BY <1>1, <1>2, <1>8, <1>9, <1>10, <1>11, LaterStep DEF Before

LEMMA HandleStep ==
  ASSUME IInv, NEW t \in Threads, Handle(t)
  PROVE  IInv'
<1> DEFINE e == handling[t]
<1>1. /\ e # None /\ client' = Effect(client, e) /\ handling' = [handling EXCEPT ![t] = None]
      /\ UNCHANGED <<world, first, plugged, lost, inq, wire, inbox, main, dpc, rpc, con, db, fb, early,
                     denied, readers, killed, stopping>>
  BY DEF known, Handle, rings, compositor, queues
<1>2. ~Before
  BY <1>1 DEF IInv, Alone
<1>3. After /\ inq \in Seq(Requests) /\ wire \in Seq(Late) /\ client \in Client
  BY <1>2, Running
<1>4. e \in Late
  BY <1>1 DEF IInv, Typed
<1> HIDE DEF e
<1>5. client' \in Client /\ Grows(client, client') /\ client'.made \subseteq client.made \cup {"keyboard"}
  BY <1>1, <1>3, <1>4, LateStep
<1>6. /\ handling' \in [Threads -> Late \cup {None}]
      /\ \A x \in Threads : handling'[x] = handling[x] \/ handling'[x] = None
  BY <1>1 DEF IInv, Typed
<1>7. Dispatcher \in Threads /\ Rings \subseteq Threads
  BY DEF Threads
<1>8. Typed'
  BY <1>1, <1>5, <1>6, <1>7 DEF IInv, Typed, TypeOK
<1>9. Gone' = Gone
  BY <1>1 DEF Gone
<1>10. Chosen'
  BY <1>1, <1>5, ChosenKept DEF IInv
<1>11. QED
  BY <1>1, <1>2, <1>3, <1>5, <1>8, <1>9, <1>10, LaterStep DEF Before

LEMMA ReadStep ==
  ASSUME IInv, Read
  PROVE  IInv'
<1>1. /\ readers # {} /\ (Dispatcher \in readers => dpc = "poll" /\ lost # "error")
      /\ inbox' = inbox \o wire /\ wire' = <<>> /\ readers' = {}
      /\ dpc' = IF Dispatcher \in readers THEN "loop" ELSE dpc
      /\ rpc' = [r \in Rings |-> IF r \in readers /\ wire = <<>> THEN "draw" ELSE rpc[r]]
      /\ UNCHANGED <<world, first, plugged, lost, inq, client, main, handling, con, db, fb, early, denied,
                     killed, stopping>>
  BY DEF known, Read, compositor
<1>2. ~Before
  BY <1>1 DEF IInv, Alone
<1>3. After /\ inq \in Seq(Requests) /\ wire \in Seq(Late) /\ client \in Client /\ Grows(client, client)
  BY <1>2, Running
<1>4. inbox' \in Seq(Late) /\ wire' \in Seq(Late) /\ wire' \in Seq(Events)
  BY <1>1, <1>3, RangeOfTwo DEF IInv, Typed
<1>5. \A r \in Rings : r \in readers => handling[r] = None
  BY DEF IInv, Typed
<1>6. rpc' \in [Rings -> {"new", "idle", "roundtrip", "draw"}]
      /\ \A r \in Rings : handling[r] # None => rpc'[r] = "roundtrip"
  BY <1>1, <1>5 DEF IInv, Typed, TypeOK
<1>7. dpc' \in {"off", "loop", "poll", "cancel", "ended"} /\ (handling[Dispatcher] # None => dpc' = "loop")
  BY <1>1 DEF IInv, Typed, TypeOK
<1>8. Typed'
  BY <1>1, <1>3, <1>4, <1>6, <1>7 DEF IInv, Typed, TypeOK
<1>9. Gone' = Gone /\ client' = client
  BY <1>1 DEF Gone
<1>10. Chosen'
  BY <1>1, <1>3, <1>9, ChosenKept DEF IInv
<1>11. QED
  BY <1>1, <1>2, <1>3, <1>4, <1>8, <1>9, <1>10, LaterStep DEF Before

LEMMA PrepareReadStep ==
  ASSUME IInv, PrepareRead
  PROVE  IInv'
<1>1. /\ dpc = "loop" /\ handling[Dispatcher] = None /\ readers' = readers \cup {Dispatcher}
      /\ dpc' = "poll" /\ Flushed
      /\ UNCHANGED <<world, first, plugged, lost, wire, inbox, main, handling, rpc, con, db, fb, early,
                     denied, killed, stopping>>
  BY DEF known, PrepareRead, compositor, rings
<1>2. ~Before
  BY <1>1 DEF IInv, Alone
<1>3. After /\ inq \in Seq(Requests) /\ wire \in Seq(Late) /\ client \in Client
  BY <1>2, Running
<1>4. /\ client' \in Client /\ Grows(client, client') /\ client'.made = client.made
      /\ inq' \in Seq(Requests)
  BY <1>1, <1>3, FlushedStep
<1>5. Dispatcher \in Threads /\ Dispatcher \notin Rings
  BY WlDisplayAssumption DEF Threads
<1>6. Typed'
  BY <1>1, <1>4, <1>5 DEF IInv, Typed, TypeOK
<1>7. Gone' = Gone
  BY <1>1 DEF Gone
<1>8. Chosen'
  BY <1>1, <1>4, ChosenKept DEF IInv
<1>9. QED
  BY <1>1, <1>2, <1>3, <1>4, <1>6, <1>7, <1>8, LaterStep DEF Before

\* The dispatch thread ends.
LEMMA EndStep ==
  ASSUME IInv, Terminate \/ Catch \/ CancelRead
  PROVE  IInv'
<1>1. /\ dpc # "off" /\ dpc' \in {"cancel", "ended"} /\ handling[Dispatcher] = None
      /\ readers' \subseteq readers
      /\ (Dispatcher \in readers' => dpc' = "cancel")
      /\ (killed' = killed \/ killed' = TRUE)
      /\ UNCHANGED <<world, first, plugged, lost, inq, wire, inbox, client, main, handling, rpc, con, db, fb,
                     early, denied, stopping>>
  BY DEF known, Terminate, Catch, CancelRead, Broken, compositor, rings, queues, IInv, Typed, TypeOK
<1>2. ~Before
  BY <1>1 DEF IInv, Alone
<1>3. After /\ inq \in Seq(Requests) /\ wire \in Seq(Late) /\ client \in Client /\ Grows(client, client)
  BY <1>2, Running
<1>4. Typed'
  BY <1>1, ZenonT(30) DEF IInv, Typed, TypeOK
<1>5. Gone' = Gone /\ client' = client
  BY <1>1 DEF Gone
<1>6. Chosen'
  BY <1>1, <1>3, <1>5, ChosenKept DEF IInv
<1>7. QED
  BY <1>1, <1>2, <1>3, <1>4, <1>5, <1>6, LaterStep DEF Before

-----------------------------------------------------------------------------
(* Steps of the control rings.                                               *)

LEMMA ConnectorStep ==
  ASSUME IInv, NEW r \in Rings, createConnector(r)
  PROVE  IInv'
<1>1. /\ main = "run" /\ rpc[r] = "new"
      /\ con' = [con EXCEPT ![r] = RoleOf] /\ rpc' = [rpc EXCEPT ![r] = "idle"]
      /\ UNCHANGED <<world, first, plugged, lost, inq, wire, inbox, client, main, dpc, handling, readers, db,
                     fb, early, denied, killed, stopping>>
  BY DEF known, createConnector, compositor, queues
<1>2. ~Before
  BY <1>1 DEF Before
<1>3. After /\ inq \in Seq(Requests) /\ wire \in Seq(Late) /\ client \in Client /\ Grows(client, client)
  BY <1>2, Running
<1>4. RoleOf \in Classes
  BY <1>3, ChoiceIs
<1>5. /\ con' \in [Rings -> Classes] /\ con'[r] = RoleOf /\ \A s \in Rings : s # r => con'[s] = con[s]
      /\ rpc' \in [Rings -> {"new", "idle", "roundtrip", "draw"}]
      /\ \A s \in Rings : s # r => rpc'[s] = rpc[s]
  BY <1>1, <1>4 DEF IInv, Typed, TypeOK
<1>6. ~(r \in readers \/ handling[r] # None)
  BY <1>1 DEF IInv, Typed, TypeOK
<1>7. Typed'
  BY <1>1, <1>5, <1>6 DEF IInv, Typed, TypeOK
<1>8. Gone' = Gone /\ client' = client
  BY <1>1 DEF Gone
<1>9. RoleOf' = RoleOf /\ DisplayBufferOf' = DisplayBufferOf
  BY <1>8, SameChoice
<1>10. Chosen'
  BY <1>1, <1>5, <1>9 DEF IInv, Chosen
<1>11. QED
  BY <1>1, <1>2, <1>3, <1>7, <1>8, <1>10, LaterStep DEF Before

LEMMA DisplayBufferStep ==
  ASSUME IInv, NEW r \in Rings, createDisplayBuffer(r)
  PROVE  IInv'
<1> DEFINE i == DisplayBufferOf
<1>1. /\ main = "run" /\ rpc[r] = "idle" /\ db[r] = None
      /\ UNCHANGED <<world, first, plugged, lost, wire, inbox, main, dpc, handling, readers, rpc, con, fb,
                     early, killed, stopping>>
  BY DEF known, createDisplayBuffer, compositor
<1>2. \/ /\ i = None \/ (i # "shm" /\ i \notin client.devices)
         /\ denied' = denied \cup ({IF i = None THEN "shm" ELSE i} \cap world.offer)
         /\ db' = db /\ inq' = inq /\ client' = client
      \/ db' = [db EXCEPT ![r] = i] /\ Flushed /\ denied' = denied
  BY DEF known, createDisplayBuffer, Deny
<1>3. ~Before
  BY <1>1 DEF Before
<1>4. After /\ inq \in Seq(Requests) /\ wire \in Seq(Late) /\ client \in Client /\ Grows(client, client)
  BY <1>3, Running
<1>5. /\ i \in Zero \cup {"shm", None} /\ i \in Classes /\ (i # None => i \in client.made)
      /\ ("shm" \in client.made => i # None)
  BY <1>4, ChoiceIs
<1> HIDE DEF i
<1>6. /\ client' \in Client /\ Grows(client, client') /\ client'.made = client.made
      /\ inq' \in Seq(Requests)
  BY <1>2, <1>4, FlushedStep
<1>7. ~Gone => denied' \subseteq denied \cup Second
  <2>1. SUFFICES ASSUME ~Gone, i = None \/ (i # "shm" /\ i \notin client.devices)
                 PROVE  {IF i = None THEN "shm" ELSE i} \cap world.offer \subseteq Second
    BY <1>2
  <2>2. Real \subseteq client.made /\ first \cap Zero \subseteq client.devices
    BY <1>4, <2>1 DEF IInv, Learnt
  <2>3. CASE i = None
    <3>1. "shm" \notin world.offer
      BY <1>5, <2>2, <2>3 DEF Real, Zero
    <3>2. QED
      BY <2>3, <3>1
  <2>4. CASE i # None
    <3>1. i \in Zero /\ i \in client.made /\ i \notin client.devices
      BY <1>5, <2>1, <2>4
    <3>2. i \in Second
      BY <2>2, <3>1 DEF Second, Zero
    <3>3. QED
      BY <2>4, <3>2
  <2>5. QED
    BY <2>3, <2>4
<1>8. db' \in [Rings -> Classes] /\ \A s \in Rings : db'[s] = db[s] \/ (s = r /\ db'[s] = i)
  BY <1>2, <1>5 DEF IInv, Typed, TypeOK
<1>9. denied' \subseteq ItfSet
  <2>1. world.offer \subseteq ItfSet
    BY DEF IInv, Typed, TypeOK, Worlds, ItfSet
  <2>2. denied \subseteq ItfSet
    BY DEF IInv, Typed, TypeOK
  <2>3. QED
    BY <1>2, <2>1, <2>2
<1>10. Typed'
  BY <1>1, <1>6, <1>8, <1>9 DEF IInv, Typed, TypeOK
<1>11. RoleOf' = RoleOf /\ DisplayBufferOf' = DisplayBufferOf
  BY <1>6, SameChoice
<1>12. Chosen'
  BY <1>1, <1>8, <1>11 DEF IInv, Chosen, i
<1>13. Gone' = Gone
  BY <1>1 DEF Gone
<1>14. QED
  BY <1>1, <1>3, <1>4, <1>6, <1>7, <1>10, <1>12, <1>13, LaterStep DEF Before

LEMMA FrameBufferStep ==
  ASSUME IInv, NEW r \in Rings, createFrameBuffer(r)
  PROVE  IInv'
<1> DEFINE i == FrameBufferOf
<1>1. /\ main = "run" /\ rpc[r] = "idle" /\ db[r] # None /\ fb[r] = None
      /\ UNCHANGED <<world, first, plugged, lost, wire, inbox, main, dpc, handling, readers, rpc, con, db,
                     early, killed, stopping>>
  BY DEF known, createFrameBuffer, compositor
<1>2. \/ /\ i \notin client.formats /\ denied' = denied \cup ({i} \cap world.offer)
         /\ fb' = fb /\ inq' = inq /\ client' = client
      \/ fb' = [fb EXCEPT ![r] = i] /\ Flushed /\ denied' = denied
  BY DEF known, createFrameBuffer, Deny
<1>3. ~Before
  BY <1>1 DEF Before
<1>4. After /\ inq \in Seq(Requests) /\ wire \in Seq(Late) /\ client \in Client /\ Grows(client, client)
  BY <1>3, Running
<1>5. db[r] = DisplayBufferOf
  BY <1>1 DEF IInv, Chosen
<1>6. i = db[r] /\ i \in Zero \cup {"shm"} /\ i \in Classes /\ i \in client.made
  BY <1>1, <1>4, <1>5, ChoiceIs
<1> HIDE DEF i
<1>7. /\ client' \in Client /\ Grows(client, client') /\ client'.made = client.made
      /\ inq' \in Seq(Requests)
  BY <1>2, <1>4, FlushedStep
<1>8. ~Gone => denied' \subseteq denied \cup Second
  <2>1. SUFFICES ASSUME ~Gone, i \notin client.formats
                 PROVE  i \in Second
    BY <1>2
  <2>2. first \cap (Zero \cup {"shm"}) \subseteq client.formats
    BY <1>4, <2>1 DEF IInv, Learnt
  <2>3. QED
    BY <1>6, <2>1, <2>2 DEF Second, Zero
<1>9. fb' \in [Rings -> Classes] /\ \A s \in Rings : fb'[s] = fb[s] \/ (s = r /\ fb'[s] = i)
  BY <1>2, <1>6 DEF IInv, Typed, TypeOK
<1>10. denied' \subseteq ItfSet
  <2>1. world.offer \subseteq ItfSet
    BY DEF IInv, Typed, TypeOK, Worlds, ItfSet
  <2>2. denied \subseteq ItfSet
    BY DEF IInv, Typed, TypeOK
  <2>3. QED
    BY <1>2, <2>1, <2>2
<1>11. Typed'
  BY <1>1, <1>7, <1>9, <1>10 DEF IInv, Typed, TypeOK
<1>12. RoleOf' = RoleOf /\ DisplayBufferOf' = DisplayBufferOf
  BY <1>7, SameChoice
<1>13. Chosen'
  BY <1>1, <1>6, <1>9, <1>12 DEF IInv, Chosen
<1>14. Gone' = Gone
  BY <1>1 DEF Gone
<1>15. QED
  BY <1>1, <1>3, <1>4, <1>7, <1>8, <1>11, <1>13, <1>14, LaterStep DEF Before

LEMMA ConfigureStep ==
  ASSUME IInv, NEW r \in Rings, configure(r)
  PROVE  IInv'
<1>1. /\ main = "run" /\ rpc[r] = "idle"
      /\ UNCHANGED <<world, first, plugged, lost, inq, wire, inbox, main, dpc, handling, readers, con, db,
                     fb, early, denied, killed, stopping>>
      /\ \/ /\ client' = Send(Send(client, <<"toplevel", r>>), <<"sync", r>>)
            /\ rpc' = [rpc EXCEPT ![r] = "roundtrip"]
         \/ /\ client' = [client EXCEPT !.done = @ \cup {r}]
            /\ rpc' = [rpc EXCEPT ![r] = "draw"]
  BY DEF known, configure, compositor, queues
<1>2. ~Before
  BY <1>1 DEF Before
<1>3. After /\ inq \in Seq(Requests) /\ wire \in Seq(Late) /\ client \in Client
  BY <1>2, Running
<1>4. r \in Things /\ <<"toplevel", r>> \in Requests /\ <<"sync", r>> \in Requests
  BY DEF Things, Requests
<1>5. client' \in Client /\ Grows(client, client') /\ client'.made = client.made
  <2>1. CASE client' = Send(Send(client, <<"toplevel", r>>), <<"sync", r>>)
    <3> DEFINE c == Send(client, <<"toplevel", r>>)
    <3>1. c \in Client /\ c = [client EXCEPT !.out = Append(client.out, <<"toplevel", r>>)]
      BY <1>3, <1>4, SendStep
    <3>2. c.made = client.made /\ c.formats = client.formats /\ c.devices = client.devices
          /\ c.done = client.done
      BY <1>3, <3>1 DEF Client
    <3> HIDE DEF c
    <3>3. client' = Send(c, <<"sync", r>>)
      BY <2>1 DEF c
    <3>4. client' \in Client /\ client' = [c EXCEPT !.out = Append(c.out, <<"sync", r>>)]
      BY <1>4, <3>1, <3>3, SendStep
    <3>5. client'.made = c.made /\ client'.formats = c.formats /\ client'.devices = c.devices
          /\ client'.done = c.done
      BY <3>1, <3>4 DEF Client
    <3>6. QED
      BY <3>2, <3>4, <3>5 DEF Grows
  <2>2. CASE client' = [client EXCEPT !.done = @ \cup {r}]
    BY <1>3, <1>4, <2>2 DEF Client, Grows
  <2>3. QED
    BY <1>1, <2>1, <2>2
<1>6. /\ rpc' \in [Rings -> {"new", "idle", "roundtrip", "draw"}]
      /\ \A s \in Rings : s # r => rpc'[s] = rpc[s]
  BY <1>1 DEF IInv, Typed, TypeOK
<1>7. ~(r \in readers \/ handling[r] # None)
  BY <1>1 DEF IInv, Typed, TypeOK
<1>8. Typed'
  BY <1>1, <1>5, <1>6, <1>7 DEF IInv, Typed, TypeOK
<1>9. Gone' = Gone
  BY <1>1 DEF Gone
<1>10. Chosen'
  BY <1>1, <1>5, ChosenKept DEF IInv
<1>11. QED
  BY <1>1, <1>2, <1>3, <1>5, <1>8, <1>9, <1>10, LaterStep DEF Before

LEMMA ReturnedStep ==
  ASSUME IInv, NEW r \in Rings, Returned(r)
  PROVE  IInv'
<1>1. /\ rpc[r] = "roundtrip" /\ r \notin readers /\ handling[r] = None
      /\ rpc' = [rpc EXCEPT ![r] = "draw"]
      /\ UNCHANGED <<world, first, plugged, lost, inq, wire, inbox, client, main, dpc, handling, readers, con,
                     db, fb, early, denied, killed, stopping>>
  BY DEF known, Returned, Again, compositor, queues
<1>2. ~Before
  BY <1>1 DEF IInv, Alone
<1>3. After /\ inq \in Seq(Requests) /\ wire \in Seq(Late) /\ client \in Client /\ Grows(client, client)
  BY <1>2, Running
<1>4. /\ rpc' \in [Rings -> {"new", "idle", "roundtrip", "draw"}]
      /\ \A s \in Rings : s # r => rpc'[s] = rpc[s]
  BY <1>1 DEF IInv, Typed, TypeOK
<1>5. Typed'
  BY <1>1, <1>4 DEF IInv, Typed, TypeOK
<1>6. Gone' = Gone /\ client' = client
  BY <1>1 DEF Gone
<1>7. Chosen'
  BY <1>1, <1>3, <1>6, ChosenKept DEF IInv
<1>8. QED
  BY <1>1, <1>2, <1>3, <1>5, <1>6, <1>7, LaterStep DEF Before

LEMMA WaitStep ==
  ASSUME IInv, NEW r \in Rings, Wait(r)
  PROVE  IInv'
<1>1. /\ rpc[r] = "roundtrip" /\ handling[r] = None /\ readers' = readers \cup {r} /\ Flushed
      /\ UNCHANGED <<world, first, plugged, lost, wire, inbox, main, dpc, handling, rpc, con, db, fb, early,
                     denied, killed, stopping>>
  BY DEF known, Wait, Again, compositor, rings
<1>2. ~Before
  BY <1>1 DEF IInv, Alone
<1>3. After /\ inq \in Seq(Requests) /\ wire \in Seq(Late) /\ client \in Client
  BY <1>2, Running
<1>4. /\ client' \in Client /\ Grows(client, client') /\ client'.made = client.made
      /\ inq' \in Seq(Requests)
  BY <1>1, <1>3, FlushedStep
<1>5. r \in Threads /\ r # Dispatcher
  BY WlDisplayAssumption DEF Threads
<1>6. Typed'
  BY <1>1, <1>4, <1>5 DEF IInv, Typed, TypeOK
<1>7. Gone' = Gone
  BY <1>1 DEF Gone
<1>8. Chosen'
  BY <1>1, <1>4, ChosenKept DEF IInv
<1>9. QED
  BY <1>1, <1>2, <1>3, <1>4, <1>6, <1>7, <1>8, LaterStep DEF Before

LEMMA DrawStep ==
  ASSUME IInv, NEW r \in Rings, draw(r)
  PROVE  IInv'
<1>1. /\ rpc[r] = "draw" /\ rpc' = [rpc EXCEPT ![r] = "idle"] /\ Flushed
      /\ (early' = early \cup {r} \/ early' = early)
      /\ UNCHANGED <<world, first, plugged, lost, wire, inbox, main, dpc, handling, readers, con, db, fb,
                     denied, killed, stopping>>
  BY DEF known, draw, compositor
<1>2. ~Before
  BY <1>1 DEF IInv, Alone
<1>3. After /\ inq \in Seq(Requests) /\ wire \in Seq(Late) /\ client \in Client
  BY <1>2, Running
<1>4. /\ client' \in Client /\ Grows(client, client') /\ client'.made = client.made
      /\ inq' \in Seq(Requests)
  BY <1>1, <1>3, FlushedStep
<1>5. /\ rpc' \in [Rings -> {"new", "idle", "roundtrip", "draw"}]
      /\ \A s \in Rings : s # r => rpc'[s] = rpc[s]
  BY <1>1 DEF IInv, Typed, TypeOK
<1>6. ~(r \in readers \/ handling[r] # None)
  BY <1>1 DEF IInv, Typed, TypeOK
<1>7. Typed'
  BY <1>1, <1>4, <1>5, <1>6 DEF IInv, Typed, TypeOK
<1>8. Gone' = Gone
  BY <1>1 DEF Gone
<1>9. Chosen'
  BY <1>1, <1>4, ChosenKept DEF IInv
<1>10. QED
  BY <1>1, <1>2, <1>3, <1>4, <1>7, <1>8, <1>9, LaterStep DEF Before

LEMMA CallbacksStep ==
  ASSUME IInv, NEW r \in Rings, setInputCallbacks(r)
  PROVE  IInv'
<1>1. /\ main = "run"
      /\ UNCHANGED <<world, first, plugged, lost, inq, wire, inbox, main, dpc, handling, readers, rpc, con,
                     db, fb, early, killed, stopping>>
      /\ \/ client' = [client EXCEPT !.heard = @ \cup {r}] /\ denied' = denied
         \/ /\ ~({"seat", "keyboard"} \subseteq client.made) /\ client' = client
            /\ denied' = denied \cup ((IF world.had THEN {"seat"} ELSE {}) \cap world.offer)
  BY DEF known, setInputCallbacks, Deny, compositor, queues
<1>2. ~Before
  BY <1>1 DEF Before
<1>3. After /\ inq \in Seq(Requests) /\ wire \in Seq(Late) /\ client \in Client
  BY <1>2, Running
<1>4. client' \in Client /\ Grows(client, client') /\ client'.made = client.made
  BY <1>1, <1>3, ZenonT(30) DEF Client, Grows
<1>5. ~Gone => denied' \subseteq denied \cup Second
  <2>1. SUFFICES ASSUME ~Gone, "seat" \in world.offer, world.had,
                        ~({"seat", "keyboard"} \subseteq client.made)
                 PROVE  "seat" \in Second
    BY <1>1
  <2>2. Real \subseteq client.made /\ ("seat" \in first => "keyboard" \in client.made)
    BY <1>3, <2>1 DEF IInv, Learnt
  <2>3. "seat" \in Real
    BY <2>1 DEF Real, Zero
  <2>4. QED
    BY <2>1, <2>2, <2>3 DEF Second
<1>6. denied' \subseteq ItfSet
  <2>1. world.offer \subseteq ItfSet
    BY DEF IInv, Typed, TypeOK, Worlds, ItfSet
  <2>2. denied \subseteq ItfSet
    BY DEF IInv, Typed, TypeOK
  <2>3. QED
    BY <1>1, <2>1, <2>2
<1>7. Typed'
  BY <1>1, <1>4, <1>6 DEF IInv, Typed, TypeOK
<1>8. Gone' = Gone
  BY <1>1 DEF Gone
<1>9. Chosen'
  BY <1>1, <1>4, ChosenKept DEF IInv
<1>10. QED
  BY <1>1, <1>2, <1>3, <1>4, <1>5, <1>7, <1>8, <1>9, LaterStep DEF Before

LEMMA StutterStep ==
  ASSUME IInv, UNCHANGED vars
  PROVE  IInv'
<1>1. /\ UNCHANGED <<dpc, rpc, con, db, fb, early, denied, handling, readers, killed, stopping>>
      /\ UNCHANGED <<world, first, plugged, lost, inq, wire, inbox, client, main>>
  BY DEF vars
<1>2. Gone' = Gone /\ Grows(client, client') /\ Real' = Real
  BY <1>1 DEF Gone, Grows, Real
<1>3. Typed'
  BY <1>1, TypedKept DEF IInv, Typed, TypeOK
<1>4. Chosen'
  BY <1>1, <1>2, ChosenKept DEF IInv
<1>5. AnswerTo(Registry)' = AnswerTo(Registry)
  BY <1>1 DEF AnswerTo, Registry
<1>6. Alone'
  BY <1>1, <1>5 DEF IInv, Alone, Before, After
<1>7. Asked'
  BY <1>1, <1>2 DEF IInv, Asked, Asking, Owed, Ahead
<1>8. Learnt'
  BY <1>1, <1>2 DEF IInv, Learnt, After, Second
<1>9. QED
  BY <1>3, <1>4, <1>6, <1>7, <1>8 DEF IInv

-----------------------------------------------------------------------------
LEMMA IInvStep == IInv /\ [Next]_vars => IInv'
<1>1. SUFFICES ASSUME IInv, [Next]_vars
               PROVE  IInv'
  OBVIOUS
<1>2. CASE Answer \/ PlugIn \/ Leave
  BY <1>1, <1>2, AnswerStep, PlugInStep, LeaveStep
<1>3. CASE Connect \/ Sync \/ Roundtrip
  BY <1>1, <1>3, ConnectStep, SyncStep, RoundtripStep
<1>4. CASE Start \/ Signal \/ Stop \/ Join
  BY <1>1, <1>4, MainStep
<1>5. CASE Read \/ PrepareRead \/ Terminate \/ Catch \/ CancelRead
  BY <1>1, <1>5, ReadStep, PrepareReadStep, EndStep
<1>6. CASE \E t \in Threads : Take(t) \/ Handle(t)
  BY <1>1, <1>6, TakeStep, HandleStep
<1>7. ASSUME NEW r \in Rings,
             \/ createConnector(r) \/ createDisplayBuffer(r) \/ createFrameBuffer(r) \/ configure(r)
             \/ Returned(r) \/ Wait(r) \/ draw(r) \/ setInputCallbacks(r)
      PROVE  IInv'
  BY <1>1, <1>7, ConnectorStep, DisplayBufferStep, FrameBufferStep, ConfigureStep, ReturnedStep,
     WaitStep, DrawStep, CallbacksStep
<1>8. CASE UNCHANGED vars
  BY <1>1, <1>8, StutterStep
<1>9. QED
  BY <1>1, <1>2, <1>3, <1>4, <1>5, <1>6, <1>7, <1>8 DEF Next

\* What travels, and who has chosen what from what was learnt, is as IInv says.
LEMMA Always == Spec => []IInv
<1>1. QED
  BY IInvInit, IInvStep, PTL DEF Spec

(***************************************************************************)
(* One dispatch and one round trip of Display::init() are enough for what   *)
(* the dispatch has learnt of, for every compositor and whatever part of    *)
(* its globals the first read brought: while the connection lives, none of  *)
(* these interfaces is refused to a frontend, and nothing at all when the   *)
(* read brought every global.  Their bindings are requested before the      *)
(* request of the round trip, so they are answered before it; the bindings  *)
(* of globals that came after the first dispatch are not, and only these    *)
(* interfaces may be refused.                                               *)
(***************************************************************************)
THEOREM NothingRefused == Spec => []NobodyDenied
<1>1. IInv => NobodyDenied
  <2>1. CASE After
    BY <2>1 DEF IInv, Learnt, Second, NobodyDenied
  <2>2. CASE ~After
    BY <2>2 DEF IInv, Alone, NobodyDenied, Before, After
  <2>3. QED
    BY <2>1, <2>2
<1>2. QED
  BY <1>1, Always, PTL

(***************************************************************************)
(* The types hold, a thread is in a handler or a reader only where the code *)
(* has it, every frame buffer is of the class of its display buffer, and    *)
(* all connectors are of one class, although the rings choose at different  *)
(* times and the dispatch thread goes on learning: what it still learns, a  *)
(* keyboard, is not what they choose by.                                    *)
(***************************************************************************)
THEOREM SameKind == Spec => []OneOfAKind
<1>1. IInv => OneOfAKind
  BY DEF IInv, Typed, Chosen, OneOfAKind
<1>2. QED
  BY <1>1, Always, PTL

=============================================================================
