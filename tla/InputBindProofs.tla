--------------------------- MODULE InputBindProofs ---------------------------
(***************************************************************************)
(* Theorems about InputBind for any frontends, ids and readers, about       *)
(* DevPointer in it, and about DevTouch for a screen of any slots.          *)
(*                                                                          *)
(* What a loop over the parts of an id computes is proved by induction over *)
(* the parts, in the form WFMin gives: a set with 0 and the successors of   *)
(* its members has every number.                                            *)
(***************************************************************************)
EXTENDS InputBind, DevTouch, FiniteSetTheorems, WellFoundedInduction, TLAPS

LEMMA SetInduction ==
  ASSUME NEW S, 0 \in S, \A n \in Nat : n \in S => n + 1 \in S
  PROVE  Nat \subseteq S
<1> DEFINE Less == OpToRel(<, Nat)
           T == Nat \ S
<1>1. IsWellFoundedOn(Less, Nat)
  BY NatLessThanWellFounded, Zenon
<1>2. \A x, y \in Nat : x < y => <<x, y>> \in Less
  BY DEF OpToRel
<1> HIDE DEF Less
<1>3. SUFFICES ASSUME T # {}
               PROVE  FALSE
  OBVIOUS
<1>4. PICK x \in T : \A y \in T : ~(<<y, x>> \in Less)
  <2>1. T \subseteq Nat
    OBVIOUS
  <2>2. QED
    BY <1>1, <1>3, <2>1, WFMin
<1>5. x \in Nat /\ x # 0 /\ x - 1 \in Nat /\ x - 1 < x
  OBVIOUS
<1>6. x - 1 \in S
  BY <1>2, <1>4, <1>5
<1>7. x - 1 + 1 = x
  BY <1>5
<1>8. QED
  BY <1>4, <1>5, <1>6, <1>7

LEMMA LastOf ==
  ASSUME NEW n \in Nat, NEW at, at \subseteq 1..n, at # {}
  PROVE  \E k \in at : \A j \in at : j <= k
<1> DEFINE S == {m \in Nat : \A of \in SUBSET (1..m) : of # {} => \E k \in of : \A j \in of : j <= k}
<1>1. 0 \in S
  <2>1. 1..0 = {}
    OBVIOUS
  <2>2. QED
    BY <2>1
<1>2. ASSUME NEW m \in Nat, m \in S
      PROVE  m + 1 \in S
  <2>1. SUFFICES ASSUME NEW of \in SUBSET (1..(m + 1)), of # {}
                 PROVE  \E k \in of : \A j \in of : j <= k
    OBVIOUS
  <2>2. \A j \in of : j \in Int /\ j <= m + 1
    OBVIOUS
  <2>3. CASE m + 1 \in of
    BY <2>2, <2>3
  <2>4. CASE m + 1 \notin of
    <3>1. of \in SUBSET (1..m)
      BY <2>4
    <3>2. QED
      BY <3>1, <2>1, <1>2
  <2>5. QED
    BY <2>3, <2>4
<1>3. n \in S
  <2> HIDE DEF S
  <2>1. QED
    BY <1>1, <1>2, SetInduction
<1>4. QED
  BY <1>3

-----------------------------------------------------------------------------
(* What parseInputId() finds: the value behind the last key of the class.    *)

\* The same of the first n parts.
NamedBy(ids, c, n) ==
  LET at == {k \in 1..n : ids[k][1] = c}
  IN  IF at = {} THEN "" ELSE ids[CHOOSE k \in at : \A j \in at : j <= k][2]

LEMMA NamedByStep ==
  ASSUME NEW ids, NEW c, NEW n \in Nat
  PROVE  /\ NamedBy(ids, c, 0) = ""
         /\ NamedBy(ids, c, n + 1) = IF ids[n + 1][1] = c THEN ids[n + 1][2] ELSE NamedBy(ids, c, n)
<1> DEFINE at(m) == {k \in 1..m : ids[k][1] = c}
           last(m) == CHOOSE k \in at(m) : \A j \in at(m) : j <= k
<1>0. \A m : NamedBy(ids, c, m) = IF at(m) = {} THEN "" ELSE ids[last(m)][2]
  BY DEF NamedBy
<1>1. at(0) = {}
  OBVIOUS
<1>2. CASE ids[n + 1][1] = c
  <2>1. n + 1 \in at(n + 1) /\ \A j \in at(n + 1) : j \in Int /\ j <= n + 1
    BY <1>2
  <2>2. \A k \in at(n + 1) : (\A j \in at(n + 1) : j <= k) => k = n + 1
    BY <2>1
  <2> HIDE DEF at
  <2>3. last(n + 1) = n + 1
    BY <2>1, <2>2
  <2> HIDE DEF last
  <2>4. QED
    BY <1>0, <1>1, <1>2, <2>1, <2>3
<1>3. CASE ids[n + 1][1] # c
  <2>1. at(n + 1) = at(n)
    BY <1>3
  <2> HIDE DEF at
  <2>2. last(n + 1) = last(n)
    BY <2>1
  <2> HIDE DEF last
  <2>3. QED
    BY <1>0, <1>1, <1>3, <2>1, <2>2
<1>4. QED
  BY <1>2, <1>3

LEMMA ParsedIsNamed ==
  ASSUME NEW ids, NEW c, Len(ids) \in Nat
  PROVE  parseInputId(ids, c) = NamedBy(ids, c, Len(ids))
<1> DEFINE F(h) == [k \in 0..Len(ids) |->
                      IF k = 0 THEN "" ELSE IF ids[k][1] = c THEN ids[k][2] ELSE h[k - 1]]
           g == [k \in 0..Len(ids) |-> NamedBy(ids, c, k)]
           p == Parsed(ids, c)
<1>a. NamedBy(ids, c, 0) = ""
  BY NamedByStep
<1>b. \A n \in Nat : NamedBy(ids, c, n + 1) =
                     IF ids[n + 1][1] = c THEN ids[n + 1][2] ELSE NamedBy(ids, c, n)
  BY NamedByStep, ZenonT(30)
<1>1. p = CHOOSE h : h = F(h)
  BY DEF Parsed
<1>2. g = F(g)
  <2>1. ASSUME NEW k \in 0..Len(ids)
        PROVE  g[k] = F(g)[k]
    <3>1. CASE k = 0
      BY <3>1, <1>a, <1>b
    <3>2. CASE k # 0
      <4>1. k - 1 \in Nat /\ k - 1 \in 0..Len(ids) /\ k - 1 + 1 = k
        BY <3>2
      <4>2. NamedBy(ids, c, k) = IF ids[k][1] = c THEN ids[k][2] ELSE NamedBy(ids, c, k - 1)
        BY <4>1, <1>b
      <4>3. QED
        BY <3>2, <4>1, <4>2
    <3>3. QED
      BY <3>1, <3>2
  <2>2. QED
    BY <2>1
<1>3. p = F(p)
  <2> HIDE DEF F, g, p
  <2>1. \E h : h = F(h)
    BY <1>2
  <2>2. QED
    BY <1>1, <2>1
<1>4. p = [k \in 0..Len(ids) |->
             IF k = 0 THEN "" ELSE IF ids[k][1] = c THEN ids[k][2] ELSE p[k - 1]]
  <2> HIDE DEF p
  <2>1. QED
    BY <1>3
<1> HIDE DEF F, g, p
<1>5. \A k \in 0..Len(ids) :
        p[k] = IF k = 0 THEN "" ELSE IF ids[k][1] = c THEN ids[k][2] ELSE p[k - 1]
  BY <1>4, Zenon
<1> DEFINE S == {n \in Nat : n <= Len(ids) => p[n] = NamedBy(ids, c, n)}
<1>6. 0 \in S
  <2>1. 0 \in 0..Len(ids)
    OBVIOUS
  <2>2. p[0] = ""
    BY <1>5, <2>1
  <2>3. QED
    BY <2>2, <1>a
<1>7. ASSUME NEW n \in Nat, n \in S
      PROVE  n + 1 \in S
  <2>1. CASE n + 1 <= Len(ids)
    <3>1. n <= Len(ids) /\ n + 1 \in 0..Len(ids) /\ n + 1 # 0 /\ n + 1 - 1 = n
      BY <2>1
    <3>2. p[n] = NamedBy(ids, c, n)
      BY <1>7, <3>1
    <3>3. p[n + 1] = IF ids[n + 1][1] = c THEN ids[n + 1][2] ELSE p[n]
      <4> DEFINE m == n + 1
      <4>1. m \in 0..Len(ids) /\ m # 0 /\ m - 1 = n
        BY <3>1
      <4> HIDE DEF m
      <4>2. p[m] = IF m = 0 THEN "" ELSE IF ids[m][1] = c THEN ids[m][2] ELSE p[m - 1]
        BY <1>5, <4>1, Zenon
      <4>3. p[m] = IF ids[m][1] = c THEN ids[m][2] ELSE p[n]
        BY <4>1, <4>2, Zenon
      <4>4. QED
        BY <4>3, Zenon DEF m
    <3>4. p[n + 1] = NamedBy(ids, c, n + 1)
      <4> HIDE DEF S
      <4>1. QED
        BY <3>2, <3>3, <1>b
    <3>5. QED
      BY <3>4
  <2>2. CASE ~(n + 1 <= Len(ids))
    BY <2>2
  <2>3. QED
    BY <2>1, <2>2
<1>8. Len(ids) \in S
  <2> HIDE DEF S
  <2>1. QED
    BY <1>6, <1>7, SetInduction
<1>9. QED
  BY <1>8 DEF parseInputId, p

-----------------------------------------------------------------------------
(* What the pointer holds over, and what it still owes.                      *)

HistoryFields == {"rel", "wheel", "at", "seen", "ended"}

PointerTypes ==
  /\ rel \in Int /\ wheel \in Int
  /\ sendRel \in BOOLEAN /\ sendWheel \in BOOLEAN /\ sendAbs \in BOOLEAN
  /\ DOMAIN history = HistoryFields /\ history.rel \in Int /\ history.wheel \in Int
  /\ history.seen \in BOOLEAN /\ history.ended \in BOOLEAN

\* What is to be sent is marked, and what is marked when a frame has ended
\* came after it.
Marked ==
  /\ "rel" \in frame \/ rel # 0 => sendRel
  /\ "wheel" \in frame \/ wheel # 0 => sendWheel
  /\ history.seen /\ ~sendAbs => history.at = abs
  /\ calls # {} => "moveRelative" \in calls
  /\ calls # {} /\ history.ended =>
       /\ sendRel => "rel" \in frame
       /\ sendWheel => "wheel" \in frame
       /\ "moveAbsolute" \in calls /\ sendAbs => "abs" \in frame

\* The ring owes what is held over from the frames that have ended.
Owing == calls # {} => /\ history.rel = IF "rel" \in frame THEN 0 ELSE rel
                       /\ history.wheel = IF "wheel" \in frame THEN 0 ELSE wheel

Told == PointerTypes /\ Marked /\ Owing

LEMMA ToldInit == PInit => Told
<1> SUFFICES ASSUME PInit PROVE Told
  OBVIOUS
<1>1. /\ rel = 0 /\ wheel = 0 /\ abs = 0 /\ calls = {} /\ frame = {}
      /\ ~sendRel /\ ~sendWheel /\ ~sendAbs
      /\ sendRel \in BOOLEAN /\ sendWheel \in BOOLEAN /\ sendAbs \in BOOLEAN
  BY Zenon DEF PInit
<1>2. /\ DOMAIN history = HistoryFields
      /\ history.rel = 0 /\ history.wheel = 0 /\ history.seen = FALSE /\ history.ended = FALSE
  BY DEF PInit, HistoryInit, HistoryFields
<1>3. PointerTypes
  <2>1. history.seen \in BOOLEAN /\ history.ended \in BOOLEAN
    BY <1>2, Zenon
  <2>2. rel \in Int /\ wheel \in Int /\ history.rel \in Int /\ history.wheel \in Int
    BY <1>1, <1>2
  <2>3. QED
    BY <1>1, <1>2, <2>1, <2>2, Zenon DEF PointerTypes
<1>4. Marked
  BY <1>1, <1>2 DEF Marked
<1>5. Owing
  BY <1>1 DEF Owing
<1>6. QED
  BY <1>3, <1>4, <1>5 DEF Told

LEMMA ToldRel == Told /\ onRelEvent => Told'
<1> SUFFICES ASSUME Told, onRelEvent PROVE Told'
  OBVIOUS
<1> USE DEF Told, PointerTypes, HistoryFields, Marked, Owing, Reads
<1>1. CASE /\ Reads("rel") /\ rel' = 1 /\ sendRel' = TRUE
           /\ history' = [history EXCEPT !.rel = 0]
           /\ UNCHANGED <<wheel, abs, sendWheel, sendAbs, calls>>
  BY <1>1
<1>2. CASE /\ Reads("wheel") /\ wheel' = 1 /\ sendWheel' = TRUE
           /\ history' = [history EXCEPT !.wheel = 0]
           /\ UNCHANGED <<rel, abs, sendRel, sendAbs, calls>>
  BY <1>2
<1>3. QED
  BY <1>1, <1>2 DEF onRelEvent

LEMMA ToldAbs == Told /\ onAbsEvent => Told'
BY DEF onAbsEvent, Told, PointerTypes, HistoryFields, Marked, Owing, Reads

LEMMA ToldSyn == Told /\ onSynEvent => Told'
<1> SUFFICES ASSUME Told, onSynEvent PROVE Told'
  OBVIOUS
<1> DEFINE moves == (sendRel \/ sendWheel) /\ "moveRelative" \in calls
           places == sendAbs /\ "moveAbsolute" \in calls
           sentRel == IF moves THEN rel ELSE 0
           sentWheel == (IF moves THEN wheel ELSE 0) + (IF places THEN WheelLeft(moves) ELSE 0)
           h == IF calls = {} THEN history ELSE Owed(history)
<1>1. /\ frame' = {} /\ abs' = abs /\ calls' = calls
      /\ rel' = (IF moves THEN 0 ELSE rel) /\ wheel' = (IF moves \/ places THEN 0 ELSE wheel)
  BY DEF onSynEvent
<1>2. /\ sendRel' = (sendRel /\ ~moves)
      /\ sendWheel' = (sendWheel /\ ~moves /\ ~places)
      /\ sendAbs' = (sendAbs /\ ~places)
  BY Zenon DEF onSynEvent
<1>3. history' = [h EXCEPT !.rel = @ - sentRel, !.wheel = @ - sentWheel,
                           !.at = IF places THEN abs ELSE @]
  BY DEF onSynEvent
<1>4. /\ DOMAIN h = HistoryFields /\ h.seen = history.seen /\ h.at = history.at
      /\ h.rel \in Int /\ h.wheel \in Int /\ h.ended \in BOOLEAN
      /\ calls # {} => /\ h.rel = rel
                       /\ h.wheel = wheel
  <2>1. CASE calls = {}
    BY <2>1 DEF Told, PointerTypes
  <2>2. CASE calls # {}
    <3>1. h = Owed(history)
      BY <2>2
    <3> HIDE DEF h
    <3>2. /\ DOMAIN h = DOMAIN history /\ h.seen = history.seen /\ h.at = history.at /\ h.ended = TRUE
          /\ h.rel = history.rel + (IF "rel" \in frame THEN rel ELSE 0)
          /\ h.wheel = history.wheel + (IF "wheel" \in frame THEN wheel ELSE 0)
      BY <3>1 DEF Owed, Told, PointerTypes, HistoryFields
    <3>3. h.rel = rel /\ h.rel \in Int
      BY <2>2, <3>2 DEF Told, PointerTypes, Owing
    <3>4. h.wheel = wheel /\ h.wheel \in Int
      BY <2>2, <3>2 DEF Told, PointerTypes, Owing
    <3>5. QED
      BY <3>2, <3>3, <3>4 DEF Told, PointerTypes
  <2>3. QED
    BY <2>1, <2>2
<1>5. sentRel \in Int /\ sentWheel \in Int
      /\ sentRel = (IF moves THEN rel ELSE 0) /\ sentWheel = (IF moves \/ places THEN wheel ELSE 0)
  BY DEF WheelLeft, Told, PointerTypes
<1> HIDE DEF h, sentRel, sentWheel
<1>6. /\ DOMAIN history' = HistoryFields
      /\ history'.rel = h.rel - sentRel /\ history'.wheel = h.wheel - sentWheel
      /\ history'.seen = history.seen /\ history'.ended = h.ended
      /\ history'.at = IF places THEN abs ELSE history.at
  BY <1>3, <1>4 DEF HistoryFields
<1>7. PointerTypes'
  BY <1>1, <1>2, <1>4, <1>5, <1>6 DEF Told, PointerTypes
<1>8. Marked'
  BY <1>1, <1>2, <1>6 DEF Told, PointerTypes, Marked
<1>9. Owing'
  BY <1>1, <1>4, <1>5, <1>6 DEF Told, PointerTypes, Owing
<1>10. QED
  BY <1>7, <1>8, <1>9 DEF Told

LEMMA ToldSet ==
  ASSUME Told, NEW fields, "moveRelative" \in fields, setCallbacks(fields)
  PROVE  Told'
BY DEF setCallbacks, Told, PointerTypes, HistoryFields, Marked, Owing

LEMMA ToldKept == Told /\ UNCHANGED pvars => Told'
BY DEF pvars, Told, PointerTypes, HistoryFields, Marked, Owing

LEMMA ToldStep == Told /\ [Next]_vars => Told'
<1> SUFFICES ASSUME Told, [Next]_vars PROVE Told'
  OBVIOUS
<1>1. \/ UNCHANGED pvars
      \/ onRelEvent \/ onAbsEvent \/ onSynEvent
      \/ \E f \in Frontends : setCallbacks(Fields(f))
  <2>1. ASSUME NEW f \in Frontends, NEW c \in Classes, InputRingBuffer(f, c)
        PROVE  UNCHANGED pvars \/ \E g \in Frontends : setCallbacks(Fields(g))
    <3>1. CASE dev[f][c] = "wl"
      BY <2>1, <3>1 DEF InputRingBuffer
    <3>2. CASE dev[f][c] # "wl"
      BY <2>1, <3>2, Zenon DEF InputRingBuffer
    <3>3. QED
      BY <3>1, <3>2
  <2>2. ASSUME NEW f \in Frontends,
               \/ Parse(f) \/ Fail(f) \/ MapRing(f) \/ addRingBuffer(f) \/ Close(f) \/ Gone(f)
               \/ \E c \in Classes : Create(f, c) \/ Delete(f, c) \/ ReaderCalls(f, c)
        PROVE  UNCHANGED pvars
    BY <2>2, Zenon DEF Parse, Fail, MapRing, addRingBuffer, Close, Gone, Create, Delete, ReaderCalls
  <2>3. CASE ReaderReturns \/ DispatchCalls \/ DispatchReturns
    BY <2>3, Zenon DEF ReaderReturns, DispatchCalls, DispatchReturns
  <2>4. CASE Pointer
    BY <2>4, Zenon DEF Pointer
  <2>5. CASE UNCHANGED vars
    BY <2>5, Zenon DEF vars
  <2>6. QED
    BY <2>1, <2>2, <2>3, <2>4, <2>5, Zenon DEF Next
<1>2. \A f : "moveRelative" \in Fields(f)
  BY DEF Fields
<1>3. QED
  BY <1>1, <1>2, ToldKept, ToldRel, ToldAbs, ToldSyn, ToldSet

(***************************************************************************)
(* Whatever the kernel reports and whenever the ring is bound, its frontend *)
(* has been told, between two frames, every motion, every turn of the wheel *)
(* once and the position that counts                                        *)
(* (DevInput<PointerCallbacks>::onSynEvent(), setCallbacks()).              *)
(***************************************************************************)
THEOREM MotionToldOnce == Spec => []ToldOnce
<1>1. Init => Told
  BY ToldInit DEF Init
<1>2. Told => ToldOnce
  BY DEF Told, PointerTypes, Marked, Owing, ToldOnce
<1>3. QED
  BY <1>1, <1>2, ToldStep, PTL DEF Spec


-----------------------------------------------------------------------------
(* What ids name, and what is made of them.                                  *)

Steady == config \in [Frontends -> Configs]

LEMMA ConnectorOf ==
  ASSUME NEW d \in Configs, NEW k \in DOMAIN d.ids, d.ids[k][2] \notin {"", Path}
  PROVE  d.ids[k][2] \in Connectors
<1>1. d.ids[k][2] \in NamesIn(d)
  BY DEF NamesIn
<1>2. QED
  BY <1>1 DEF Connectors

LEMMA IdIsNamed ==
  ASSUME Steady, NEW f \in Frontends, NEW c \in Classes
  PROVE  /\ Id(f, c) = Named(f, c)
         /\ Id(f, c) \notin {"", Path} => Id(f, c) \in Connectors
<1> DEFINE ids == config[f].ids
           at == {k \in 1..Len(ids) : ids[k][1] = c}
           last == CHOOSE k \in at : \A j \in at : j <= k
<1>1. config[f] \in Configs /\ ids \in Seq(STRING \X STRING)
  BY InputBindAssumption DEF Steady
<1>2. Len(ids) \in Nat /\ DOMAIN ids = 1..Len(ids)
  BY <1>1
<1>3. Id(f, c) = NamedBy(ids, c, Len(ids))
  BY <1>2, ParsedIsNamed DEF Id
<1>4. NamedBy(ids, c, Len(ids)) = IF at = {} THEN "" ELSE ids[last][2]
  BY DEF NamedBy
<1>5. Named(f, c) = IF at = {} THEN "" ELSE ids[last][2]
  BY <1>2 DEF Named
<1>6. ASSUME at # {}
      PROVE  last \in DOMAIN ids
  <2>1. at \subseteq 1..Len(ids)
    OBVIOUS
  <2>2. \E k \in at : \A j \in at : j <= k
    BY <2>1, <1>2, <1>6, LastOf
  <2>3. last \in at
    BY <2>2
  <2>4. QED
    BY <2>3, <1>2
<1> HIDE DEF at, last
<1>7. ASSUME Id(f, c) \notin {"", Path}
      PROVE  Id(f, c) \in Connectors
  <2>1. last \in DOMAIN ids /\ Id(f, c) = ids[last][2]
    BY <1>3, <1>4, <1>6, <1>7
  <2>2. QED
    BY <1>1, <1>7, <2>1, ConnectorOf
<1>8. QED
  BY <1>3, <1>4, <1>5, <1>7

LEMMA KindIs ==
  ASSUME NEW f, NEW c
  PROVE  /\ Kind(f, c) = "evdev" <=> Id(f, c) = Path
         /\ Kind(f, c) = "wl" <=> wayland /\ Id(f, c) \notin {"", Path}
         /\ Kind(f, c) \in {"evdev", "wl", None}
         /\ None # "evdev" /\ None # "wl"
<1>1. Path # "" /\ None # "evdev" /\ None # "wl"
  BY InputBindAssumption
<1>2. CASE Id(f, c) = ""
  BY <1>1, <1>2 DEF Kind
<1>3. CASE Id(f, c) = Path
  BY <1>1, <1>3 DEF Kind
<1>4. CASE Id(f, c) \notin {"", Path}
  BY <1>1, <1>4 DEF Kind
<1>5. QED
  BY <1>2, <1>3, <1>4

LEMMA Frozen ==
  ASSUME UNCHANGED <<config, wayland>>
  PROVE  /\ \A f, c : Id(f, c)' = Id(f, c) /\ Kind(f, c)' = Kind(f, c) /\ Shared(f, c)' = Shared(f, c)
         /\ Steady' = Steady
<1>1. \A f, c : Id(f, c)' = Id(f, c)
  BY DEF Id
<1>2. \A f, c : Kind(f, c)' = Kind(f, c)
  BY <1>1 DEF Kind
<1>3. \A f, c : Named(f, c)' = Named(f, c)
  BY DEF Named
<1>4. \A f, c : Shared(f, c)' = Shared(f, c)
  BY <1>3 DEF Shared
<1>5. QED
  BY <1>1, <1>2, <1>4 DEF Steady

-----------------------------------------------------------------------------
(* The devices and the callbacks of a frontend, by where its thread is.      *)

Phase(f) ==
  /\ pc[f] = "new" => todo[f] = {}
  /\ pc[f] \in {"new", "gone", "failed"} => \A c \in Classes : dev[f][c] = None
  /\ pc[f] = "create" => \A c \in Classes : dev[f][c] = IF c \in todo[f] THEN None ELSE Kind(f, c)
  /\ pc[f] \in {"ring", "bound"} =>
       /\ \A c \in Classes : dev[f][c] = Kind(f, c)
       /\ todo[f] \subseteq Asked(f)
       /\ heard[f] = {c \in Asked(f) \ todo[f] : dev[f][c] = "evdev"}
  /\ pc[f] = "bound" => todo[f] = {}
  /\ pc[f] \in {"close", "unwind"} =>
       \A c \in Classes : dev[f][c] = IF c \in todo[f] THEN Kind(f, c) ELSE None
  /\ ~Alive(f) => heard[f] = {}
  /\ \A c \in heard[f] : dev[f][c] = "evdev"

\* A device of a connector that no other frontend names has its callbacks there.
Kept(f) ==
  pc[f] \in {"ring", "bound"} =>
    \A c \in Asked(f) \ todo[f] : dev[f][c] = "wl" /\ ~Shared(f, c) => store[c][Id(f, c)] = f

\* The callbacks of a connector belong to a live ring that asked for them.
Holds(f, c, k) == /\ Alive(f) /\ dev[f][c] = "wl" /\ Id(f, c) = k
                  /\ c = "T" => config[f].reqMTouch
Owner == \A c \in Classes, k \in Connectors : store[c][k] # None => Holds(store[c][k], c, k)

\* A call is under way in a live ring, and its device is there.
Called ==
  /\ \A call \in reader : Alive(call[1]) /\ dev[call[1]][call[2]] = "evdev"
  /\ dispatch # None => Alive(dispatch[1]) /\ dev[dispatch[1]][dispatch[2]] = "wl"

IInv == TypeOK /\ Steady /\ (\A f \in Frontends : Phase(f) /\ Kept(f)) /\ Owner /\ Called

\* What a step leaves alone of a frontend.
Same(f) == pc'[f] = pc[f] /\ todo'[f] = todo[f] /\ dev'[f] = dev[f] /\ heard'[f] = heard[f]

LEMMA SamePhase ==
  ASSUME NEW f, UNCHANGED <<config, wayland>>, Same(f)
  PROVE  /\ Phase(f) => Phase(f)'
         /\ Asked(f)' = Asked(f) /\ Alive(f)' = Alive(f)
         /\ Kept(f) /\ UNCHANGED store => Kept(f)'
         /\ \A c, k : Holds(f, c, k) => Holds(f, c, k)'
<1>1. Alive(f)' = Alive(f) /\ Asked(f)' = Asked(f)
  BY DEF Same, Alive, Asked
<1>2. \A c : Id(f, c)' = Id(f, c) /\ Kind(f, c)' = Kind(f, c) /\ Shared(f, c)' = Shared(f, c)
  BY Frozen
<1>3. Phase(f) => Phase(f)'
  BY <1>1, <1>2 DEF Same, Phase
<1>4. Kept(f) /\ UNCHANGED store => Kept(f)'
  BY <1>1, <1>2 DEF Same, Kept
<1>5. \A c, k : Holds(f, c, k) => Holds(f, c, k)'
  BY <1>1, <1>2 DEF Same, Holds
<1>6. QED
  BY <1>1, <1>3, <1>4, <1>5

\* A step of one frontend that stores no callbacks: what is left to show.
LEMMA OwnStep ==
  ASSUME IInv, UNCHANGED <<config, wayland, store, reader, dispatch>>,
         NEW f \in Frontends, \A g \in Frontends \ {f} : Same(g),
         TypeOK', Phase(f)', Kept(f)',
         \A c \in Classes : Alive(f) /\ dev[f][c] # None => Alive(f)' /\ dev'[f][c] = dev[f][c]
  PROVE  IInv'
<1>1. \A g \in Frontends : Phase(g)' /\ Kept(g)'
  BY SamePhase DEF IInv
<1>2. \A g \in Frontends, c \in Classes : Alive(g) /\ dev[g][c] # None => Alive(g)' /\ dev'[g][c] = dev[g][c]
  BY SamePhase DEF Same
<1>3. Steady'
  BY DEF IInv, Steady
<1>4. None # "wl" /\ None # "evdev"
  BY KindIs
<1>5. Owner'
  <2>1. ASSUME NEW c \in Classes, NEW k \in Connectors, store[c][k] # None
        PROVE  Holds(store[c][k], c, k)'
    <3>1. store[c][k] \in Frontends /\ Holds(store[c][k], c, k)
      BY <2>1 DEF IInv, Owner, TypeOK
    <3>2. Id(store[c][k], c)' = Id(store[c][k], c)
      BY Frozen
    <3>3. QED
      BY <3>1, <3>2, <1>2, <1>4 DEF Holds
  <2>2. QED
    BY <2>1 DEF Owner
<1>6. Called'
  BY <1>2, <1>4 DEF IInv, Called, TypeOK
<1>7. QED
  BY <1>1, <1>3, <1>5, <1>6 DEF IInv

LEMMA ParseStep == ASSUME IInv, NEW f \in Frontends, Parse(f) PROVE IInv'
<1>1. /\ UNCHANGED <<config, wayland, store, reader, dispatch>>
      /\ \A g \in Frontends \ {f} : Same(g)
  BY DEF Parse, Same, IInv, TypeOK
<1>2. TypeOK'
  BY DEF Parse, IInv, TypeOK
<1>3. \A c : Id(f, c)' = Id(f, c) /\ Kind(f, c)' = Kind(f, c) /\ Shared(f, c)' = Shared(f, c)
  BY <1>1, Frozen
<1>4. \A c : Kind(f, c) \in {"evdev", "wl", None} /\ None # "wl" /\ None # "evdev"
  BY KindIs
<1>5. Phase(f)'
  BY <1>1, <1>3, <1>4 DEF Parse, IInv, TypeOK, Phase, Asked, Alive
<1>6. Kept(f)'
  BY <1>1, <1>3, <1>4 DEF Parse, IInv, TypeOK, Phase, Kept, Asked
<1>7. \A c \in Classes : Alive(f) /\ dev[f][c] # None => Alive(f)' /\ dev'[f][c] = dev[f][c]
  BY DEF Parse, IInv, TypeOK, Phase, Alive
<1>8. QED
  BY <1>1, <1>2, <1>5, <1>6, <1>7, OwnStep

LEMMA FailStep == ASSUME IInv, NEW f \in Frontends, Fail(f) PROVE IInv'
<1>1. /\ UNCHANGED <<config, wayland, store, reader, dispatch>>
      /\ \A g \in Frontends \ {f} : Same(g)
  BY DEF Fail, Same, IInv, TypeOK
<1>2. TypeOK'
  BY DEF Fail, IInv, TypeOK
<1>3. \A c : Id(f, c)' = Id(f, c) /\ Kind(f, c)' = Kind(f, c) /\ Shared(f, c)' = Shared(f, c)
  BY <1>1, Frozen
<1>4. \A c : Kind(f, c) \in {"evdev", "wl", None} /\ None # "wl" /\ None # "evdev"
  BY KindIs
<1>5. Phase(f)'
  BY <1>1, <1>3, <1>4 DEF Fail, IInv, TypeOK, Phase, Asked, Alive
<1>6. Kept(f)'
  BY <1>1, <1>3, <1>4 DEF Fail, IInv, TypeOK, Phase, Kept, Asked
<1>7. \A c \in Classes : Alive(f) /\ dev[f][c] # None => Alive(f)' /\ dev'[f][c] = dev[f][c]
  BY DEF Fail, IInv, TypeOK, Phase, Alive
<1>8. QED
  BY <1>1, <1>2, <1>5, <1>6, <1>7, OwnStep

LEMMA MapRingStep == ASSUME IInv, NEW f \in Frontends, MapRing(f) PROVE IInv'
<1>1. /\ UNCHANGED <<config, wayland, store, reader, dispatch>>
      /\ \A g \in Frontends \ {f} : Same(g)
  BY DEF MapRing, Same, IInv, TypeOK
<1>2. TypeOK'
  BY DEF MapRing, IInv, TypeOK, Asked
<1>3. \A c : Id(f, c)' = Id(f, c) /\ Kind(f, c)' = Kind(f, c) /\ Shared(f, c)' = Shared(f, c)
  BY <1>1, Frozen
<1>4. \A c : Kind(f, c) \in {"evdev", "wl", None} /\ None # "wl" /\ None # "evdev"
  BY KindIs
<1>5. Phase(f)'
  <2>1. /\ pc'[f] = "ring" /\ todo'[f] = Asked(f) /\ dev' = dev /\ heard' = heard
        /\ pc[f] = "create" /\ todo[f] = {}
    BY DEF MapRing, IInv, TypeOK
  <2>2. /\ \A c \in Classes : dev[f][c] = Kind(f, c)
        /\ heard[f] = {}
    BY <2>1 DEF IInv, Phase, Alive
  <2>3. Asked(f)' = Asked(f)
    BY <1>1, <2>1 DEF Asked
  <2>4. Alive(f)'
    BY <2>1 DEF Alive
  <2>5. QED
    BY <1>3, <2>1, <2>2, <2>3, <2>4 DEF Phase
<1>6. Kept(f)'
  BY <1>1, <1>3, <1>4 DEF MapRing, IInv, TypeOK, Phase, Kept, Asked
<1>7. \A c \in Classes : Alive(f) /\ dev[f][c] # None => Alive(f)' /\ dev'[f][c] = dev[f][c]
  BY DEF MapRing, IInv, TypeOK, Phase, Alive
<1>8. QED
  BY <1>1, <1>2, <1>5, <1>6, <1>7, OwnStep

LEMMA addRingBufferStep == ASSUME IInv, NEW f \in Frontends, addRingBuffer(f) PROVE IInv'
<1>1. /\ UNCHANGED <<config, wayland, store, reader, dispatch>>
      /\ \A g \in Frontends \ {f} : Same(g)
  BY DEF addRingBuffer, Same, IInv, TypeOK
<1>2. TypeOK'
  BY DEF addRingBuffer, IInv, TypeOK
<1>3. \A c : Id(f, c)' = Id(f, c) /\ Kind(f, c)' = Kind(f, c) /\ Shared(f, c)' = Shared(f, c)
  BY <1>1, Frozen
<1>4. \A c : Kind(f, c) \in {"evdev", "wl", None} /\ None # "wl" /\ None # "evdev"
  BY KindIs
<1>5. Phase(f)'
  BY <1>1, <1>3, <1>4 DEF addRingBuffer, IInv, TypeOK, Phase, Asked, Alive
<1>6. Kept(f)'
  BY <1>1, <1>3, <1>4 DEF addRingBuffer, IInv, TypeOK, Phase, Kept, Asked
<1>7. \A c \in Classes : Alive(f) /\ dev[f][c] # None => Alive(f)' /\ dev'[f][c] = dev[f][c]
  BY DEF addRingBuffer, IInv, TypeOK, Phase, Alive
<1>8. QED
  BY <1>1, <1>2, <1>5, <1>6, <1>7, OwnStep

LEMMA CloseStep == ASSUME IInv, NEW f \in Frontends, Close(f) PROVE IInv'
<1>1. /\ UNCHANGED <<config, wayland, store, reader, dispatch>>
      /\ \A g \in Frontends \ {f} : Same(g)
  BY DEF Close, Same, IInv, TypeOK
<1>2. TypeOK'
  BY DEF Close, IInv, TypeOK
<1>3. \A c : Id(f, c)' = Id(f, c) /\ Kind(f, c)' = Kind(f, c) /\ Shared(f, c)' = Shared(f, c)
  BY <1>1, Frozen
<1>4. \A c : Kind(f, c) \in {"evdev", "wl", None} /\ None # "wl" /\ None # "evdev"
  BY KindIs
<1>5. Phase(f)'
  BY <1>1, <1>3, <1>4 DEF Close, IInv, TypeOK, Phase, Asked, Alive
<1>6. Kept(f)'
  BY <1>1, <1>3, <1>4 DEF Close, IInv, TypeOK, Phase, Kept, Asked
<1>7. \A c \in Classes : Alive(f) /\ dev[f][c] # None => Alive(f)' /\ dev'[f][c] = dev[f][c]
  BY DEF Close, IInv, TypeOK, Phase, Alive
<1>8. QED
  BY <1>1, <1>2, <1>5, <1>6, <1>7, OwnStep

LEMMA GoneStep == ASSUME IInv, NEW f \in Frontends, Gone(f) PROVE IInv'
<1>1. /\ UNCHANGED <<config, wayland, store, reader, dispatch>>
      /\ \A g \in Frontends \ {f} : Same(g)
  BY DEF Gone, Same, IInv, TypeOK
<1>2. TypeOK'
  BY DEF Gone, IInv, TypeOK
<1>3. \A c : Id(f, c)' = Id(f, c) /\ Kind(f, c)' = Kind(f, c) /\ Shared(f, c)' = Shared(f, c)
  BY <1>1, Frozen
<1>4. \A c : Kind(f, c) \in {"evdev", "wl", None} /\ None # "wl" /\ None # "evdev"
  BY KindIs
<1>5. Phase(f)'
  <2>1. /\ pc[f] \in {"close", "unwind"} /\ todo[f] = {} /\ Phase(f)
        /\ pc'[f] \in {"gone", "failed"} /\ UNCHANGED <<todo, dev, heard>>
    BY DEF Gone, IInv, TypeOK
  <2>2. \A c \in Classes : dev[f][c] = None
    BY <2>1 DEF Phase
  <2>3. heard[f] = {}
    BY <2>1, <2>2, <1>4 DEF Phase, IInv, TypeOK
  <2>4. QED
    BY <2>1, <2>2, <2>3 DEF Phase
<1>6. Kept(f)'
  BY <1>1, <1>3, <1>4 DEF Gone, IInv, TypeOK, Phase, Kept, Asked
<1>7. \A c \in Classes : Alive(f) /\ dev[f][c] # None => Alive(f)' /\ dev'[f][c] = dev[f][c]
  BY DEF Gone, IInv, TypeOK, Phase, Alive
<1>8. QED
  BY <1>1, <1>2, <1>5, <1>6, <1>7, OwnStep

LEMMA CreateStep == ASSUME IInv, NEW f \in Frontends, NEW c \in Classes, Create(f, c) PROVE IInv'
<1>1. /\ UNCHANGED <<config, wayland, store, reader, dispatch>>
      /\ \A g \in Frontends \ {f} : Same(g)
  BY DEF Create, Same, IInv, TypeOK
<1>2. Kind(f, c) \in {"evdev", "wl", None}
  BY KindIs
<1>3. TypeOK'
  BY <1>2 DEF Create, IInv, TypeOK
<1>4. \A d : Kind(f, d)' = Kind(f, d)
  BY <1>1, Frozen
<1>5. /\ pc[f] = "create" /\ pc'[f] = "create" /\ heard'[f] = heard[f]
      /\ todo'[f] = todo[f] \ {c}
      /\ \A d \in Classes : dev'[f][d] = IF d = c THEN Kind(f, c) ELSE dev[f][d]
  BY DEF Create, IInv, TypeOK
<1>6. Phase(f) /\ ~Alive(f)
  BY <1>5 DEF IInv, Alive
<1>7. Phase(f)'
  BY <1>4, <1>5, <1>6 DEF Phase, Alive
<1>8. Kept(f)'
  BY <1>5 DEF Kept
<1>9. QED
  BY <1>1, <1>3, <1>6, <1>7, <1>8, OwnStep

LEMMA RingStep == ASSUME IInv, NEW f \in Frontends, NEW c \in Classes, InputRingBuffer(f, c) PROVE IInv'
<1>1. /\ UNCHANGED <<config, wayland, reader, dispatch, pc, dev>>
      /\ pc[f] = "ring" /\ c \in todo[f] /\ todo' = [todo EXCEPT ![f] = @ \ {c}]
  BY Zenon DEF InputRingBuffer
<1>2. Phase(f) /\ Kept(f)
  BY DEF IInv
<1>3. c \in Asked(f) /\ dev[f][c] = Kind(f, c) /\ dev[f][c] # None
  BY <1>1, <1>2 DEF Phase, Asked
<1>4. \A d : Id(f, d)' = Id(f, d) /\ Kind(f, d)' = Kind(f, d) /\ Shared(f, d)' = Shared(f, d)
  BY <1>1, Frozen
<1>5. Asked(f)' = Asked(f) /\ todo'[f] = todo[f] \ {c} /\ Alive(f) /\ Alive(f)'
  BY <1>1 DEF Asked, Alive, IInv, TypeOK
<1>6. CASE dev[f][c] = "wl"
  <2>1. store' = setInputCallbacks(f, c) /\ UNCHANGED heard
    BY <1>6 DEF InputRingBuffer
  <2>2. \A g \in Frontends \ {f} : Same(g)
    BY <1>1, <2>1 DEF Same, IInv, TypeOK
  <2>3. Id(f, c) \in Connectors
    BY <1>3, <1>6, KindIs, IdIsNamed DEF IInv
  <2>4. \A d \in Classes, k \in Connectors :
          store'[d][k] = IF d = c /\ k = Id(f, c) THEN f ELSE store[d][k]
    BY <2>1 DEF setInputCallbacks, IInv, TypeOK
  <2>5. TypeOK'
    <3>1. store' \in [Classes -> [Connectors -> Frontends \cup {None}]]
      BY <2>1 DEF setInputCallbacks, IInv, TypeOK
    <3>2. QED
      BY <1>1, <2>1, <3>1 DEF IInv, TypeOK
  <2>6. None # "evdev" /\ "wl" # "evdev"
    BY KindIs
  <2>7. Phase(f)'
    BY <1>1, <1>2, <1>4, <1>5, <1>6, <2>1, <2>6 DEF Phase
  <2>8. Kept(f)'
    <3>1. ASSUME NEW d \in Asked(f) \ (todo[f] \ {c}), dev[f][d] = "wl", ~Shared(f, d)
          PROVE  store'[d][Id(f, d)] = f
      <4>0. d \in Classes /\ Kind(f, d) = "wl"
        BY <1>1, <1>2, <3>1 DEF Asked, Phase
      <4>1. d \in Classes /\ Id(f, d) \in Connectors
        BY <4>0, KindIs, IdIsNamed DEF IInv
      <4>2. CASE d = c
        BY <2>4, <4>1, <4>2
      <4>3. CASE d # c
        BY <1>1, <1>2, <2>4, <3>1, <4>1, <4>3 DEF Kept
      <4>4. QED
        BY <4>2, <4>3
    <3>2. QED
      BY <1>1, <1>4, <1>5, <3>1 DEF Kept
  <2>9. ASSUME NEW g \in Frontends \ {f}
        PROVE  Phase(g)' /\ Kept(g)'
    <3>1. Same(g) /\ Phase(g) /\ Kept(g) /\ Asked(g)' = Asked(g) /\ Phase(g)'
      BY <1>1, <2>2, SamePhase DEF IInv
    <3>2. \A d : Id(g, d)' = Id(g, d) /\ Shared(g, d)' = Shared(g, d)
      BY <1>1, Frozen
    <3>3. ASSUME NEW d \in Asked(g) \ todo[g], pc[g] \in {"ring", "bound"},
                 dev[g][d] = "wl", ~Shared(g, d)
          PROVE  store'[d][Id(g, d)] = g
      <4>0. d \in Classes /\ Kind(g, d) = "wl"
        BY <3>1, <3>3 DEF Asked, Phase
      <4>1. d \in Classes /\ Id(g, d) \in Connectors
        BY <4>0, KindIs, IdIsNamed DEF IInv
      <4>2. Named(f, d) # Named(g, d)
        BY <3>3 DEF Shared
      <4>3. Id(f, d) # Id(g, d)
        BY <4>1, <4>2, IdIsNamed DEF IInv
      <4>4. store[d][Id(g, d)] = g
        BY <3>1, <3>3 DEF Kept
      <4>5. QED
        BY <2>4, <4>1, <4>3, <4>4
    <3>4. QED
      BY <3>1, <3>2, <3>3 DEF Kept, Same
  <2>10. Owner'
    <3>1. ASSUME NEW d \in Classes, NEW k \in Connectors, NEW g, g = store'[d][k], g # None
          PROVE  Holds(g, d, k)'
      <4>1. CASE d = c /\ k = Id(f, c)
        <5>1. g = f
          BY <2>4, <3>1, <4>1
        <5>2. c = "T" => config'[f].reqMTouch
          BY <1>1, <1>3 DEF Asked
        <5>3. QED
          BY <1>1, <1>4, <1>5, <1>6, <4>1, <5>1, <5>2 DEF Holds
      <4>2. CASE ~(d = c /\ k = Id(f, c))
        <5>1. g = store[d][k] /\ Holds(g, d, k)
          BY <2>4, <3>1, <4>2 DEF IInv, Owner
        <5>2. Alive(g)' = Alive(g) /\ Id(g, d)' = Id(g, d)
          BY <1>1, Frozen DEF Alive
        <5>3. QED
          BY <5>1, <5>2, <1>1 DEF Holds
      <4>3. QED
        BY <4>1, <4>2
    <3>2. QED
      BY <3>1 DEF Owner
  <2>11. Called' /\ Steady'
    BY <1>1 DEF IInv, Called, Alive, Steady
  <2>12. QED
    BY <2>5, <2>7, <2>8, <2>9, <2>10, <2>11 DEF IInv
<1>7. CASE dev[f][c] # "wl"
  <2>1. heard' = [heard EXCEPT ![f] = @ \cup {c}] /\ UNCHANGED store
    BY <1>7, Zenon DEF InputRingBuffer
  <2>2. \A g \in Frontends \ {f} : Same(g)
    BY <1>1, <2>1 DEF Same, IInv, TypeOK
  <2>3. TypeOK'
    BY <1>1, <2>1 DEF IInv, TypeOK
  <2>4. dev[f][c] = "evdev"
    BY <1>3, <1>7, KindIs
  <2>5. heard'[f] = heard[f] \cup {c}
    BY <2>1 DEF IInv, TypeOK
  <2>6. Phase(f)'
    BY <1>1, <1>2, <1>3, <1>4, <1>5, <2>4, <2>5 DEF Phase
  <2>7. Kept(f)'
    BY <1>1, <1>2, <1>4, <1>5, <2>1, <2>4 DEF Kept
  <2>8. QED
    BY <1>1, <1>5, <2>1, <2>2, <2>3, <2>6, <2>7, OwnStep
<1>8. QED
  BY <1>6, <1>7

LEMMA DeleteStep == ASSUME IInv, NEW f \in Frontends, NEW c \in Classes, Delete(f, c) PROVE IInv'
<1>1. /\ UNCHANGED <<config, wayland, reader, dispatch, pc>>
      /\ pc[f] \in {"close", "unwind"} /\ c \in todo[f] /\ todo' = [todo EXCEPT ![f] = @ \ {c}]
      /\ dev' = [dev EXCEPT ![f][c] = None] /\ heard' = [heard EXCEPT ![f] = @ \ {c}]
  BY DEF Delete
<1>2. \A g, d : Id(g, d)' = Id(g, d) /\ Kind(g, d)' = Kind(g, d) /\ Shared(g, d)' = Shared(g, d)
  BY <1>1, Frozen
<1>3. None # "evdev" /\ None # "wl" /\ "wl" # "evdev"
  BY KindIs
<1>4. Phase(f) /\ \A d \in Classes : dev'[f][d] = IF d = c THEN None ELSE dev[f][d]
  BY <1>1 DEF IInv, TypeOK
<1>5. \A g \in Frontends \ {f} : Same(g)
  BY <1>1 DEF Same, IInv, TypeOK
<1>6. \A g : Alive(g)' = Alive(g)
  BY <1>1 DEF Alive
<1>7. store' = (IF dev[f][c] = "wl" THEN clearInputCallbacks(f, c) ELSE store)
      /\ IF dev[f][c] = "wl" THEN Unlocked(c) ELSE <<f, c>> \notin reader
  BY DEF Delete
<1>8. dev[f][c] = "wl" => Id(f, c) \in Connectors
  <2>1. dev[f][c] = Kind(f, c)
    BY <1>1, <1>4 DEF Phase
  <2>2. QED
    BY <2>1, KindIs, IdIsNamed DEF IInv
<1>9. \A d \in Classes, k \in Connectors :
        store'[d][k] = IF dev[f][c] = "wl" /\ d = c /\ k = Id(f, c) THEN None ELSE store[d][k]
  BY <1>7 DEF clearInputCallbacks, IInv, TypeOK
<1>10. TypeOK'
  <2>1. store' \in [Classes -> [Connectors -> Frontends \cup {None}]]
    BY <1>7 DEF clearInputCallbacks, IInv, TypeOK
  <2>2. QED
    BY <1>1, <2>1 DEF IInv, TypeOK
<1>11. Phase(f)'
  <2>1. todo'[f] = todo[f] \ {c} /\ heard'[f] = heard[f] \ {c}
    BY <1>1 DEF IInv, TypeOK
  <2>2. heard[f] \subseteq Classes
    BY DEF IInv, TypeOK
  <2>3. QED
    BY <1>1, <1>2, <1>4, <1>6, <2>1, <2>2 DEF Phase
<1>12. Kept(f)'
  BY <1>1 DEF Kept
<1>13. ASSUME NEW g \in Frontends \ {f}
       PROVE  Phase(g)' /\ Kept(g)'
  <2>1. Same(g) /\ Phase(g) /\ Kept(g) /\ Asked(g)' = Asked(g) /\ Phase(g)'
    BY <1>1, <1>5, SamePhase DEF IInv
  <2>2. ASSUME NEW d \in Asked(g) \ todo[g], pc[g] \in {"ring", "bound"},
               dev[g][d] = "wl", ~Shared(g, d)
        PROVE  store'[d][Id(g, d)] = g
    <3>1. d \in Classes /\ Kind(g, d) = "wl"
      BY <2>1, <2>2 DEF Asked, Phase
    <3>2. Id(g, d) \in Connectors
      BY <3>1, KindIs, IdIsNamed DEF IInv
    <3>3. Named(f, d) # Named(g, d)
      BY <2>2 DEF Shared
    <3>4. Id(f, d) # Id(g, d)
      BY <3>1, <3>3, IdIsNamed DEF IInv
    <3>5. store[d][Id(g, d)] = g
      BY <2>1, <2>2 DEF Kept
    <3>6. QED
      BY <1>9, <3>1, <3>2, <3>4, <3>5
  <2>3. QED
    BY <1>2, <2>1, <2>2 DEF Kept, Same
<1>14. Owner'
  <2>1. ASSUME NEW d \in Classes, NEW k \in Connectors, NEW g, g = store'[d][k], g # None
        PROVE  Holds(g, d, k)'
    <3>1. g = store[d][k] /\ Holds(g, d, k) /\ g \in Frontends
      BY <1>9, <2>1 DEF IInv, Owner, TypeOK
    <3>2. g = f => d # c
      BY <1>9, <2>1, <3>1 DEF Holds
    <3>3. dev'[g][d] = dev[g][d]
      BY <1>4, <1>5, <3>1, <3>2 DEF Same
    <3>4. QED
      BY <1>1, <1>2, <1>6, <3>1, <3>3 DEF Holds
  <2>2. QED
    BY <2>1 DEF Owner
<1>15. Called'
  <2>1. ASSUME NEW g \in Frontends, NEW d \in Classes, <<g, d>> \in reader \/ dispatch = <<g, d>>
        PROVE  Alive(g)' /\ dev'[g][d] = dev[g][d]
    <3>1. Alive(g) /\ (<<g, d>> \in reader => dev[g][d] = "evdev")
                   /\ (dispatch = <<g, d>> => dev[g][d] = "wl")
      <4>1. <<g, d>> # None
        <5>1. <<g, d>> \in Frontends \X Classes
          OBVIOUS
        <5>2. QED
          BY <5>1, InputBindAssumption, Zenon
      <4>2. QED
        BY <2>1, <4>1 DEF IInv, Called
    <3>2. <<g, d>> # <<f, c>>
      BY <1>3, <1>7, <2>1, <3>1 DEF Unlocked
    <3>3. QED
      BY <1>4, <1>5, <1>6, <3>1, <3>2 DEF Same
  <2>2. \A call \in reader : Alive(call[1])' /\ dev'[call[1]][call[2]] = "evdev"
    <3>1. TAKE call \in reader
    <3>2. PICK g \in Frontends, d \in Classes : call = <<g, d>>
      BY DEF IInv, TypeOK
    <3>3. Alive(g)' /\ dev'[g][d] = dev[g][d] /\ dev[call[1]][call[2]] = "evdev"
      BY <2>1, <3>2 DEF IInv, Called
    <3>4. QED
      BY <3>2, <3>3
  <2>3. ASSUME dispatch # None
        PROVE  Alive(dispatch[1])' /\ dev'[dispatch[1]][dispatch[2]] = "wl"
    <3>1. PICK g \in Frontends, d \in Classes : dispatch = <<g, d>>
      BY <2>3 DEF IInv, TypeOK
    <3>2. Alive(g)' /\ dev'[g][d] = dev[g][d] /\ dev[dispatch[1]][dispatch[2]] = "wl"
      BY <2>1, <2>3, <3>1 DEF IInv, Called
    <3>3. dispatch' = <<g, d>>
      BY <1>1, <3>1
    <3>4. QED
      BY <3>1, <3>2, <3>3
  <2>4. QED
    BY <1>1, <2>2, <2>3 DEF Called
<1>16. Steady'
  BY <1>1 DEF IInv, Steady
<1>17. QED
  BY <1>10, <1>11, <1>12, <1>13, <1>14, <1>15, <1>16 DEF IInv

\* The threads that call change nothing but who is called.
LEMMA ThreadStep ==
  ASSUME IInv, UNCHANGED <<config, wayland, pc, todo, dev, heard, store>>,
         reader' \subseteq Frontends \X Classes, dispatch' \in (Frontends \X Classes) \cup {None},
         Called'
  PROVE  IInv'
<1>1. TypeOK' /\ Steady'
  BY DEF IInv, TypeOK, Steady
<1>2. \A f \in Frontends : Phase(f)' /\ Kept(f)'
  BY SamePhase DEF IInv, Same
<1>3. Owner'
  <2>1. \A f, c, k : Holds(f, c, k) => Holds(f, c, k)'
    BY SamePhase DEF Same
  <2>2. QED
    BY <2>1 DEF IInv, Owner
<1>4. QED
  BY <1>1, <1>2, <1>3 DEF IInv

LEMMA CallStep ==
  ASSUME IInv,
         \/ Pointer \/ ReaderReturns \/ DispatchCalls \/ DispatchReturns \/ UNCHANGED vars
         \/ \E f \in Frontends, c \in Classes : ReaderCalls(f, c)
  PROVE  IInv'
<1>0. Called /\ reader \subseteq Frontends \X Classes /\ dispatch \in (Frontends \X Classes) \cup {None}
  BY DEF IInv, TypeOK
<1>1. CASE Pointer \/ UNCHANGED vars
  <2>1. UNCHANGED bvars
    BY <1>1, Zenon DEF Pointer, vars
  <2>2. QED
    BY <1>0, <2>1, ThreadStep DEF bvars, Called, Alive
<1>2. CASE ReaderReturns
  BY <1>0, <1>2, ThreadStep DEF ReaderReturns, Called, Alive
<1>3. CASE DispatchReturns
  BY <1>0, <1>3, ThreadStep DEF DispatchReturns, Called, Alive
<1>4. CASE DispatchCalls
  <2>1. PICK c \in Classes, k \in Connectors : store[c][k] # None /\ dispatch' = <<store[c][k], c>>
    BY <1>4 DEF DispatchCalls
  <2>2. store[c][k] \in Frontends /\ Alive(store[c][k]) /\ dev[store[c][k]][c] = "wl"
    BY <2>1 DEF IInv, TypeOK, Owner, Holds
  <2>3. UNCHANGED <<config, wayland, pc, todo, dev, heard, store, reader>>
    BY <1>4 DEF DispatchCalls
  <2>4. QED
    BY <1>0, <2>1, <2>2, <2>3, ThreadStep DEF Called, Alive
<1>5. ASSUME NEW f \in Frontends, NEW c \in Classes, ReaderCalls(f, c)
      PROVE  IInv'
  <2>1. UNCHANGED <<config, wayland, pc, todo, dev, heard, store, dispatch>>
        /\ reader' = reader \cup {<<f, c>>} /\ dev[f][c] = "evdev" /\ c \in heard[f]
    BY <1>5 DEF ReaderCalls
  <2>2. Alive(f)
    BY <2>1 DEF IInv, Phase
  <2>3. Called'
    BY <1>0, <2>1, <2>2 DEF Called, Alive
  <2>4. QED
    BY <1>0, <2>1, <2>3, ThreadStep
<1>6. QED
  BY <1>1, <1>2, <1>3, <1>4, <1>5

LEMMA IInvStep == IInv /\ [Next]_vars => IInv'
BY ParseStep, FailStep, MapRingStep, addRingBufferStep, CloseStep, GoneStep, CreateStep, RingStep,
   DeleteStep, CallStep DEF Next

LEMMA IInvInit == Init => IInv
<1> SUFFICES ASSUME Init PROVE IInv
  OBVIOUS
<1>1. TypeOK /\ Steady
  BY DEF Init, TypeOK, Steady
<1>2. \A f \in Frontends : Phase(f) /\ Kept(f)
  BY DEF Init, Phase, Kept, Alive
<1>3. Owner /\ Called
  BY DEF Init, Owner, Called
<1>4. QED
  BY <1>1, <1>2, <1>3 DEF IInv

(***************************************************************************)
(* However binds and ends of rings overlap with the threads that call, a    *)
(* call finds the members of its ring, or is one of a device the destructor *)
(* has still to delete, and a bind that failed or a ring that is gone       *)
(* leaves no device (InputRingBuffer, ~WlInput, ~DevInput).                 *)
(***************************************************************************)
THEOREM RingsOutliveCalls == Spec => []CallsReachLiveRings
<1>1. IInv => CallsReachLiveRings
  <2> SUFFICES ASSUME IInv PROVE CallsReachLiveRings
    OBVIOUS
  <2>1. ASSUME NEW f \in Frontends, NEW c \in Classes, Alive(f), dev[f][c] \in {"evdev", "wl"}
        PROVE  Whole(f) \/ Outlasts(f, c)
    <3>1. None \notin {"evdev", "wl"}
      BY InputBindAssumption
    <3>2. pc[f] = "close" => dev[f][c] = IF c \in todo[f] THEN Kind(f, c) ELSE None
      BY DEF IInv, Phase
    <3>3. QED
      BY <2>1, <3>1, <3>2 DEF Alive, Whole, Outlasts
  <2>2. TypeOK
    BY DEF IInv
  <2>4. \A call \in reader : Whole(call[1]) \/ Outlasts(call[1], call[2])
    <3> SUFFICES ASSUME NEW call \in reader
                 PROVE  Whole(call[1]) \/ Outlasts(call[1], call[2])
      OBVIOUS
    <3>1. call[1] \in Frontends /\ call[2] \in Classes
      BY <2>2 DEF TypeOK
    <3>2. Alive(call[1]) /\ dev[call[1]][call[2]] = "evdev"
      BY DEF IInv, Called
    <3>3. QED
      BY <2>1, <3>1, <3>2
  <2>5. dispatch # None => Whole(dispatch[1]) \/ Outlasts(dispatch[1], dispatch[2])
    <3> SUFFICES ASSUME dispatch # None
                 PROVE  Whole(dispatch[1]) \/ Outlasts(dispatch[1], dispatch[2])
      OBVIOUS
    <3>1. dispatch[1] \in Frontends /\ dispatch[2] \in Classes
      BY <2>2 DEF TypeOK
    <3>2. Alive(dispatch[1]) /\ dev[dispatch[1]][dispatch[2]] = "wl"
      BY DEF IInv, Called
    <3>3. QED
      BY <2>1, <3>1, <3>2
  <2>6. \A c \in Classes, k \in Connectors : store[c][k] # None =>
          Whole(store[c][k]) \/ Outlasts(store[c][k], c)
    <3> SUFFICES ASSUME NEW c \in Classes, NEW k \in Connectors, store[c][k] # None
                 PROVE  Whole(store[c][k]) \/ Outlasts(store[c][k], c)
      OBVIOUS
    <3>1. store[c][k] \in Frontends
      BY <2>2 DEF TypeOK
    <3>2. Alive(store[c][k]) /\ dev[store[c][k]][c] = "wl"
      BY DEF IInv, Owner, Holds
    <3>3. QED
      BY <2>1, <3>1, <3>2
  <2>3. \A f \in Frontends : pc[f] \in {"new", "failed", "gone"} =>
          heard[f] = {} /\ \A c \in Classes : dev[f][c] = None
    BY DEF IInv, Phase, Alive
  <2>7. QED
    BY <2>2, <2>3, <2>4, <2>5, <2>6 DEF CallsReachLiveRings
<1>2. QED
  BY <1>1, IInvInit, IInvStep, PTL DEF Spec

(***************************************************************************)
(* A bound frontend has every device that its id names and the callbacks it *)
(* asked for, whatever its id repeats or leaves out and whatever the other  *)
(* frontends do meanwhile (onBind(), parseInputId(), createInputDevice()).  *)
(***************************************************************************)
THEOREM BindIsComplete == Spec => []BoundInFull
<1>1. IInv => BoundInFull
  <2> SUFFICES ASSUME IInv, NEW f \in Frontends, NEW c \in Classes, pc[f] = "bound"
               PROVE  LET on == Named(f, c)
                          asked == c = "T" => config[f].reqMTouch
                      IN  /\ dev[f][c] = "evdev" <=> on = Path
                          /\ dev[f][c] = "wl" <=> wayland /\ on \notin {Path, ""}
                          /\ c \in heard[f] <=> on = Path /\ asked
                          /\ wayland /\ on \in Connectors /\ ~Shared(f, c) => (store[c][on] = f <=> asked)
    BY DEF BoundInFull
  <2> DEFINE on == Named(f, c)
             asked == c = "T" => config[f].reqMTouch
  <2>1. Id(f, c) = on
    BY IdIsNamed DEF IInv
  <2>2. /\ dev[f][c] = Kind(f, c) /\ todo[f] = {}
        /\ c \in heard[f] <=> c \in Asked(f) /\ dev[f][c] = "evdev"
    BY DEF IInv, Phase
  <2>3. /\ dev[f][c] = "evdev" <=> on = Path
        /\ dev[f][c] = "wl" <=> wayland /\ on \notin {Path, ""}
        /\ None # "evdev" /\ None # "wl"
    BY <2>1, <2>2, KindIs
  <2>4. c \in heard[f] <=> on = Path /\ asked
    BY <2>2, <2>3 DEF Asked
  <2>5. ASSUME wayland, on \in Connectors, ~Shared(f, c)
        PROVE  store[c][on] = f <=> asked
    <3>1. on \notin {Path, ""}
      BY <2>5 DEF Connectors
    <3>2. dev[f][c] = "wl"
      BY <2>3, <2>5, <3>1
    <3>3. ASSUME asked
          PROVE  store[c][on] = f
      <4>1. c \in Asked(f) \ todo[f]
        BY <2>2, <2>3, <3>2, <3>3 DEF Asked
      <4>2. QED
        BY <2>1, <2>5, <3>2, <4>1 DEF IInv, Kept
    <3>4. ASSUME store[c][on] = f
          PROVE  asked
      <4>1. f # None
        BY InputBindAssumption
      <4>2. QED
        BY <2>5, <3>4, <4>1 DEF IInv, Owner, Holds
    <3>5. QED
      BY <3>3, <3>4
  <2>6. QED
    BY <2>3, <2>4, <2>5
<1>2. QED
  BY <1>1, IInvInit, IInvStep, PTL DEF Spec

-----------------------------------------------------------------------------
(* The touch screen.  Driven says where the reader is in a frame and what the *)
(* device has of it; upon it, the frontend of a protocol B screen is told     *)
(* slot by slot (SlotsAgree, NothingLeft), and of a protocol A screen one     *)
(* contact of the list after the other (ListAgrees).                          *)

\* The fields of the device and a pair of them with a view.
DeviceFields == [key : {0, 1}, sendKey : BOOLEAN, sendAbs : BOOLEAN, mtReport : BOOLEAN,
                 lastMtReports : Numbers, currentSlot : Numbers, contacts : [Numbers -> Contact]]
Work == [t : DeviceFields, v : Series!Views]

LEMMA Callbacks ==
  /\ stored = 3 => {"down", "up", "motion"} \subseteq StoredCallbacks
  /\ stored = 0 => StoredCallbacks = {}
<1>1. ASSUME stored = 3
      PROVE  {"down", "up", "motion"} \subseteq StoredCallbacks
  <2>1. 1 \in 1..stored /\ 2 \in 1..stored /\ 3 \in 1..stored
    BY <1>1
  <2>2. /\ <<"down", "up", "motion">>[1] = "down" /\ <<"down", "up", "motion">>[2] = "up"
        /\ <<"down", "up", "motion">>[3] = "motion"
    OBVIOUS
  <2>3. QED
    BY <2>1, <2>2, Zenon DEF StoredCallbacks
<1>2. stored = 0 => StoredCallbacks = {}
  BY DEF StoredCallbacks
<1>3. QED
  BY <1>1, <1>2

\* What an event changes in a view.
LEMMA SeenDown ==
  ASSUME NEW v \in Series!Views, NEW c \in Numbers, NEW p \in Places
  PROVE  LET r == Series!SeeDown(v, c, p) IN
         /\ r \in Series!Views /\ r.at[c] = p
         /\ \A d \in Numbers \ {c} : r.at[d] = v.at[d]
         /\ v.inTurn /\ v.at[c] = Series!Nowhere => r.inTurn
<1>1. v.at \in [Numbers -> Places \cup {Series!Nowhere}] /\ v.inTurn \in BOOLEAN
  BY DEF Series!Views
<1>2. c \in Series!DownIn(v) <=> v.at[c] # Series!Nowhere
  BY DEF Series!DownIn
<1>3. QED
  BY <1>1, <1>2 DEF Series!SeeDown, Series!Views

LEMMA SeenUp ==
  ASSUME NEW v \in Series!Views, NEW c \in Numbers
  PROVE  LET r == Series!SeeUp(v, c) IN
         /\ r \in Series!Views /\ r.at[c] = Series!Nowhere
         /\ \A d \in Numbers \ {c} : r.at[d] = v.at[d]
         /\ v.inTurn /\ v.at[c] # Series!Nowhere => r.inTurn
<1>1. v.at \in [Numbers -> Places \cup {Series!Nowhere}] /\ v.inTurn \in BOOLEAN
  BY DEF Series!Views
<1>2. c \in Series!DownIn(v) <=> v.at[c] # Series!Nowhere
  BY DEF Series!DownIn
<1>3. QED
  BY <1>1, <1>2 DEF Series!SeeUp, Series!Views

LEMMA SeenMotion ==
  ASSUME NEW v \in Series!Views, NEW c \in Numbers, NEW p \in Places
  PROVE  LET r == Series!SeeMotion(v, c, p) IN
         /\ r \in Series!Views
         /\ \A d \in Numbers \ {c} : r.at[d] = v.at[d]
         /\ v.at[c] = Series!Nowhere => r.at = v.at
         /\ v.at[c] # Series!Nowhere => r.at[c] = p /\ (v.inTurn => r.inTurn)
<1>1. v.at \in [Numbers -> Places \cup {Series!Nowhere}] /\ v.inTurn \in BOOLEAN
  BY DEF Series!Views
<1>2. c \in Series!DownIn(v) <=> v.at[c] # Series!Nowhere
  BY DEF Series!DownIn
<1>3. QED
  BY <1>1, <1>2 DEF Series!SeeMotion, Series!Views

LEMMA KeyFlushed ==
  ASSUME NEW w \in Work
  PROVE  LET r == FlushKey(w)  c == w.t.currentSlot IN
         /\ r \in Work
         /\ r.t.currentSlot = c /\ r.t.mtReport = w.t.mtReport /\ r.t.key = w.t.key
         /\ r.t.lastMtReports = w.t.lastMtReports /\ r.t.sendKey = FALSE
         /\ \A d \in Numbers : r.t.contacts[d].pos = w.t.contacts[d].pos
         /\ \A d \in Numbers : r.t.contacts[d].id \in {w.t.contacts[d].id, NoId}
         /\ \A d \in Numbers \ {c} : r.v.at[d] = w.v.at[d]
         /\ w.t.sendKey = FALSE => r.v = w.v
         /\ stored = 0 => r.v = w.v
         /\ r.t.sendAbs = FALSE \/ r.t.sendAbs = w.t.sendAbs
         /\ stored = 3 /\ w.t.sendKey /\ w.t.key = 1 =>
              /\ r.t.sendAbs = FALSE /\ r.v.at[c] = w.t.contacts[c].pos
              /\ w.v.inTurn /\ w.v.at[c] = Series!Nowhere => r.v.inTurn
         /\ stored = 3 /\ w.t.sendKey /\ w.t.key = 0 =>
              /\ r.v.at[c] = Series!Nowhere
              /\ w.v.inTurn /\ w.v.at[c] # Series!Nowhere => r.v.inTurn
<1> DEFINE t == w.t
           c == t.currentSlot
           done == [t EXCEPT !.sendKey = FALSE]
           r == FlushKey(w)
<1>1. /\ t \in DeviceFields /\ w.v \in Series!Views /\ c \in Numbers /\ w = [t |-> t, v |-> w.v]
      /\ t.contacts[c].pos \in Places /\ t.contacts \in [Numbers -> Contact]
      /\ t.key \in {0, 1} /\ t.sendKey \in BOOLEAN
  BY DEF Work, DeviceFields, Contact
<1>2. /\ done \in DeviceFields
      /\ done.currentSlot = c /\ done.mtReport = t.mtReport /\ done.key = t.key
      /\ done.lastMtReports = t.lastMtReports /\ done.sendKey = FALSE /\ done.sendAbs = t.sendAbs
      /\ done.contacts = t.contacts
  BY <1>1 DEF DeviceFields
<1> HIDE DEF done
<1>r. \/ r = [t |-> [done EXCEPT !.sendAbs = FALSE], v |-> Series!SeeDown(w.v, c, t.contacts[c].pos)]
         \/ ~(t.sendKey /\ t.key = 1 /\ "down" \in StoredCallbacks)
  BY DEF FlushKey, done
<1>3. CASE t.sendKey /\ t.key = 1 /\ "down" \in StoredCallbacks
  <2>1. r = [t |-> [done EXCEPT !.sendAbs = FALSE], v |-> Series!SeeDown(w.v, c, t.contacts[c].pos)]
    BY <1>3, <1>r
  <2>2. /\ [done EXCEPT !.sendAbs = FALSE] \in DeviceFields
        /\ Series!SeeDown(w.v, c, t.contacts[c].pos) \in Series!Views
    BY <1>1, <1>2, SeenDown DEF DeviceFields
  <2>3. /\ r.t.currentSlot = c /\ r.t.mtReport = w.t.mtReport /\ r.t.key = w.t.key
        /\ r.t.lastMtReports = w.t.lastMtReports /\ r.t.sendKey = FALSE /\ r.t.sendAbs = FALSE
        /\ r.t.contacts = w.t.contacts
    BY <2>1, <1>2 DEF DeviceFields
  <2>4. /\ \A d \in Numbers \ {c} : r.v.at[d] = w.v.at[d]
        /\ r.v.at[c] = w.t.contacts[c].pos
        /\ w.v.inTurn /\ w.v.at[c] = Series!Nowhere => r.v.inTurn
    <3>1. LET d == Series!SeeDown(w.v, c, t.contacts[c].pos) IN
            /\ d.at[c] = t.contacts[c].pos
            /\ \A n \in Numbers \ {c} : d.at[n] = w.v.at[n]
            /\ w.v.inTurn /\ w.v.at[c] = Series!Nowhere => d.inTurn
      BY <1>1, SeenDown
    <3>2. r.v = Series!SeeDown(w.v, c, t.contacts[c].pos)
      BY <2>1
    <3>3. QED
      BY <3>1, <3>2, Zenon
  <2>5. r \in Work
    BY <2>1, <2>2 DEF Work
  <2>6. stored # 0
    BY <1>3, Callbacks
  <2>7. QED
    BY <2>3, <2>4, <2>5, <2>6, <1>3, <1>1
<1>4. CASE t.sendKey /\ t.key = 0 /\ "up" \in StoredCallbacks
  <2>1. r = [t |-> [done EXCEPT !.contacts[c].id = NoId], v |-> Series!SeeUp(w.v, c)]
    BY <1>4, <1>1 DEF FlushKey, done
  <2>a. /\ [done.contacts EXCEPT ![c].id = NoId] \in [Numbers -> Contact]
        /\ \A d \in Numbers : [done.contacts EXCEPT ![c].id = NoId][d].pos = done.contacts[d].pos
        /\ \A d \in Numbers : [done.contacts EXCEPT ![c].id = NoId][d].id \in {done.contacts[d].id, NoId}
    BY <1>1, <1>2 DEF Contact
  <2>b. [done EXCEPT !.contacts[c].id = NoId] = [done EXCEPT !.contacts = [done.contacts EXCEPT ![c].id = NoId]]
    BY <1>2 DEF DeviceFields
  <2>2. /\ [done EXCEPT !.contacts[c].id = NoId] \in DeviceFields
        /\ Series!SeeUp(w.v, c) \in Series!Views
    <3>1. Series!SeeUp(w.v, c) \in Series!Views
      BY <1>1, SeenUp
    <3>2. [done EXCEPT !.contacts[c].id = NoId] \in DeviceFields
      BY <2>a, <2>b, <1>2 DEF DeviceFields
    <3>3. QED
      BY <3>1, <3>2
  <2>3. /\ r.t.currentSlot = c /\ r.t.mtReport = w.t.mtReport /\ r.t.key = w.t.key
        /\ r.t.lastMtReports = w.t.lastMtReports /\ r.t.sendKey = FALSE /\ r.t.sendAbs = w.t.sendAbs
        /\ r.t.contacts = [done.contacts EXCEPT ![c].id = NoId]
    BY <2>1, <2>b, <1>2 DEF DeviceFields
  <2>4. /\ \A d \in Numbers : r.t.contacts[d].pos = w.t.contacts[d].pos
        /\ \A d \in Numbers : r.t.contacts[d].id \in {w.t.contacts[d].id, NoId}
    BY <2>3, <2>a, <1>2
  <2>5. /\ \A d \in Numbers \ {c} : r.v.at[d] = w.v.at[d]
        /\ r.v.at[c] = Series!Nowhere
        /\ w.v.inTurn /\ w.v.at[c] # Series!Nowhere => r.v.inTurn
    <3>1. LET u == Series!SeeUp(w.v, c) IN
            /\ u.at[c] = Series!Nowhere
            /\ \A n \in Numbers \ {c} : u.at[n] = w.v.at[n]
            /\ w.v.inTurn /\ w.v.at[c] # Series!Nowhere => u.inTurn
      BY <1>1, SeenUp
    <3>2. r.v = Series!SeeUp(w.v, c)
      BY <2>1
    <3>3. QED
      BY <3>1, <3>2, Zenon
  <2>6. r \in Work
    BY <2>1, <2>2 DEF Work
  <2>7. stored # 0
    BY <1>4, Callbacks
  <2>8. QED
    BY <2>3, <2>4, <2>5, <2>6, <2>7, <1>4, <1>1
<1>5. CASE ~(t.sendKey /\ t.key = 1 /\ "down" \in StoredCallbacks)
           /\ ~(t.sendKey /\ t.key = 0 /\ "up" \in StoredCallbacks)
  <2>1. r = [w EXCEPT !.t = done]
    BY <1>5 DEF FlushKey, done
  <2>2. r.t = done /\ r.v = w.v /\ r \in Work
    BY <2>1, <1>1, <1>2 DEF Work
  <2>3. ~(stored = 3 /\ t.sendKey)
    BY <1>1, <1>5, Callbacks
  <2>4. QED
    BY <2>2, <2>3, <1>1, <1>2 DEF DeviceFields
<1>6. QED
  BY <1>3, <1>4, <1>5

LEMMA AbsFlushed ==
  ASSUME NEW w \in Work
  PROVE  LET r == FlushAbs(w)  c == w.t.currentSlot IN
         /\ r \in Work
         /\ r.t.currentSlot = c /\ r.t.mtReport = w.t.mtReport /\ r.t.key = w.t.key
         /\ r.t.lastMtReports = w.t.lastMtReports /\ r.t.sendKey = w.t.sendKey
         /\ r.t.contacts = w.t.contacts
         /\ \A d \in Numbers \ {c} : r.v.at[d] = w.v.at[d]
         /\ w.t.sendAbs = FALSE => r.v = w.v
         /\ stored = 0 => r.v = w.v
         /\ stored = 3 => r.t.sendAbs = FALSE
         /\ w.v.at[c] = Series!Nowhere => r.v.at = w.v.at
         /\ r.v.at[c] = w.v.at[c] \/ r.v.at[c] = w.t.contacts[c].pos
         /\ stored = 3 /\ w.t.sendAbs /\ w.v.at[c] # Series!Nowhere =>
              /\ r.v.at[c] = w.t.contacts[c].pos
              /\ w.v.inTurn => r.v.inTurn
<1> DEFINE t == w.t
           c == t.currentSlot
           done == [t EXCEPT !.sendAbs = FALSE]
           r == FlushAbs(w)
<1>1. /\ t \in DeviceFields /\ w.v \in Series!Views /\ c \in Numbers
      /\ t.contacts[c].pos \in Places /\ t.sendAbs \in BOOLEAN
  BY DEF Work, DeviceFields, Contact
<1>2. CASE t.sendAbs /\ "motion" \in StoredCallbacks
  <2>1. r.t = done /\ r.v = Series!SeeMotion(w.v, c, t.contacts[c].pos)
        /\ r = [t |-> done, v |-> Series!SeeMotion(w.v, c, t.contacts[c].pos)]
    BY <1>2 DEF FlushAbs
  <2>2. done \in DeviceFields /\ Series!SeeMotion(w.v, c, t.contacts[c].pos) \in Series!Views
    <3>1. done \in DeviceFields
      BY <1>1 DEF DeviceFields
    <3>2. Series!SeeMotion(w.v, c, t.contacts[c].pos) \in Series!Views
      BY <1>1, SeenMotion
    <3>3. QED
      BY <3>1, <3>2
  <2>3. /\ r.t.currentSlot = c /\ r.t.mtReport = w.t.mtReport /\ r.t.key = w.t.key
        /\ r.t.lastMtReports = w.t.lastMtReports /\ r.t.sendKey = w.t.sendKey /\ r.t.sendAbs = FALSE
        /\ r.t.contacts = w.t.contacts
    BY <2>1, <1>1 DEF DeviceFields
  <2>4. /\ \A d \in Numbers \ {c} : r.v.at[d] = w.v.at[d]
        /\ w.v.at[c] = Series!Nowhere => r.v.at = w.v.at
        /\ w.v.at[c] # Series!Nowhere => r.v.at[c] = w.t.contacts[c].pos /\ (w.v.inTurn => r.v.inTurn)
    <3>1. LET m == Series!SeeMotion(w.v, c, t.contacts[c].pos) IN
            /\ m \in Series!Views
            /\ \A n \in Numbers \ {c} : m.at[n] = w.v.at[n]
            /\ w.v.at[c] = Series!Nowhere => m.at = w.v.at
            /\ w.v.at[c] # Series!Nowhere => m.at[c] = t.contacts[c].pos /\ (w.v.inTurn => m.inTurn)
      <4> HIDE DEF t, c
      <4>1. QED
        BY <1>1, SeenMotion
    <3>2. r.v = Series!SeeMotion(w.v, c, t.contacts[c].pos)
      BY <2>1
    <3> HIDE DEF r
    <3>3. QED
      BY <3>1, <3>2
  <2>5. r \in Work
    BY <2>1, <2>2 DEF Work
  <2>6. stored # 0
    BY <1>2, Callbacks
  <2>7. QED
    BY <2>3, <2>4, <2>5, <2>6, <1>2
<1>3. CASE ~(t.sendAbs /\ "motion" \in StoredCallbacks)
  <2>1. r = w
    BY <1>3 DEF FlushAbs
  <2>2. ~(stored = 3 /\ t.sendAbs)
    BY <1>3, Callbacks
  <2>3. QED
    BY <2>1, <2>2, <1>1
<1>4. QED
  BY <1>2, <1>3

\* What flushEvents() does to the contact of the current slot.
LEMMA Flushed ==
  ASSUME NEW w \in Work
  PROVE  LET r == FlushEvents(w)  c == w.t.currentSlot IN
         /\ r \in Work
         /\ r.t.currentSlot = c /\ r.t.mtReport = w.t.mtReport /\ r.t.key = w.t.key
         /\ r.t.lastMtReports = w.t.lastMtReports /\ r.t.sendKey = FALSE
         /\ \A d \in Numbers : r.t.contacts[d].pos = w.t.contacts[d].pos
         /\ \A d \in Numbers : r.t.contacts[d].id \in {w.t.contacts[d].id, NoId}
         /\ \A d \in Numbers \ {c} : r.v.at[d] = w.v.at[d]
         /\ stored = 0 => r.v = w.v
         /\ stored = 3 => r.t.sendAbs = FALSE
         /\ w.t.sendKey = FALSE /\ w.t.sendAbs = FALSE => r.v = w.v
         /\ stored = 3 /\ w.t.sendKey /\ w.t.key = 1 =>
              /\ r.v.at[c] = w.t.contacts[c].pos
              /\ w.v.inTurn /\ w.v.at[c] = Series!Nowhere => r.v.inTurn
         /\ stored = 3 /\ w.t.sendKey /\ w.t.key = 0 =>
              /\ r.v.at[c] = Series!Nowhere
              /\ w.v.inTurn /\ w.v.at[c] # Series!Nowhere /\ w.t.sendAbs = FALSE => r.v.inTurn
         /\ stored = 3 /\ w.t.sendKey = FALSE =>
              /\ w.v.at[c] = Series!Nowhere => r.v.at[c] = Series!Nowhere
              /\ w.v.at[c] # Series!Nowhere =>
                   /\ r.v.at[c] = IF w.t.sendAbs THEN w.t.contacts[c].pos ELSE w.v.at[c]
                   /\ w.v.inTurn => r.v.inTurn
<1> DEFINE c == w.t.currentSlot
           k == FlushKey(w)
           r == FlushEvents(w)
<1>1. /\ k \in Work
      /\ k.t.currentSlot = c /\ k.t.mtReport = w.t.mtReport /\ k.t.key = w.t.key
      /\ k.t.lastMtReports = w.t.lastMtReports /\ k.t.sendKey = FALSE
      /\ \A d \in Numbers : k.t.contacts[d].pos = w.t.contacts[d].pos
      /\ \A d \in Numbers : k.t.contacts[d].id \in {w.t.contacts[d].id, NoId}
      /\ \A d \in Numbers \ {c} : k.v.at[d] = w.v.at[d]
  BY KeyFlushed
<1>2. /\ w.t.sendKey = FALSE => k.v = w.v
      /\ stored = 0 => k.v = w.v
      /\ k.t.sendAbs = FALSE \/ k.t.sendAbs = w.t.sendAbs
      /\ stored = 3 /\ w.t.sendKey /\ w.t.key = 1 =>
           /\ k.t.sendAbs = FALSE /\ k.v.at[c] = w.t.contacts[c].pos
           /\ w.v.inTurn /\ w.v.at[c] = Series!Nowhere => k.v.inTurn
      /\ stored = 3 /\ w.t.sendKey /\ w.t.key = 0 =>
           /\ k.v.at[c] = Series!Nowhere
           /\ w.v.inTurn /\ w.v.at[c] # Series!Nowhere => k.v.inTurn
  BY KeyFlushed
<1>k. w.t.sendKey = FALSE => k.t.sendAbs = w.t.sendAbs
  BY DEF FlushKey, Work, DeviceFields
<1>3. c \in Numbers /\ w.t.contacts[c].pos # Series!Nowhere /\ w.t.sendAbs \in BOOLEAN
  BY PlacesAssumption DEF Work, DeviceFields, Contact, Series!Nowhere
<1>4. r = FlushAbs(k)
  BY DEF FlushEvents
<1> HIDE DEF k, r
<1>5. /\ r \in Work
      /\ r.t.currentSlot = c /\ r.t.mtReport = k.t.mtReport /\ r.t.key = k.t.key
      /\ r.t.lastMtReports = k.t.lastMtReports /\ r.t.sendKey = k.t.sendKey
      /\ r.t.contacts = k.t.contacts
      /\ \A d \in Numbers \ {c} : r.v.at[d] = k.v.at[d]
  <2>1. LET f == FlushAbs(k)  n == k.t.currentSlot IN
          /\ f \in Work
          /\ f.t.currentSlot = n /\ f.t.mtReport = k.t.mtReport /\ f.t.key = k.t.key
          /\ f.t.lastMtReports = k.t.lastMtReports /\ f.t.sendKey = k.t.sendKey
          /\ f.t.contacts = k.t.contacts
          /\ \A d \in Numbers \ {n} : f.v.at[d] = k.v.at[d]
    BY <1>1, AbsFlushed
  <2>2. QED
    BY <1>1, <1>4, <2>1
<1>6. /\ k.t.sendAbs = FALSE => r.v = k.v
      /\ stored = 0 => r.v = k.v
      /\ stored = 3 => r.t.sendAbs = FALSE
      /\ k.v.at[c] = Series!Nowhere => r.v.at = k.v.at
      /\ stored = 3 /\ k.t.sendAbs /\ k.v.at[c] # Series!Nowhere =>
           /\ r.v.at[c] = k.t.contacts[c].pos
           /\ k.v.inTurn => r.v.inTurn
  <2>1. /\ k.t.sendAbs = FALSE => r.v = k.v
        /\ stored = 0 => r.v = k.v
        /\ stored = 3 => r.t.sendAbs = FALSE
        /\ k.v.at[k.t.currentSlot] = Series!Nowhere => r.v.at = k.v.at
        /\ stored = 3 /\ k.t.sendAbs /\ k.v.at[k.t.currentSlot] # Series!Nowhere =>
             /\ r.v.at[k.t.currentSlot] = k.t.contacts[k.t.currentSlot].pos
             /\ k.v.inTurn => r.v.inTurn
    BY <1>1, <1>4, AbsFlushed, Zenon
  <2>2. k.t.currentSlot = c
    BY <1>1
  <2>3. QED
    BY <2>1, <2>2, Zenon
<1>7. /\ r \in Work
      /\ r.t.currentSlot = c /\ r.t.mtReport = w.t.mtReport /\ r.t.key = w.t.key
      /\ r.t.lastMtReports = w.t.lastMtReports /\ r.t.sendKey = FALSE
      /\ \A d \in Numbers : r.t.contacts[d].pos = w.t.contacts[d].pos
      /\ \A d \in Numbers : r.t.contacts[d].id \in {w.t.contacts[d].id, NoId}
      /\ \A d \in Numbers \ {c} : r.v.at[d] = w.v.at[d]
  BY <1>1, <1>5
<1>8. /\ stored = 0 => r.v = w.v
      /\ stored = 3 => r.t.sendAbs = FALSE
      /\ w.t.sendKey = FALSE /\ w.t.sendAbs = FALSE => r.v = w.v
  BY <1>2, <1>6, <1>k
<1>9. stored = 3 /\ w.t.sendKey /\ w.t.key = 1 =>
        /\ r.v.at[c] = w.t.contacts[c].pos
        /\ w.v.inTurn /\ w.v.at[c] = Series!Nowhere => r.v.inTurn
  BY <1>2, <1>6
<1>10. stored = 3 /\ w.t.sendKey /\ w.t.key = 0 =>
        /\ r.v.at[c] = Series!Nowhere
        /\ w.v.inTurn /\ w.v.at[c] # Series!Nowhere /\ w.t.sendAbs = FALSE => r.v.inTurn
  BY <1>2, <1>6
<1>11. ASSUME stored = 3, w.t.sendKey = FALSE
       PROVE  /\ w.v.at[c] = Series!Nowhere => r.v.at[c] = Series!Nowhere
              /\ w.v.at[c] # Series!Nowhere =>
                   /\ r.v.at[c] = IF w.t.sendAbs THEN w.t.contacts[c].pos ELSE w.v.at[c]
                   /\ w.v.inTurn => r.v.inTurn
  BY <1>1, <1>2, <1>3, <1>6, <1>11, <1>k
<1>12. QED
  BY <1>7, <1>8, <1>9, <1>10, <1>11 DEF r

-----------------------------------------------------------------------------
(* The effect of each event on the fields and the view.                      *)

\* flushEvents() with contact c current, and pend, key as mSendKey, mKey.
Flushes(c, pend, key) ==
  /\ touch' \in DeviceFields /\ view' \in Series!Views
  /\ touch'.sendKey = FALSE
  /\ \A d \in Numbers : touch'.contacts[d].pos = touch.contacts[d].pos
  /\ \A d \in Numbers : touch'.contacts[d].id \in {touch.contacts[d].id, NoId}
  /\ \A d \in Numbers \ {c} : view'.at[d] = view.at[d]
  /\ stored = 0 => view' = view
  /\ stored = 3 => touch'.sendAbs = FALSE
  /\ pend = FALSE /\ touch.sendAbs = FALSE => view' = view
  /\ stored = 3 /\ pend /\ key = 1 =>
       /\ view'.at[c] = touch.contacts[c].pos
       /\ view.inTurn /\ view.at[c] = Series!Nowhere => view'.inTurn
  /\ stored = 3 /\ pend /\ key = 0 =>
       /\ view'.at[c] = Series!Nowhere
       /\ view.inTurn /\ view.at[c] # Series!Nowhere /\ touch.sendAbs = FALSE => view'.inTurn
  /\ stored = 3 /\ pend = FALSE =>
       /\ view.at[c] = Series!Nowhere => view'.at[c] = Series!Nowhere
       /\ view.at[c] # Series!Nowhere =>
            /\ view'.at[c] = IF touch.sendAbs THEN touch.contacts[c].pos ELSE view.at[c]
            /\ view.inTurn => view'.inTurn

\* What an action that does not flush leaves alone.
Keeps == view' = view /\ touch' \in DeviceFields

LEMMA NowIsWork == ASSUME TTypeOK PROVE Now \in Work /\ touch \in DeviceFields /\ view \in Series!Views
  BY DEF TTypeOK, Now, Work, DeviceFields

LEMMA SetKey ==
  ASSUME NEW w \in Work, NEW k \in {0, 1}
  PROVE  /\ WithKey(w, k) \in Work /\ WithKey(w, k).v = w.v
         /\ WithKey(w, k).t = [w.t EXCEPT !.key = k, !.sendKey = TRUE]
<1>1. w.t \in DeviceFields /\ w.v \in Series!Views /\ w = [t |-> w.t, v |-> w.v]
  BY DEF Work
<1>2. [w.t EXCEPT !.key = k, !.sendKey = TRUE] \in DeviceFields
  BY <1>1 DEF DeviceFields
<1>3. WithKey(w, k) = [t |-> [w.t EXCEPT !.key = k, !.sendKey = TRUE], v |-> w.v]
  <2>1. WithKey(w, k) = [[w EXCEPT !.t.key = k] EXCEPT !.t.sendKey = TRUE]
    BY DEF WithKey
  <2>2. [w EXCEPT !.t.key = k] = [t |-> [w.t EXCEPT !.key = k], v |-> w.v]
    BY <1>1
  <2>3. WithKey(w, k) = [t |-> [[w.t EXCEPT !.key = k] EXCEPT !.sendKey = TRUE], v |-> w.v]
    BY <2>1, <2>2
  <2>4. QED
    BY <2>3
<1>4. QED
  BY <1>1, <1>2, <1>3 DEF Work

LEMMA SetSlot ==
  ASSUME NEW w \in Work, NEW c \in Numbers
  PROVE  /\ WithSlot(w, c) \in Work /\ WithSlot(w, c).v = w.v
         /\ WithSlot(w, c).t = [w.t EXCEPT !.currentSlot = c]
<1>1. w.t \in DeviceFields /\ w.v \in Series!Views /\ w = [t |-> w.t, v |-> w.v]
  BY DEF Work
<1>2. [w.t EXCEPT !.currentSlot = c] \in DeviceFields
  BY <1>1 DEF DeviceFields
<1>3. WithSlot(w, c) = [t |-> [w.t EXCEPT !.currentSlot = c], v |-> w.v]
  BY <1>1 DEF WithSlot
<1>4. QED
  BY <1>1, <1>2, <1>3 DEF Work

\* A flush of a pair that has the contacts, the view and mSendAbs as they are.
LEMMA FlushesWork ==
  ASSUME NEW w \in Work, w.v = view, w.t.contacts = touch.contacts, w.t.sendAbs = touch.sendAbs,
         view' = FlushEvents(w).v, touch' \in DeviceFields,
         touch'.sendKey = FlushEvents(w).t.sendKey, touch'.sendAbs = FlushEvents(w).t.sendAbs,
         touch'.contacts = FlushEvents(w).t.contacts
  PROVE  Flushes(w.t.currentSlot, w.t.sendKey, w.t.key)
<1> DEFINE r == FlushEvents(w)  c == w.t.currentSlot
<1>1. /\ r \in Work /\ r.t.sendKey = FALSE
      /\ \A d \in Numbers : r.t.contacts[d].pos = w.t.contacts[d].pos
      /\ \A d \in Numbers : r.t.contacts[d].id \in {w.t.contacts[d].id, NoId}
      /\ \A d \in Numbers \ {c} : r.v.at[d] = w.v.at[d]
      /\ stored = 0 => r.v = w.v
      /\ stored = 3 => r.t.sendAbs = FALSE
      /\ w.t.sendKey = FALSE /\ w.t.sendAbs = FALSE => r.v = w.v
  BY Flushed
<1>2. /\ stored = 3 /\ w.t.sendKey /\ w.t.key = 1 =>
           /\ r.v.at[c] = w.t.contacts[c].pos
           /\ w.v.inTurn /\ w.v.at[c] = Series!Nowhere => r.v.inTurn
      /\ stored = 3 /\ w.t.sendKey /\ w.t.key = 0 =>
           /\ r.v.at[c] = Series!Nowhere
           /\ w.v.inTurn /\ w.v.at[c] # Series!Nowhere /\ w.t.sendAbs = FALSE => r.v.inTurn
  BY Flushed
<1>3. stored = 3 /\ w.t.sendKey = FALSE =>
           /\ w.v.at[c] = Series!Nowhere => r.v.at[c] = Series!Nowhere
           /\ w.v.at[c] # Series!Nowhere =>
                /\ r.v.at[c] = IF w.t.sendAbs THEN w.t.contacts[c].pos ELSE w.v.at[c]
                /\ w.v.inTurn => r.v.inTurn
  BY Flushed
<1>4. view' \in Series!Views
  BY <1>1 DEF Work
<1> HIDE DEF r, c
<1>5. /\ stored = 3 /\ w.t.sendKey /\ w.t.key = 1 =>
           /\ view'.at[c] = touch.contacts[c].pos
           /\ view.inTurn /\ view.at[c] = Series!Nowhere => view'.inTurn
      /\ stored = 3 /\ w.t.sendKey /\ w.t.key = 0 =>
           /\ view'.at[c] = Series!Nowhere
           /\ view.inTurn /\ view.at[c] # Series!Nowhere /\ touch.sendAbs = FALSE => view'.inTurn
  BY <1>2, Zenon DEF r
<1>6. stored = 3 /\ w.t.sendKey = FALSE =>
           /\ view.at[c] = Series!Nowhere => view'.at[c] = Series!Nowhere
           /\ view.at[c] # Series!Nowhere =>
                /\ view'.at[c] = IF touch.sendAbs THEN touch.contacts[c].pos ELSE view.at[c]
                /\ view.inTurn => view'.inTurn
  BY <1>3, Zenon DEF r
<1>7. /\ touch'.sendKey = FALSE
      /\ \A d \in Numbers : touch'.contacts[d].pos = touch.contacts[d].pos
      /\ \A d \in Numbers : touch'.contacts[d].id \in {touch.contacts[d].id, NoId}
      /\ \A d \in Numbers \ {c} : view'.at[d] = view.at[d]
      /\ stored = 0 => view' = view
      /\ stored = 3 => touch'.sendAbs = FALSE
      /\ w.t.sendKey = FALSE /\ touch.sendAbs = FALSE => view' = view
  BY <1>1 DEF r
<1>8. QED
  BY <1>4, <1>5, <1>6, <1>7, Zenon DEF Flushes, c

LEMMA SlotEffect ==
  ASSUME TTypeOK, NEW s \in Slots, ReadSlot(s)
  PROVE  /\ Flushes(touch.currentSlot, touch.sendKey, touch.key)
         /\ touch'.currentSlot = s /\ touch'.mtReport = touch.mtReport
         /\ touch'.lastMtReports = touch.lastMtReports
<1> DEFINE r == FlushEvents(Now)
<1>1. Now \in Work /\ Now.t = touch /\ Now.v = view /\ s \in Numbers
  BY NowIsWork, MaxSlotAssumption DEF Now, Slots, Numbers
<1>2. r \in Work /\ r.t.mtReport = touch.mtReport /\ r.t.lastMtReports = touch.lastMtReports
  BY <1>1, Flushed
<1>3. touch' = WithSlot(r, s).t /\ view' = WithSlot(r, s).v
  BY DEF ReadSlot, Handled, OnSlot
<1> HIDE DEF r
<1>4. touch' \in DeviceFields /\ touch' = [r.t EXCEPT !.currentSlot = s] /\ view' = r.v
  BY <1>1, <1>2, <1>3, SetSlot DEF Work
<1>5. /\ touch'.currentSlot = s /\ touch'.mtReport = touch.mtReport
      /\ touch'.lastMtReports = touch.lastMtReports /\ touch'.sendKey = r.t.sendKey
      /\ touch'.sendAbs = r.t.sendAbs /\ touch'.contacts = r.t.contacts
  BY <1>2, <1>4 DEF Work, DeviceFields
<1>6. QED
  BY <1>1, <1>4, <1>5, FlushesWork DEF r

LEMMA IdEffect ==
  ASSUME TTypeOK, NEW s \in Slots, ReadTrackingId(s)
  PROVE  /\ Touched(screen[s]) =>
              /\ Keeps /\ touch'.key = 1 /\ touch'.sendKey = TRUE /\ touch'.sendAbs = touch.sendAbs
              /\ \A d \in Numbers : touch'.contacts[d].pos = touch.contacts[d].pos
         /\ ~Touched(screen[s]) => Flushes(touch.currentSlot, TRUE, 0)
         /\ touch'.currentSlot = touch.currentSlot /\ touch'.mtReport = touch.mtReport
         /\ touch'.lastMtReports = touch.lastMtReports
<1> DEFINE c == touch.currentSlot  id == screen[s].id
<1>1. Now \in Work /\ Now.t = touch /\ Now.v = view /\ touch \in DeviceFields /\ c \in Numbers
      /\ touch.contacts \in [Numbers -> Contact] /\ view \in Series!Views
  BY NowIsWork DEF Now, DeviceFields
<1>2. id \in TrackingIds \cup {NoId} /\ (id >= 0 <=> id # NoId) /\ touch' = OnTrackingId(Now, id).t
      /\ view' = OnTrackingId(Now, id).v
  BY TrackingIdsAssumption DEF TTypeOK, Contact, NoId, ReadTrackingId, Handled
<1>3. CASE id # NoId
  <2> DEFINE contacts == [touch.contacts EXCEPT ![c].id = id]
             n == [Now EXCEPT !.t.contacts[Now.t.currentSlot].id = id]
  <2>1. contacts \in [Numbers -> Contact] /\ \A d \in Numbers : contacts[d].pos = touch.contacts[d].pos
    BY <1>1, <1>2, <1>3 DEF Contact
  <2>2. n = [t |-> [touch EXCEPT !.contacts = contacts], v |-> view]
    BY <1>1 DEF Now, DeviceFields
  <2>3. OnTrackingId(Now, id) = WithKey(n, 1)
    BY <1>2, <1>3 DEF OnTrackingId
  <2> HIDE DEF contacts, n
  <2>4. n \in Work /\ n.v = view /\ n.t = [touch EXCEPT !.contacts = contacts]
    BY <1>1, <2>1, <2>2 DEF Work, DeviceFields
  <2>5. touch' = [n.t EXCEPT !.key = 1, !.sendKey = TRUE] /\ view' = view /\ touch' \in DeviceFields
    BY <1>2, <2>3, <2>4, SetKey DEF Work
  <2>6. /\ touch'.key = 1 /\ touch'.sendKey = TRUE /\ touch'.sendAbs = touch.sendAbs
        /\ touch'.contacts = contacts /\ touch'.currentSlot = touch.currentSlot
        /\ touch'.mtReport = touch.mtReport /\ touch'.lastMtReports = touch.lastMtReports
    BY <1>1, <2>4, <2>5 DEF DeviceFields
  <2>7. QED
    BY <1>3, <2>1, <2>5, <2>6 DEF Keeps, Touched
<1>4. CASE id = NoId
  <2> DEFINE n == WithKey(Now, 0)
  <2>1. OnTrackingId(Now, id) = FlushEvents(n)
    BY <1>2, <1>4 DEF OnTrackingId
  <2>2. n \in Work /\ n.v = view /\ n.t = [touch EXCEPT !.key = 0, !.sendKey = TRUE]
    BY <1>1, SetKey
  <2> HIDE DEF n
  <2>3. n.t.currentSlot = c /\ n.t.key = 0 /\ n.t.sendKey = TRUE /\ n.t.sendAbs = touch.sendAbs
        /\ n.t.contacts = touch.contacts /\ n.t.mtReport = touch.mtReport
        /\ n.t.lastMtReports = touch.lastMtReports
    BY <1>1, <2>2 DEF DeviceFields
  <2>4. touch' = FlushEvents(n).t /\ view' = FlushEvents(n).v
    BY <1>2, <2>1
  <2>5. FlushEvents(n) \in Work /\ FlushEvents(n).t.currentSlot = c
        /\ FlushEvents(n).t.mtReport = touch.mtReport /\ FlushEvents(n).t.lastMtReports = touch.lastMtReports
    BY <2>2, <2>3, Flushed
  <2>6. touch' \in DeviceFields
    BY <2>4, <2>5 DEF Work
  <2>7. Flushes(n.t.currentSlot, n.t.sendKey, n.t.key)
    BY <2>2, <2>3, <2>4, <2>6, FlushesWork
  <2>8. QED
    BY <1>4, <2>3, <2>4, <2>5, <2>7 DEF Touched
<1>5. QED
  BY <1>3, <1>4

\* A position, of a slot or behind the slots.
LEMMA PositionEffect ==
  ASSUME TTypeOK, NEW p \in Places,
         touch' = OnPosition(Now, p).t, view' = OnPosition(Now, p).v
  PROVE  /\ Keeps /\ touch'.key = touch.key /\ touch'.sendKey = touch.sendKey /\ touch'.sendAbs = TRUE
         /\ touch'.contacts = [touch.contacts EXCEPT ![touch.currentSlot].pos = p]
         /\ touch'.contacts[touch.currentSlot].pos = p
         /\ \A d \in Numbers \ {touch.currentSlot} : touch'.contacts[d].pos = touch.contacts[d].pos
         /\ \A d \in Numbers : touch'.contacts[d].id = touch.contacts[d].id
         /\ touch'.currentSlot = touch.currentSlot /\ touch'.mtReport = touch.mtReport
         /\ touch'.lastMtReports = touch.lastMtReports
<1> DEFINE c == touch.currentSlot
           contacts == [touch.contacts EXCEPT ![c].pos = p]
<1>1. touch \in DeviceFields /\ c \in Numbers /\ touch.contacts \in [Numbers -> Contact]
  BY NowIsWork DEF DeviceFields
<1>2. /\ contacts \in [Numbers -> Contact] /\ contacts[c].pos = p
      /\ \A d \in Numbers \ {c} : contacts[d].pos = touch.contacts[d].pos
      /\ \A d \in Numbers : contacts[d].id = touch.contacts[d].id
  BY <1>1 DEF Contact
<1>3. touch' = [touch EXCEPT !.contacts = contacts, !.sendAbs = TRUE] /\ view' = view
  BY <1>1 DEF OnPosition, Now, DeviceFields
<1> HIDE DEF contacts
<1>4. /\ touch' \in DeviceFields /\ touch'.contacts = contacts /\ touch'.key = touch.key
      /\ touch'.sendKey = touch.sendKey /\ touch'.sendAbs = TRUE
      /\ touch'.currentSlot = touch.currentSlot /\ touch'.mtReport = touch.mtReport
      /\ touch'.lastMtReports = touch.lastMtReports
  BY <1>1, <1>2, <1>3 DEF DeviceFields
<1>5. QED
  BY <1>2, <1>3, <1>4 DEF Keeps, contacts

LEMMA KeyEffect ==
  ASSUME TTypeOK, NEW k \in {0, 1}, touch' = WithKey(Now, k).t, view' = WithKey(Now, k).v
  PROVE  /\ Keeps /\ touch'.key = k /\ touch'.sendKey = TRUE /\ touch'.sendAbs = touch.sendAbs
         /\ touch'.contacts = touch.contacts
         /\ touch'.currentSlot = touch.currentSlot /\ touch'.mtReport = touch.mtReport
         /\ touch'.lastMtReports = touch.lastMtReports
<1>1. touch \in DeviceFields /\ Now \in Work /\ Now.t = touch /\ Now.v = view
  BY NowIsWork DEF Now
<1>2. touch' = [touch EXCEPT !.key = k, !.sendKey = TRUE] /\ touch' \in DeviceFields /\ view' = view
  BY <1>1, SetKey DEF Work
<1>3. QED
  BY <1>1, <1>2 DEF Keeps, DeviceFields

LEMMA MtReportEffect ==
  ASSUME TTypeOK, touch.sendAbs => touch.currentSlot + 1 \in Numbers,
         touch' = OnMtReport(Now).t, view' = OnMtReport(Now).v
  PROVE  LET c == touch.currentSlot IN
         /\ touch.contacts[c].id = NoId => Flushes(c, TRUE, 1)
         /\ touch.contacts[c].id # NoId => Flushes(c, touch.sendKey, touch.key)
         /\ touch'.currentSlot = IF touch.sendAbs THEN c + 1 ELSE c
         /\ touch'.mtReport = TRUE /\ touch'.lastMtReports = touch.lastMtReports
<1> DEFINE c == touch.currentSlot
           keyed == IF touch.contacts[c].id = NoId THEN WithKey(Now, 1) ELSE Now
           next == IF touch.sendAbs THEN c + 1 ELSE c
           r == FlushEvents(keyed)
           m == WithSlot(r, next)
<1>1. Now \in Work /\ Now.t = touch /\ Now.v = view /\ touch \in DeviceFields /\ c \in Numbers /\ next \in Numbers
  BY NowIsWork DEF Now, DeviceFields
<1>2. OnMtReport(Now) = [m EXCEPT !.t.mtReport = TRUE]
  BY <1>1 DEF OnMtReport
<1>3. /\ keyed \in Work /\ keyed.v = view /\ keyed.t.contacts = touch.contacts
      /\ keyed.t.sendAbs = touch.sendAbs /\ keyed.t.currentSlot = c
      /\ keyed.t.lastMtReports = touch.lastMtReports
      /\ touch.contacts[c].id = NoId => keyed.t.sendKey = TRUE /\ keyed.t.key = 1
      /\ touch.contacts[c].id # NoId => keyed.t.sendKey = touch.sendKey /\ keyed.t.key = touch.key
  <2>1. CASE touch.contacts[c].id = NoId
    <3>1. keyed \in Work /\ keyed.v = view /\ keyed.t = [touch EXCEPT !.key = 1, !.sendKey = TRUE]
      BY <1>1, <2>1, SetKey
    <3>2. QED
      BY <3>1, <2>1, <1>1 DEF DeviceFields
  <2>2. CASE touch.contacts[c].id # NoId
    BY <1>1, <2>2
  <2>3. QED
    BY <2>1, <2>2
<1> HIDE DEF keyed
<1>4. r \in Work /\ r.t.lastMtReports = touch.lastMtReports
  BY <1>3, Flushed
<1> HIDE DEF r
<1>5. m \in Work /\ m.v = r.v /\ m.t = [r.t EXCEPT !.currentSlot = next]
  BY <1>1, <1>4, SetSlot
<1> HIDE DEF m
<1>6. OnMtReport(Now) = [t |-> [m.t EXCEPT !.mtReport = TRUE], v |-> m.v]
  BY <1>2, <1>5 DEF Work
<1>7. touch' = [m.t EXCEPT !.mtReport = TRUE] /\ view' = r.v
  BY <1>5, <1>6
<1>a. r.t \in DeviceFields /\ m.t \in DeviceFields
  BY <1>4, <1>5 DEF Work
<1>8. /\ touch' \in DeviceFields /\ touch'.sendKey = r.t.sendKey /\ touch'.sendAbs = r.t.sendAbs
      /\ touch'.contacts = r.t.contacts /\ touch'.currentSlot = next /\ touch'.mtReport = TRUE
      /\ touch'.lastMtReports = r.t.lastMtReports
  <2>1. /\ m.t.sendKey = r.t.sendKey /\ m.t.sendAbs = r.t.sendAbs /\ m.t.contacts = r.t.contacts
        /\ m.t.currentSlot = next /\ m.t.lastMtReports = r.t.lastMtReports
    BY <1>a, <1>5 DEF DeviceFields
  <2>2. QED
    BY <1>a, <1>7, <2>1 DEF DeviceFields
<1>9. Flushes(keyed.t.currentSlot, keyed.t.sendKey, keyed.t.key)
  BY <1>3, <1>7, <1>8, FlushesWork DEF r
<1>10. QED
  BY <1>3, <1>4, <1>8, <1>9

LEMMA LiftEffect ==
  ASSUME TTypeOK, Lift
  PROVE  /\ Flushes(lift, TRUE, 0)
         /\ touch'.currentSlot = lift /\ touch'.mtReport = touch.mtReport
         /\ touch'.lastMtReports = touch.lastMtReports
<1> DEFINE s == WithSlot(Now, lift)
           n == WithKey(s, 0)
           r == FlushEvents(n)
<1>1. Now \in Work /\ Now.t = touch /\ Now.v = view /\ touch \in DeviceFields /\ lift \in Numbers
  BY NowIsWork DEF Now, TTypeOK
<1>2. s \in Work /\ s.v = view /\ s.t = [touch EXCEPT !.currentSlot = lift]
  BY <1>1, SetSlot
<1> HIDE DEF s
<1>3. n \in Work /\ n.v = view /\ n.t = [s.t EXCEPT !.key = 0, !.sendKey = TRUE]
  BY <1>2, SetKey
<1> HIDE DEF n
<1>4. /\ n.t.currentSlot = lift /\ n.t.key = 0 /\ n.t.sendKey = TRUE /\ n.t.sendAbs = touch.sendAbs
      /\ n.t.contacts = touch.contacts /\ n.t.mtReport = touch.mtReport
      /\ n.t.lastMtReports = touch.lastMtReports
  BY <1>1, <1>2, <1>3 DEF DeviceFields
<1>5. touch' = r.t /\ view' = r.v
  BY DEF Lift, Handled, OnGone, n, s
<1>6. r \in Work /\ r.t.currentSlot = lift /\ r.t.mtReport = touch.mtReport
      /\ r.t.lastMtReports = touch.lastMtReports
  BY <1>3, <1>4, Flushed
<1>7. touch' \in DeviceFields
  BY <1>5, <1>6 DEF Work
<1>8. Flushes(n.t.currentSlot, n.t.sendKey, n.t.key)
  BY <1>3, <1>4, <1>5, <1>7, FlushesWork
<1>9. QED
  BY <1>4, <1>5, <1>6, <1>8

LEMMA LiftedEffect ==
  ASSUME TTypeOK, Lifted
  PROVE  /\ Keeps /\ touch'.key = touch.key /\ touch'.sendKey = touch.sendKey
         /\ touch'.sendAbs = touch.sendAbs /\ touch'.contacts = touch.contacts
         /\ touch'.currentSlot = 0 /\ touch'.mtReport = FALSE /\ touch'.lastMtReports = touch.currentSlot
<1> DEFINE s == WithSlot(Now, 0)
<1>1. Now \in Work /\ Now.t = touch /\ Now.v = view /\ touch \in DeviceFields /\ 0 \in Numbers
      /\ touch.currentSlot \in Numbers
  BY NowIsWork, MaxSlotAssumption DEF Now, DeviceFields, Numbers
<1>2. s \in Work /\ s.v = view /\ s.t = [touch EXCEPT !.currentSlot = 0] /\ s = [t |-> s.t, v |-> s.v]
  BY <1>1, SetSlot DEF Work
<1>3. touch' = OnLifted(Now).t /\ view' = OnLifted(Now).v
      /\ OnLifted(Now) = [[s EXCEPT !.t.lastMtReports = touch.currentSlot] EXCEPT !.t.mtReport = FALSE]
  BY <1>1 DEF Lifted, Handled, OnLifted
<1> HIDE DEF s
<1>4. [s EXCEPT !.t.lastMtReports = touch.currentSlot]
        = [t |-> [s.t EXCEPT !.lastMtReports = touch.currentSlot], v |-> s.v]
  BY <1>2
<1>5. OnLifted(Now) = [t |-> [[s.t EXCEPT !.lastMtReports = touch.currentSlot] EXCEPT !.mtReport = FALSE],
                       v |-> s.v]
  BY <1>3, <1>4
<1>6. touch' = [[s.t EXCEPT !.lastMtReports = touch.currentSlot] EXCEPT !.mtReport = FALSE] /\ view' = view
  BY <1>2, <1>3, <1>5
<1>7. QED
  BY <1>1, <1>2, <1>6 DEF Keeps, DeviceFields

LEMMA EndEffect ==
  ASSUME TTypeOK, EndFrame
  PROVE  /\ Flushes(touch.currentSlot, touch.sendKey, touch.key)
         /\ touch'.currentSlot = touch.currentSlot /\ touch'.mtReport = touch.mtReport
         /\ touch'.lastMtReports = touch.lastMtReports
<1> DEFINE r == FlushEvents(Now)
<1>1. Now \in Work /\ Now.t = touch /\ Now.v = view
  BY NowIsWork DEF Now
<1>2. r \in Work /\ r.t.mtReport = touch.mtReport /\ r.t.lastMtReports = touch.lastMtReports
      /\ r.t.currentSlot = touch.currentSlot
  BY <1>1, Flushed
<1>3. touch' = r.t /\ view' = r.v
  BY DEF EndFrame, Handled
<1>4. QED
  BY <1>1, <1>2, <1>3, FlushesWork DEF Work

LEMMA ReportEffect == ASSUME TTypeOK, ReadReport PROVE touch' = touch /\ Keeps
  BY NowIsWork DEF ReadReport, Handled, Now, Keeps

-----------------------------------------------------------------------------
(* What the driver still has to say of a frame, and where the device is.     *)

cur == touch.currentSlot
Down(c) == view.at[c] # Series!Nowhere
Pending == touch.sendKey \/ touch.sendAbs
Listed == TouchedSlots \ unread

\* Of a slot whose events were all read the reader knows what the screen has.
Known ==
  /\ thread \in {"polling", "lifting", "locking"} => unread = {} /\ more = NoMore
  /\ \A s \in Slots \ unread : told[s] = screen[s]

\* Protocol B: the device follows the slots of the kernel.
InSlots == ~Listing =>
  /\ cur = kernelSlot /\ touch.mtReport = FALSE /\ more.mtReport = FALSE /\ thread # "lifting"
  /\ \A s \in unread : told[s] # screen[s]
  /\ \A s \in Slots : told[s].pos \in Places /\ (~Touched(screen[s]) => told[s].pos = screen[s].pos)
  /\ more.key = 1 => /\ Touched(screen[kernelSlot]) \/ unread # {}
                     /\ \A s \in unread : Touched(screen[s])
  /\ more.key = 0 => \A s \in Slots : ~Touched(screen[s])
  /\ driver = "B" => more = NoMore /\ \A c \in Slots : touch.contacts[c].pos = told[c].pos
  /\ ~reused => \A s \in Slots : Touched(told[s]) /\ screen[s].id # told[s].id => ~Touched(screen[s])

\* Protocol A: the list grows with the slots, and the device is not ahead.
InList == Listing =>
  /\ \A s \in unread : Touched(screen[s]) /\ cur <= s /\ \A r \in Listed : r < s
  /\ more.key = NoKey /\ more.pos = NoPlace
  /\ more.mtReport => TouchedSlots = {} /\ cur = 0
  /\ thread \in {"polling", "locking"} => cur = 0 /\ touch.mtReport = FALSE
  /\ AtReport => touch.mtReport = TRUE

Driven == TTypeOK /\ Known /\ InSlots /\ InList

\* What is left as it is when the device handles an event.
LEMMA ScreenKept ==
  ASSUME driver' = driver, screen' = screen
  PROVE  /\ Listing' = Listing /\ TouchedSlots' = TouchedSlots
         /\ \A s : Number(s)' = Number(s)
  BY DEF Listing, TouchedSlots, Number, Touched

LEMMA TypesKept ==
  ASSUME TTypeOK, touch' \in DeviceFields, view' \in Series!Views,
         driver' = driver, screen' = screen, stored' = stored, kernelSlot' \in Slots, unread' \subseteq Slots,
         told' \in [Slots -> [id : TrackingIds \cup {NoId}, pos : Places \cup {NoPlace}]],
         more' \in [key : {0, 1, NoKey}, pos : Places \cup {NoPlace}, mtReport : BOOLEAN],
         thread' \in {"polling", "reading", "lifting", "locking", "dead"}, lift' \in Numbers
  PROVE  TTypeOK'
  BY DEF TTypeOK, DeviceFields

LEMMA SlotsAndNumbers ==
  /\ Slots \subseteq Numbers /\ 0 \in Slots /\ Slots \subseteq Nat /\ Numbers \subseteq Nat
  /\ \A s \in Slots : s + 1 \in Numbers
  /\ MaxSlot + 1 \in Numbers \ Slots
  BY MaxSlotAssumption DEF Slots, Numbers

LEMMA DrivenInit == TInit => Driven
<1> SUFFICES ASSUME TInit PROVE Driven
  OBVIOUS
<1>1. /\ touch.currentSlot = 0 /\ touch.mtReport = FALSE /\ unread = {} /\ more = NoMore /\ told = screen
      /\ kernelSlot = 0 /\ thread = "polling" /\ \A c \in Numbers : touch.contacts[c].pos = 0
      /\ \A s \in Slots : screen[s] = [id |-> NoId, pos |-> 0]
      /\ more.key = NoKey /\ more.pos = NoPlace /\ more.mtReport = FALSE
  BY DEF TInit, NoMore
<1>2. TTypeOK
  <2>1. view \in Series!Views
    BY PlacesAssumption DEF TInit, Series!Views, Series!NothingSeen, Series!Nowhere
  <2>2. touch \in DeviceFields
    BY SlotsAndNumbers, PlacesAssumption DEF TInit, DeviceFields, Contact
  <2>3. screen \in [Slots -> Contact] /\ told \in [Slots -> [id : TrackingIds \cup {NoId}, pos : Places \cup {NoPlace}]]
    BY PlacesAssumption DEF TInit, Contact
  <2>4. more \in [key : {0, 1, NoKey}, pos : Places \cup {NoPlace}, mtReport : BOOLEAN]
    BY DEF TInit, NoMore
  <2>5. QED
    BY <2>1, <2>2, <2>3, <2>4, SlotsAndNumbers DEF TInit, TTypeOK, DeviceFields
<1>3. Known /\ InSlots
  <2>1. NoKey # 1 /\ NoKey # 0
    BY DEF NoKey
  <2>2. QED
    BY <1>1, <2>1, SlotsAndNumbers, PlacesAssumption DEF Known, InSlots, cur, Touched
<1>4. InList
  BY <1>1 DEF InList, cur, AtReport
<1>5. QED
  BY <1>2, <1>3, <1>4 DEF Driven

LEMMA DrivenSlot == ASSUME Driven, NEW s \in Slots, ReadSlot(s) PROVE Driven'
<1>1. /\ TTypeOK /\ ~Listing /\ s \in unread /\ kernelSlot' = s /\ thread = "reading"
      /\ UNCHANGED <<told, unread, more, thread, lift, driver, screen, reused, stored>>
  BY DEF Driven, ReadSlot, AtSlot, Foremost, Handled
<1>2. /\ Flushes(touch.currentSlot, touch.sendKey, touch.key)
      /\ touch'.currentSlot = s /\ touch'.mtReport = touch.mtReport
  BY <1>1, SlotEffect
<1>3. TTypeOK'
  <2>1. touch' \in DeviceFields /\ view' \in Series!Views
    BY <1>2 DEF Flushes
  <2>2. QED
    BY <1>1, <2>1, TypesKept DEF TTypeOK
<1>4. Known'
  BY <1>1 DEF Driven, Known
<1>5. InSlots'
  <2>1. \A d \in Slots : touch'.contacts[d].pos = touch.contacts[d].pos
    BY <1>2, SlotsAndNumbers DEF Flushes
  <2>2. QED
    BY <1>1, <1>2, <2>1 DEF Driven, InSlots, cur, Listing
<1>6. InList'
  BY <1>1, ScreenKept DEF InList
<1>7. QED
  BY <1>3, <1>4, <1>5, <1>6 DEF Driven

LEMMA DrivenId == ASSUME Driven, NEW s \in Slots, ReadTrackingId(s) PROVE Driven'
<1>1. /\ TTypeOK /\ s \in unread /\ thread = "reading" /\ Listing' = Listing /\ TouchedSlots' = TouchedSlots
      /\ (~Listing => kernelSlot = s) /\ told[s].id # screen[s].id
      /\ UNCHANGED <<more, kernelSlot, thread, lift, driver, screen, reused, stored>>
      /\ unread' = IF ~Listing /\ [told[s] EXCEPT !.id = screen[s].id] = screen[s] THEN unread \ {s} ELSE unread
      /\ told' = [told EXCEPT ![s] = [told[s] EXCEPT !.id = screen[s].id]]
  BY ScreenKept DEF Driven, ReadTrackingId, AtId, AtFields, AtSlot, Foremost, Read, Handled
<1>2. /\ touch' \in DeviceFields /\ view' \in Series!Views
      /\ touch'.currentSlot = touch.currentSlot /\ touch'.mtReport = touch.mtReport
      /\ \A d \in Numbers : touch'.contacts[d].pos = touch.contacts[d].pos
  BY <1>1, IdEffect, NowIsWork DEF Flushes, Keeps
<1>3. /\ told' \in [Slots -> [id : TrackingIds \cup {NoId}, pos : Places \cup {NoPlace}]]
      /\ told'[s].id = screen[s].id /\ told'[s].pos = told[s].pos
      /\ told'[s] = [told[s] EXCEPT !.id = screen[s].id]
      /\ \A d \in Slots \ {s} : told'[d] = told[d]
  BY <1>1 DEF TTypeOK, Contact
<1>4. unread' \subseteq unread /\ \A d \in unread \ unread' : d = s /\ told'[d] = screen[d]
  BY <1>1, <1>3
<1>5. TTypeOK'
  <2>1. unread' \subseteq Slots
    BY <1>1, <1>4 DEF TTypeOK
  <2>2. QED
    BY <1>1, <1>2, <1>3, <2>1, TypesKept DEF TTypeOK
<1>6. Known'
  BY <1>1, <1>3, <1>4 DEF Driven, Known
<1>7. InSlots'
  <2>1. SUFFICES ASSUME ~Listing
                 PROVE  InSlots'
    BY <1>1 DEF InSlots
  <2>2. \A d \in unread' : told'[d] # screen[d]
    BY <1>1, <1>3, <2>1 DEF Driven, InSlots
  <2>3. \A d \in Slots : told'[d].pos = told[d].pos /\ touch'.contacts[d].pos = touch.contacts[d].pos
    BY <1>2, <1>3, SlotsAndNumbers
  <2>4. more.key = 1 => Touched(screen[kernelSlot])
    BY <1>1, <2>1 DEF Driven, InSlots
  <2>5. ~reused => \A d \in Slots : Touched(told'[d]) /\ screen[d].id # told'[d].id => ~Touched(screen[d])
    BY <1>3, <2>1 DEF Driven, InSlots
  <2>6. /\ cur' = kernelSlot /\ touch'.mtReport = FALSE /\ more.mtReport = FALSE /\ thread # "lifting"
        /\ \A d \in Slots : told'[d].pos \in Places /\ (~Touched(screen[d]) => told'[d].pos = screen[d].pos)
        /\ more.key = 1 => \A d \in unread' : Touched(screen[d])
        /\ more.key = 0 => \A d \in Slots : ~Touched(screen[d])
        /\ driver = "B" => more = NoMore /\ \A c \in Slots : touch'.contacts[c].pos = told'[c].pos
    BY <1>1, <1>2, <1>4, <2>1, <2>3 DEF Driven, InSlots, cur
  <2>7. QED
    BY <1>1, <2>2, <2>4, <2>5, <2>6 DEF InSlots
<1>8. InList'
  <2>1. Listing => unread' = unread
    BY <1>1
  <2>2. QED
    BY <1>1, <1>2, <2>1 DEF Driven, InList, cur, Listed, AtReport
<1>9. QED
  BY <1>5, <1>6, <1>7, <1>8 DEF Driven

LEMMA DrivenPosition == ASSUME Driven, NEW s \in Slots, ReadPosition(s) PROVE Driven'
<1>1. /\ TTypeOK /\ s \in unread /\ thread = "reading" /\ Listing' = Listing /\ TouchedSlots' = TouchedSlots
      /\ (~Listing => kernelSlot = s) /\ told[s].id = screen[s].id /\ told[s].pos # screen[s].pos
      /\ UNCHANGED <<more, kernelSlot, thread, lift, driver, screen, reused, stored>>
      /\ unread' = IF ~Listing THEN unread \ {s} ELSE unread
      /\ told' = [told EXCEPT ![s] = screen[s]]
      /\ touch' = OnPosition(Now, screen[s].pos).t /\ view' = OnPosition(Now, screen[s].pos).v
  BY ScreenKept DEF Driven, ReadPosition, AtPosition, AtId, AtFields, AtSlot, Foremost, Read, Handled
<1>2. screen[s].pos \in Places /\ screen[s] \in Contact
  BY <1>1 DEF TTypeOK, Contact
<1>3. /\ touch' \in DeviceFields /\ view' \in Series!Views
      /\ touch'.currentSlot = touch.currentSlot /\ touch'.mtReport = touch.mtReport
      /\ touch'.contacts[touch.currentSlot].pos = screen[s].pos
      /\ \A d \in Numbers \ {touch.currentSlot} : touch'.contacts[d].pos = touch.contacts[d].pos
  BY <1>1, <1>2, PositionEffect, NowIsWork DEF Keeps
<1>4. /\ told' \in [Slots -> [id : TrackingIds \cup {NoId}, pos : Places \cup {NoPlace}]]
      /\ told'[s] = screen[s] /\ \A d \in Slots \ {s} : told'[d] = told[d]
  BY <1>1, <1>2 DEF TTypeOK, Contact
<1>5. TTypeOK'
  <2>1. unread' \subseteq Slots
    BY <1>1 DEF TTypeOK
  <2>2. QED
    BY <1>1, <1>3, <1>4, <2>1, TypesKept DEF TTypeOK
<1>6. Known'
  BY <1>1, <1>4 DEF Driven, Known
<1>7. InSlots'
  <2>1. SUFFICES ASSUME ~Listing
                 PROVE  InSlots'
    BY <1>1 DEF InSlots
  <2>2. kernelSlot = s /\ touch.currentSlot = s /\ unread' = unread \ {s}
    BY <1>1, <2>1 DEF Driven, InSlots, cur
  <2>3. /\ \A d \in Slots : told'[d].pos \in Places /\ (~Touched(screen[d]) => told'[d].pos = screen[d].pos)
        /\ \A d \in unread' : told'[d] # screen[d]
    BY <1>1, <1>2, <1>4, <2>1, <2>2 DEF Driven, InSlots, TTypeOK
  <2>4. driver = "B" => more = NoMore /\ \A c \in Slots : touch'.contacts[c].pos = told'[c].pos
    BY <1>3, <1>4, <2>1, <2>2, SlotsAndNumbers DEF Driven, InSlots
  <2>5. ~reused => \A d \in Slots : Touched(told'[d]) /\ screen[d].id # told'[d].id => ~Touched(screen[d])
    BY <1>4, <2>1 DEF Driven, InSlots
  <2>6. /\ cur' = kernelSlot /\ touch'.mtReport = FALSE /\ more.mtReport = FALSE /\ thread # "lifting"
        /\ more.key = 1 => Touched(screen[kernelSlot]) /\ \A d \in unread' : Touched(screen[d])
        /\ more.key = 0 => \A d \in Slots : ~Touched(screen[d])
    BY <1>1, <1>3, <2>1, <2>2 DEF Driven, InSlots, cur
  <2>7. QED
    BY <1>1, <2>3, <2>4, <2>5, <2>6 DEF InSlots
<1>8. InList'
  <2>1. Listing => unread' = unread
    BY <1>1
  <2>2. QED
    BY <1>1, <1>3, <2>1 DEF Driven, InList, cur, Listed, AtReport
<1>9. QED
  BY <1>5, <1>6, <1>7, <1>8 DEF Driven

LEMMA DrivenMtReport == ASSUME Driven, NEW s \in Slots, ReadMtReport(s) PROVE Driven'
<1>1. /\ TTypeOK /\ s \in unread /\ thread = "reading" /\ Listing' = Listing /\ TouchedSlots' = TouchedSlots
      /\ told[s] = screen[s] /\ \A r \in unread : s <= r
      /\ UNCHANGED <<told, more, kernelSlot, thread, lift, driver, screen, reused, stored>>
      /\ unread' = unread \ {s}
      /\ touch' = OnMtReport(Now).t /\ view' = OnMtReport(Now).v
  BY ScreenKept DEF Driven, ReadMtReport, AtMtReport, AtFields, Foremost, Handled
<1>2. Listing
  BY <1>1 DEF Driven, InSlots
<1>3. cur \in Nat /\ cur <= s /\ cur + 1 \in Numbers
  <2>1. cur \in Numbers /\ cur <= s
    BY <1>1, <1>2 DEF Driven, InList, cur, TTypeOK
  <2>2. QED
    BY <2>1, MaxSlotAssumption DEF Numbers, Slots
<1>4. /\ touch' \in DeviceFields /\ view' \in Series!Views /\ touch'.mtReport = TRUE
      /\ touch'.currentSlot \in {cur, cur + 1}
  <2>1. LET c == touch.currentSlot IN
         /\ touch.contacts[c].id = NoId => Flushes(c, TRUE, 1)
         /\ touch.contacts[c].id # NoId => Flushes(c, touch.sendKey, touch.key)
         /\ touch'.currentSlot = IF touch.sendAbs THEN c + 1 ELSE c
         /\ touch'.mtReport = TRUE /\ touch'.lastMtReports = touch.lastMtReports
    BY <1>1, <1>3, MtReportEffect DEF cur
  <2>2. QED
    BY <2>1 DEF Flushes, cur
<1>5. TTypeOK'
  BY <1>1, <1>4, TypesKept DEF TTypeOK
<1>6. Known'
  BY <1>1 DEF Driven, Known
<1>7. InSlots'
  BY <1>1, <1>2 DEF InSlots
<1>8. InList'
  <2>1. Listed' = Listed \cup ({s} \cap TouchedSlots)
    BY <1>1 DEF Listed
  <2>2. ASSUME NEW d \in unread'
        PROVE  Touched(screen[d]) /\ cur' <= d /\ \A r \in Listed' : r < d
    <3>1. d \in unread /\ d # s /\ s <= d /\ d \in Nat /\ s \in Nat
      BY <1>1, <2>2, SlotsAndNumbers DEF TTypeOK
    <3>2. Touched(screen[d]) /\ \A r \in Listed : r < d
      BY <1>2, <3>1 DEF Driven, InList
    <3>3. QED
      BY <1>3, <1>4, <2>1, <3>1, <3>2 DEF cur
  <2>3. /\ more.key = NoKey /\ more.pos = NoPlace
        /\ ~more.mtReport
    BY <1>1, <1>2, SlotsAndNumbers DEF Driven, InList, TouchedSlots
  <2>4. QED
    BY <1>1, <1>4, <2>2, <2>3 DEF InList
<1>9. QED
  BY <1>5, <1>6, <1>7, <1>8 DEF Driven

LEMMA DrivenMore == ASSUME Driven, ReadMore PROVE Driven'
<1>1. /\ TTypeOK /\ thread = "reading" /\ unread = {} /\ more # NoMore
      /\ Listing' = Listing /\ TouchedSlots' = TouchedSlots
      /\ UNCHANGED <<told, unread, kernelSlot, thread, lift, driver, screen, reused, stored>>
  BY ScreenKept DEF Driven, ReadMore, AtMore, Handled
<1>2. more \in [key : {0, 1, NoKey}, pos : Places \cup {NoPlace}, mtReport : BOOLEAN]
  BY <1>1 DEF TTypeOK
<1>3. CASE /\ more.key # NoKey /\ more' = [more EXCEPT !.key = NoKey]
           /\ touch' = WithKey(Now, more.key).t /\ view' = WithKey(Now, more.key).v
  <2>1. ~Listing
    BY <1>3 DEF Driven, InList
  <2>2. /\ touch' \in DeviceFields /\ view' \in Series!Views /\ touch'.currentSlot = touch.currentSlot
        /\ touch'.mtReport = touch.mtReport /\ touch'.contacts = touch.contacts
    BY <1>1, <1>2, <1>3, KeyEffect, NowIsWork DEF Keeps
  <2>3. /\ more' \in [key : {0, 1, NoKey}, pos : Places \cup {NoPlace}, mtReport : BOOLEAN]
        /\ more'.key = NoKey /\ more'.mtReport = more.mtReport
    BY <1>2, <1>3
  <2>4. TTypeOK'
    BY <1>1, <2>2, <2>3, TypesKept DEF TTypeOK
  <2>5. Known' /\ InList'
    BY <1>1, <2>1 DEF Driven, Known, InList
  <2>6. InSlots'
    <3>1. driver # "B" /\ NoKey # 0 /\ NoKey # 1
      BY <1>1, <2>1 DEF Driven, InSlots, NoKey
    <3>2. QED
      BY <1>1, <2>1, <2>2, <2>3, <3>1 DEF Driven, InSlots, cur
  <2>7. QED
    BY <2>4, <2>5, <2>6 DEF Driven
<1>4. CASE /\ more.pos # NoPlace /\ more' = [more EXCEPT !.pos = NoPlace]
           /\ touch' = OnPosition(Now, more.pos).t /\ view' = OnPosition(Now, more.pos).v
  <2>1. ~Listing
    BY <1>4 DEF Driven, InList
  <2>2. /\ touch' \in DeviceFields /\ view' \in Series!Views /\ touch'.currentSlot = touch.currentSlot
        /\ touch'.mtReport = touch.mtReport
    BY <1>1, <1>2, <1>4, PositionEffect, NowIsWork DEF Keeps
  <2>3. /\ more' \in [key : {0, 1, NoKey}, pos : Places \cup {NoPlace}, mtReport : BOOLEAN]
        /\ more'.key = more.key /\ more'.mtReport = more.mtReport
    BY <1>2, <1>4
  <2>4. TTypeOK'
    BY <1>1, <2>2, <2>3, TypesKept DEF TTypeOK
  <2>5. Known' /\ InList'
    BY <1>1, <2>1 DEF Driven, Known, InList
  <2>6. InSlots'
    <3>1. driver # "B"
      BY <1>1, <2>1 DEF Driven, InSlots
    <3>2. QED
      BY <1>1, <2>1, <2>2, <2>3, <3>1 DEF Driven, InSlots, cur
  <2>7. QED
    BY <2>4, <2>5, <2>6 DEF Driven
<1>5. CASE /\ more.mtReport /\ more' = [more EXCEPT !.mtReport = FALSE]
           /\ touch' = OnMtReport(Now).t /\ view' = OnMtReport(Now).v
  <2>1. Listing /\ cur = 0 /\ TouchedSlots = {} /\ more.key = NoKey /\ more.pos = NoPlace
    BY <1>5 DEF Driven, InSlots, InList
  <2>2. cur + 1 \in Numbers
    BY <2>1, SlotsAndNumbers DEF cur
  <2>3. /\ touch' \in DeviceFields /\ view' \in Series!Views /\ touch'.mtReport = TRUE
    <3>1. LET c == touch.currentSlot IN
           /\ touch.contacts[c].id = NoId => Flushes(c, TRUE, 1)
           /\ touch.contacts[c].id # NoId => Flushes(c, touch.sendKey, touch.key)
           /\ touch'.currentSlot = IF touch.sendAbs THEN c + 1 ELSE c
           /\ touch'.mtReport = TRUE /\ touch'.lastMtReports = touch.lastMtReports
      BY <1>1, <1>5, <2>2, MtReportEffect DEF cur
    <3>2. QED
      BY <3>1 DEF Flushes
  <2>4. /\ more' \in [key : {0, 1, NoKey}, pos : Places \cup {NoPlace}, mtReport : BOOLEAN]
        /\ more'.key = NoKey /\ more'.pos = NoPlace /\ more'.mtReport = FALSE
    BY <1>2, <1>5, <2>1
  <2>5. TTypeOK'
    BY <1>1, <2>3, <2>4, TypesKept DEF TTypeOK
  <2>6. Known' /\ InSlots'
    BY <1>1, <2>1 DEF Driven, Known, InSlots
  <2>7. InList'
    BY <1>1, <2>1, <2>3, <2>4 DEF InList
  <2>8. QED
    BY <2>5, <2>6, <2>7 DEF Driven
<1>6. QED
  BY <1>3, <1>4, <1>5, Zenon DEF ReadMore, Handled

LEMMA DrivenReport == ASSUME Driven, ReadReport PROVE Driven'
<1>1. /\ TTypeOK /\ thread = "reading" /\ unread = {} /\ more = NoMore /\ AtReport
      /\ Listing' = Listing /\ TouchedSlots' = TouchedSlots
      /\ UNCHANGED <<told, unread, more, kernelSlot, driver, screen, reused, stored>>
  BY ScreenKept DEF Driven, ReadReport, AtReport, frameVars, Handled
<1>2. touch' = touch /\ view' = view /\ touch \in DeviceFields /\ view \in Series!Views
  BY <1>1, ReportEffect, NowIsWork DEF Keeps
<1>3. \/ touch.mtReport = TRUE /\ thread' = "lifting" /\ lift' = touch.currentSlot
      \/ touch.mtReport = FALSE /\ thread' = "locking" /\ lift' = lift
  BY <1>2 DEF ReadReport, DeviceFields
<1>4. TTypeOK'
  <2>1. lift' \in Numbers /\ thread' \in {"lifting", "locking"}
    BY <1>1, <1>2, <1>3 DEF TTypeOK, DeviceFields
  <2>2. QED
    BY <1>1, <1>2, <2>1, TypesKept DEF TTypeOK
<1>5. Known'
  BY <1>1 DEF Driven, Known
<1>6. InSlots'
  BY <1>1, <1>2, <1>3 DEF Driven, InSlots, cur
<1>7. InList'
  BY <1>1, <1>2, <1>3 DEF Driven, InList, cur, Listed, AtReport
<1>8. QED
  BY <1>4, <1>5, <1>6, <1>7 DEF Driven

LEMMA DrivenLift == ASSUME Driven, Lift PROVE Driven'
<1>1. /\ TTypeOK /\ thread = "lifting" /\ lift < touch.lastMtReports /\ lift' = lift + 1
      /\ Listing' = Listing /\ TouchedSlots' = TouchedSlots /\ Listing
      /\ UNCHANGED <<told, unread, more, kernelSlot, thread, driver, screen, reused, stored>>
  BY ScreenKept DEF Driven, InSlots, Lift, Lifting, frameVars, Handled
<1>2. touch' \in DeviceFields /\ view' \in Series!Views
  BY <1>1, LiftEffect DEF Flushes
<1>3. lift' \in Numbers
  BY <1>1, MaxSlotAssumption DEF TTypeOK, Numbers
<1>4. TTypeOK'
  BY <1>1, <1>2, <1>3, TypesKept DEF TTypeOK
<1>5. Known' /\ InSlots'
  BY <1>1 DEF Driven, Known, InSlots
<1>6. InList'
  <2>1. unread = {} /\ more.key = NoKey /\ more.pos = NoPlace /\ more.mtReport = FALSE
    BY <1>1 DEF Driven, Known, NoMore
  <2>2. QED
    BY <1>1, <2>1 DEF InList, AtReport
<1>7. QED
  BY <1>4, <1>5, <1>6 DEF Driven

LEMMA DrivenLifted == ASSUME Driven, Lifted PROVE Driven'
<1>1. /\ TTypeOK /\ thread = "lifting" /\ thread' = "locking" /\ lift' = 0
      /\ Listing' = Listing /\ TouchedSlots' = TouchedSlots /\ Listing
      /\ UNCHANGED <<told, unread, more, kernelSlot, driver, screen, reused, stored>>
  BY ScreenKept DEF Driven, InSlots, Lifted, Lifting, frameVars, Handled
<1>2. /\ touch' \in DeviceFields /\ view' \in Series!Views /\ touch'.currentSlot = 0 /\ touch'.mtReport = FALSE
  BY <1>1, LiftedEffect, NowIsWork DEF Keeps
<1>3. TTypeOK'
  BY <1>1, <1>2, TypesKept, SlotsAndNumbers DEF TTypeOK
<1>4. Known' /\ InSlots'
  BY <1>1 DEF Driven, Known, InSlots
<1>5. InList'
  BY <1>1, <1>2 DEF Driven, Known, InList, AtReport, cur, NoMore
<1>6. QED
  BY <1>3, <1>4, <1>5 DEF Driven

LEMMA DrivenEnd == ASSUME Driven, EndFrame PROVE Driven'
<1>1. /\ TTypeOK /\ thread = "locking" /\ thread' = "polling"
      /\ Listing' = Listing /\ TouchedSlots' = TouchedSlots
      /\ UNCHANGED <<told, unread, more, kernelSlot, lift, driver, screen, reused, stored>>
  BY ScreenKept DEF Driven, EndFrame, frameVars, Handled
<1>2. /\ touch' \in DeviceFields /\ view' \in Series!Views /\ touch'.currentSlot = touch.currentSlot
      /\ touch'.mtReport = touch.mtReport
      /\ \A d \in Slots : touch'.contacts[d].pos = touch.contacts[d].pos
  BY <1>1, EndEffect, SlotsAndNumbers DEF Flushes
<1>3. TTypeOK'
  BY <1>1, <1>2, TypesKept DEF TTypeOK
<1>4. Known'
  BY <1>1 DEF Driven, Known
<1>5. InSlots'
  BY <1>1, <1>2 DEF Driven, InSlots, cur
<1>6. InList'
  BY <1>1, <1>2 DEF Driven, Known, InList, AtReport, cur, NoMore
<1>7. QED
  BY <1>3, <1>4, <1>5, <1>6 DEF Driven

LEMMA DrivenFrame == ASSUME Driven, Frame PROVE Driven'
<1>1. /\ TTypeOK /\ thread = "polling" /\ thread' = "reading"
      /\ screen' \in [Slots -> Contact]
      /\ \A s \in Slots : ~Touched(screen'[s]) => screen'[s].pos = screen[s].pos
      /\ \A s \in TouchedSlots : ~reused' => screen'[s].id \in {NoId, screen[s].id}
      /\ reused' = FALSE => reused = FALSE
      /\ Listing' = Listing
      /\ driver' = driver /\ kernelSlot' = kernelSlot /\ touch' = touch /\ view' = view /\ lift' = lift
      /\ stored' = stored
  BY DEF Driven, Frame, Listing
<1>2. /\ unread = {} /\ \A s \in Slots : told[s] = screen[s] /\ screen[s] \in Contact
      /\ more.key = NoKey /\ more.pos = NoPlace /\ more.mtReport = FALSE
  BY <1>1 DEF Driven, Known, TTypeOK, NoMore
<1>3. NoMore \in [key : {0, 1, NoKey}, pos : Places \cup {NoPlace}, mtReport : BOOLEAN]
  BY DEF NoMore
<1>4. CASE ~Listing
  <2>1. /\ told' = told /\ unread' = {s \in Slots : screen'[s] # screen[s]}
        /\ more' \in IF driver = "BKey" THEN SingleTouchReports(screen') ELSE {NoMore}
    BY <1>4 DEF Frame, ChangeReport
  <2> DEFINE down == {s \in Slots : Touched(screen'[s])}
  <2>2. /\ more' \in [key : {0, 1, NoKey}, pos : Places \cup {NoPlace}, mtReport : BOOLEAN]
        /\ more'.mtReport = FALSE /\ (driver # "BKey" => more' = NoMore)
        /\ more'.key = 1 => TouchedSlots = {} /\ down # {}
        /\ more'.key = 0 => down = {}
    <3>1. CASE driver # "BKey"
      <4>1. more' = NoMore
        BY <2>1, <3>1
      <4>2. NoMore.mtReport = FALSE /\ NoMore.key # 0 /\ NoMore.key # 1
        BY DEF NoMore, NoKey
      <4>3. QED
        BY <1>3, <3>1, <4>1, <4>2
    <3>2. CASE driver = "BKey"
      <4> DEFINE key == IF TouchedSlots = {} /\ down # {} THEN 1
                        ELSE IF TouchedSlots # {} /\ down = {} THEN 0 ELSE NoKey
                 one == [NoMore EXCEPT !.key = key]
      <4>1. SingleTouchReports(screen') = {one} \cup {[one EXCEPT !.pos = screen'[s].pos] : s \in down}
        BY DEF SingleTouchReports
      <4>3. /\ key = 1 => TouchedSlots = {} /\ down # {}
            /\ key = 0 => down = {}
            /\ key \in {0, 1, NoKey}
        BY DEF NoKey
      <4> HIDE DEF key
      <4>a. NoMore.mtReport = FALSE
        BY DEF NoMore
      <4>2. /\ one \in [key : {0, 1, NoKey}, pos : Places \cup {NoPlace}, mtReport : BOOLEAN]
            /\ one.key = key /\ one.mtReport = FALSE
        BY <1>3, <4>3, <4>a
      <4> HIDE DEF one
      <4>4. more' = one \/ \E s \in Slots : more' = [one EXCEPT !.pos = screen'[s].pos]
        BY <2>1, <3>2, <4>1
      <4>5. \A s \in Slots : screen'[s].pos \in Places
        BY <1>1 DEF Contact
      <4>6. /\ more' \in [key : {0, 1, NoKey}, pos : Places \cup {NoPlace}, mtReport : BOOLEAN]
            /\ more'.key = key /\ more'.mtReport = FALSE
        BY <4>2, <4>4, <4>5
      <4>7. QED
        BY <3>2, <4>3, <4>6
    <3>3. QED
      BY <3>1, <3>2
  <2>3. TTypeOK'
    BY <1>1, <2>1, <2>2 DEF TTypeOK
  <2>4. Known'
    BY <1>1, <1>2, <2>1 DEF Known
  <2>5. InSlots'
    <3>1. more'.key = 1 => unread' # {} /\ \A s \in unread' : Touched(screen'[s])
      <4> SUFFICES ASSUME more'.key = 1 PROVE unread' # {} /\ \A s \in unread' : Touched(screen'[s])
        OBVIOUS
      <4>1. TouchedSlots = {} /\ down # {}
        BY <2>2
      <4>2. \A s \in Slots : screen[s].id = NoId
        BY <4>1 DEF TouchedSlots, Touched
      <4>3. ASSUME NEW s \in Slots, ~Touched(screen'[s])
            PROVE  screen'[s] = screen[s]
        BY <1>1, <1>2, <4>2, <4>3 DEF Contact, Touched
      <4>4. \A s \in down : screen'[s] # screen[s]
        BY <4>2 DEF Touched
      <4>5. QED
        BY <2>1, <4>1, <4>3, <4>4
    <3>2. /\ \A s \in unread' : told'[s] # screen'[s]
          /\ \A s \in Slots : told'[s].pos \in Places /\ (~Touched(screen'[s]) => told'[s].pos = screen'[s].pos)
      BY <1>1, <1>2, <2>1 DEF Contact
    <3>3. more'.key = 0 => \A s \in Slots : ~Touched(screen'[s])
      BY <2>2
    <3>4. driver = "B" => more' = NoMore /\ \A c \in Slots : touch'.contacts[c].pos = told'[c].pos
      BY <1>1, <1>4, <2>1, <2>2 DEF Driven, InSlots
    <3>5. ~reused' => \A s \in Slots : Touched(told'[s]) /\ screen'[s].id # told'[s].id => ~Touched(screen'[s])
      BY <1>1, <1>2, <2>1 DEF Touched, TouchedSlots
    <3>6. cur' = kernelSlot' /\ touch'.mtReport = FALSE /\ more'.mtReport = FALSE /\ thread' # "lifting"
      BY <1>1, <1>4, <2>2 DEF Driven, InSlots, cur
    <3>7. QED
      BY <1>1, <3>1, <3>2, <3>3, <3>4, <3>5, <3>6 DEF InSlots
  <2>6. InList'
    BY <1>1, <1>4 DEF InList
  <2>7. QED
    BY <2>3, <2>4, <2>5, <2>6 DEF Driven
<1>5. CASE Listing
  <2>1. /\ unread' = {s \in Slots : Touched(screen'[s])}
        /\ told' = [s \in Slots |->
                     IF s \in unread' THEN [id |-> IF driver = "AId" THEN NoId ELSE screen'[s].id, pos |-> NoPlace]
                                      ELSE screen'[s]]
        /\ more' = [NoMore EXCEPT !.mtReport = (unread' = {})]
    BY <1>5 DEF Frame, ListReport
  <2>2. TouchedSlots' = unread' /\ Listed' = {}
    BY <2>1 DEF TouchedSlots, Listed
  <2>3. /\ more'.key = NoKey /\ more'.pos = NoPlace /\ more'.mtReport = (unread' = {})
        /\ more' \in [key : {0, 1, NoKey}, pos : Places \cup {NoPlace}, mtReport : BOOLEAN]
    <3>1. (unread' = {}) \in BOOLEAN
      OBVIOUS
    <3>2. QED
      BY <2>1, <3>1 DEF NoMore
  <2>4. told' \in [Slots -> [id : TrackingIds \cup {NoId}, pos : Places \cup {NoPlace}]]
    BY <1>1, <2>1 DEF Contact
  <2>5. TTypeOK'
    BY <1>1, <2>1, <2>3, <2>4 DEF TTypeOK
  <2>6. Known' /\ InSlots'
    BY <1>1, <1>5, <2>1 DEF Known, InSlots
  <2>7. InList'
    <3>1. cur' = 0
      BY <1>1, <1>5 DEF Driven, InList, cur
    <3>2. \A s \in unread' : Touched(screen'[s]) /\ cur' <= s
      BY <2>1, <3>1, SlotsAndNumbers
    <3>3. AtReport' => FALSE
      <4>1. NoMore.mtReport = FALSE
        BY DEF NoMore
      <4>2. QED
        BY <2>3, <4>1 DEF AtReport
    <3>4. QED
      BY <1>1, <2>2, <2>3, <3>1, <3>2, <3>3 DEF InList
  <2>8. QED
    BY <2>5, <2>6, <2>7 DEF Driven
<1>6. QED
  BY <1>4, <1>5

LEMMA DrivenRest == ASSUME Driven, ReaderDies \/ StoreCallback \/ Dead \/ UNCHANGED tvars PROVE Driven'
<1>1. /\ UNCHANGED <<driver, screen, frameVars, touch, lift, view>>
      /\ thread' = thread \/ thread' = "dead"
      /\ Listing' = Listing /\ TouchedSlots' = TouchedSlots
  BY DEF ReaderDies, StoreCallback, Dead, tvars, Listing, TouchedSlots, Touched
<1>2. reused' = reused /\ stored' \in 0 .. 3
  BY DEF ReaderDies, StoreCallback, Dead, tvars, AllStored, Driven, TTypeOK
<1>3. TTypeOK'
  BY <1>1, <1>2 DEF Driven, TTypeOK, frameVars
<1>4. Known'
  BY <1>1 DEF Driven, Known, frameVars
<1>5. InSlots'
  BY <1>1, <1>2 DEF Driven, InSlots, frameVars, cur
<1>6. InList'
  BY <1>1 DEF Driven, InList, frameVars, cur, Listed, AtReport
<1>7. QED
  BY <1>3, <1>4, <1>5, <1>6 DEF Driven

LEMMA DrivenStep == ASSUME Driven, [TNext]_tvars PROVE Driven'
<1>1. CASE Frame
  BY <1>1, DrivenFrame
<1>2. CASE ReadsOn
  BY <1>2, DrivenSlot, DrivenId, DrivenPosition, DrivenMtReport, DrivenMore, DrivenReport, DrivenLift,
     DrivenLifted, DrivenEnd DEF ReadsOn
<1>3. CASE ReaderDies \/ StoreCallback \/ Dead \/ UNCHANGED tvars
  BY <1>3, DrivenRest
<1>4. QED
  BY <1>1, <1>2, <1>3 DEF TNext

-----------------------------------------------------------------------------
(* Protocol B: the frontend knows the slots as far as they were read.        *)

SlotsTold ==
  /\ ~Down(MaxSlot + 1)
  /\ \A c \in Slots : c # cur \/ touch.sendKey = FALSE => (Down(c) <=> Touched(told[c]))
  /\ touch.sendKey => (touch.key = 1 <=> Touched(told[cur]))
  /\ thread = "polling" => touch.sendKey = FALSE /\ touch.sendAbs = FALSE

\* Without single-touch events it also knows where they are.
SlotsPlaced ==
  /\ \A c \in Slots : c # cur \/ ~Pending => (Touched(told[c]) => view.at[c] = told[c].pos)
  /\ told[cur].id # screen[cur].id => ~Pending
  /\ touch.sendKey => touch.key = 1
  /\ touch.sendAbs => Touched(told[cur])
  /\ ~reused => view.inTurn /\ (touch.sendKey => ~Down(cur))

SlotsAgree == ~Listing /\ ~early => SlotsTold /\ (driver = "B" => SlotsPlaced)

\* flushEvents() tells of the current slot what is still pending.
LEMMA SlotFlushed ==
  ASSUME Driven, ~Listing, SlotsTold, driver = "B" => SlotsPlaced, stored = 3,
         Flushes(touch.currentSlot, touch.sendKey, touch.key)
  PROVE  /\ ~Down(MaxSlot + 1)'
         /\ \A c \in Slots : Down(c)' <=> Touched(told[c])
         /\ touch'.sendKey = FALSE /\ touch'.sendAbs = FALSE
         /\ driver = "B" => /\ \A c \in Slots : Touched(told[c]) => view'.at[c] = told[c].pos
                            /\ ~reused => view'.inTurn
<1>1. /\ cur \in Slots /\ MaxSlot + 1 \in Numbers /\ MaxSlot + 1 # cur /\ Slots \subseteq Numbers
      /\ touch.sendKey \in BOOLEAN /\ touch.sendAbs \in BOOLEAN /\ touch.key \in {0, 1}
      /\ touch.contacts[cur].pos \in Places /\ Series!Nowhere \notin Places
  BY SlotsAndNumbers, PlacesAssumption, NowIsWork DEF Driven, InSlots, cur, DeviceFields, Contact, TTypeOK, Series!Nowhere
<1>2. /\ \A d \in Numbers \ {cur} : view'.at[d] = view.at[d]
      /\ touch'.sendKey = FALSE /\ touch'.sendAbs = FALSE
      /\ touch.sendKey = FALSE /\ touch.sendAbs = FALSE => view' = view
      /\ touch.sendKey /\ touch.key = 1 =>
           /\ view'.at[cur] = touch.contacts[cur].pos
           /\ view.inTurn /\ view.at[cur] = Series!Nowhere => view'.inTurn
      /\ touch.sendKey /\ touch.key = 0 => view'.at[cur] = Series!Nowhere
      /\ touch.sendKey = FALSE =>
           /\ view.at[cur] = Series!Nowhere => view'.at[cur] = Series!Nowhere
           /\ view.at[cur] # Series!Nowhere =>
                /\ view'.at[cur] = IF touch.sendAbs THEN touch.contacts[cur].pos ELSE view.at[cur]
                /\ view.inTurn => view'.inTurn
  BY Zenon DEF Flushes, cur
<1>3. /\ ~Down(MaxSlot + 1)'
      /\ \A c \in Slots : c # cur => (Down(c)' <=> Touched(told[c]))
  BY <1>1, <1>2 DEF SlotsTold, Down
<1>4. view'.at[cur] # Series!Nowhere <=> Touched(told[cur])
  BY <1>1, <1>2 DEF SlotsTold, Down
<1>5. ASSUME driver = "B"
      PROVE  /\ \A c \in Slots : Touched(told[c]) => view'.at[c] = told[c].pos
             /\ ~reused => view'.inTurn
  <2>1. touch.contacts[cur].pos = told[cur].pos
    BY <1>1, <1>5 DEF Driven, InSlots
  <2>2. \A c \in Slots : c # cur => (Touched(told[c]) => view'.at[c] = told[c].pos)
    BY <1>1, <1>2, <1>5 DEF SlotsPlaced
  <2>3. ASSUME Touched(told[cur])
        PROVE  view'.at[cur] = told[cur].pos
    <3>1. CASE touch.sendKey = TRUE
      BY <1>1, <1>2, <1>5, <2>1, <2>3, <3>1 DEF SlotsTold
    <3>2. CASE touch.sendKey = FALSE
      <4>1. view.at[cur] # Series!Nowhere
        BY <1>1, <2>3, <3>2 DEF SlotsTold, Down
      <4>2. touch.sendAbs = FALSE => view.at[cur] = told[cur].pos
        BY <1>1, <1>5, <2>3, <3>2 DEF SlotsPlaced, Pending
      <4>3. QED
        BY <1>1, <1>2, <2>1, <3>2, <4>1, <4>2
    <3>3. QED
      BY <1>1, <3>1, <3>2
  <2>4. ASSUME ~reused PROVE view'.inTurn
    <3>1. CASE touch.sendKey = TRUE
      BY <1>1, <1>2, <1>5, <2>4, <3>1 DEF SlotsPlaced, Down
    <3>2. CASE touch.sendKey = FALSE
      <4>1. touch.sendAbs = TRUE => view.at[cur] # Series!Nowhere
        BY <1>1, <1>5, <3>2 DEF SlotsTold, SlotsPlaced, Down
      <4>2. QED
        BY <1>1, <1>2, <1>5, <2>4, <3>2, <4>1 DEF SlotsPlaced
    <3>3. QED
      BY <1>1, <3>1, <3>2
  <2>5. QED
    BY <2>2, <2>3, <2>4
<1>6. QED
  BY <1>2, <1>3, <1>4, <1>5 DEF Down

LEMMA SlotsFrame == ASSUME Driven, Driven', SlotsAgree, Frame PROVE SlotsAgree'
<1> SUFFICES ASSUME ~Listing', ~early' PROVE SlotsTold' /\ (driver' = "B" => SlotsPlaced')
  BY DEF SlotsAgree
<1>1. /\ ~Listing /\ ~early /\ thread = "polling" /\ thread' = "reading" /\ told' = told
      /\ driver' = driver /\ touch' = touch /\ view' = view /\ (~reused' => ~reused)
      /\ cur' = cur
  BY DEF Frame, ChangeReport, Listing, cur
<1>2. SlotsTold /\ (driver = "B" => SlotsPlaced)
  BY <1>1 DEF SlotsAgree
<1>3. SlotsTold'
  BY <1>1, <1>2 DEF SlotsTold, Down
<1>4. touch.sendKey = FALSE /\ touch.sendAbs = FALSE
  BY <1>1, <1>2 DEF SlotsTold
<1>5. driver = "B" => SlotsPlaced'
  BY <1>1, <1>2, <1>4 DEF SlotsPlaced, Pending, Down
<1>6. QED
  BY <1>1, <1>3, <1>5

\* What the steps of the reader have in common when no event came too early.
LEMMA SlotsStored ==
  ASSUME Driven, SlotsAgree, ~Listing', ~early',
         driver' = driver, early' = (early \/ ~AllStored)
  PROVE  ~Listing /\ stored = 3 /\ SlotsTold /\ (driver = "B" => SlotsPlaced)
  BY DEF SlotsAgree, AllStored, Listing

LEMMA SlotsSlot == ASSUME Driven, SlotsAgree, NEW s \in Slots, ReadSlot(s) PROVE SlotsAgree'
<1> SUFFICES ASSUME ~Listing', ~early' PROVE SlotsTold' /\ (driver' = "B" => SlotsPlaced')
  BY DEF SlotsAgree
<1>1. /\ TTypeOK /\ thread = "reading" /\ kernelSlot # s
      /\ thread' = thread /\ told' = told /\ driver' = driver /\ screen' = screen /\ reused' = reused
  BY DEF Driven, ReadSlot, AtSlot, Foremost, Handled
<1>2. ~Listing /\ stored = 3 /\ SlotsTold /\ (driver = "B" => SlotsPlaced)
  BY SlotsStored DEF ReadSlot, Handled
<1>3. Flushes(touch.currentSlot, touch.sendKey, touch.key) /\ touch'.currentSlot = s
  BY <1>1, SlotEffect
<1>4. /\ ~Down(MaxSlot + 1)'
      /\ \A c \in Slots : Down(c)' <=> Touched(told[c])
      /\ touch'.sendKey = FALSE /\ touch'.sendAbs = FALSE
      /\ driver = "B" => /\ \A c \in Slots : Touched(told[c]) => view'.at[c] = told[c].pos
                         /\ ~reused => view'.inTurn
  BY <1>2, <1>3, SlotFlushed
<1>5. SlotsTold'
  BY <1>1, <1>4 DEF SlotsTold
<1>6. driver = "B" => SlotsPlaced'
  BY <1>1, <1>4 DEF SlotsPlaced, Pending
<1>7. QED
  BY <1>1, <1>5, <1>6

LEMMA SlotsEnd == ASSUME Driven, SlotsAgree, EndFrame PROVE SlotsAgree'
<1> SUFFICES ASSUME ~Listing', ~early' PROVE SlotsTold' /\ (driver' = "B" => SlotsPlaced')
  BY DEF SlotsAgree
<1>1. /\ TTypeOK /\ thread = "locking" /\ told' = told /\ driver' = driver /\ screen' = screen /\ reused' = reused
  BY DEF Driven, EndFrame, Handled, frameVars
<1>2. ~Listing /\ stored = 3 /\ SlotsTold /\ (driver = "B" => SlotsPlaced)
  BY SlotsStored DEF EndFrame, Handled
<1>3. Flushes(touch.currentSlot, touch.sendKey, touch.key)
  BY <1>1, EndEffect
<1>4. /\ ~Down(MaxSlot + 1)'
      /\ \A c \in Slots : Down(c)' <=> Touched(told[c])
      /\ touch'.sendKey = FALSE /\ touch'.sendAbs = FALSE
      /\ driver = "B" => /\ \A c \in Slots : Touched(told[c]) => view'.at[c] = told[c].pos
                         /\ ~reused => view'.inTurn
  BY <1>2, <1>3, SlotFlushed
<1>5. SlotsTold'
  BY <1>1, <1>4 DEF SlotsTold
<1>6. driver = "B" => SlotsPlaced'
  BY <1>1, <1>4 DEF SlotsPlaced, Pending
<1>7. QED
  BY <1>1, <1>5, <1>6

LEMMA SlotsId == ASSUME Driven, SlotsAgree, NEW s \in Slots, ReadTrackingId(s) PROVE SlotsAgree'
<1> SUFFICES ASSUME ~Listing', ~early' PROVE SlotsTold' /\ (driver' = "B" => SlotsPlaced')
  BY DEF SlotsAgree
<1>1. /\ TTypeOK /\ thread' = "reading" /\ told[s].id # screen[s].id /\ (~Listing => kernelSlot = s)
      /\ driver' = driver /\ screen' = screen /\ reused' = reused
      /\ told' = [told EXCEPT ![s] = [told[s] EXCEPT !.id = screen[s].id]]
  BY DEF Driven, ReadTrackingId, Handled, AtId, AtFields, AtSlot, Foremost, Read
<1>2. ~Listing /\ stored = 3 /\ SlotsTold /\ (driver = "B" => SlotsPlaced)
  BY SlotsStored DEF ReadTrackingId, Handled
<1>3. /\ Touched(screen[s]) =>
              Keeps /\ touch'.key = 1 /\ touch'.sendKey = TRUE /\ touch'.sendAbs = touch.sendAbs
      /\ ~Touched(screen[s]) => Flushes(touch.currentSlot, TRUE, 0)
      /\ touch'.currentSlot = touch.currentSlot
  BY <1>1, IdEffect
<1>4. s = cur /\ cur' = cur /\ cur \in Numbers /\ MaxSlot + 1 # cur
  BY <1>1, <1>2, <1>3, SlotsAndNumbers DEF Driven, InSlots, cur
<1>5. /\ told'[cur].id = screen[cur].id
      /\ \A d \in Slots \ {cur} : told'[d] = told[d]
  BY <1>1, <1>4 DEF TTypeOK
<1>6. CASE Touched(screen[s])
  <2>1. view' = view /\ touch'.key = 1 /\ touch'.sendKey = TRUE /\ touch'.sendAbs = touch.sendAbs
    BY <1>3, <1>6 DEF Keeps
  <2>2. SlotsTold'
    BY <1>1, <1>2, <1>4, <1>5, <1>6, <2>1 DEF SlotsTold, Down, Touched
  <2>3. ASSUME driver = "B" PROVE SlotsPlaced'
    <3>1. SlotsPlaced /\ touch.sendKey = FALSE /\ touch.sendAbs = FALSE
      <4>1. SlotsPlaced /\ ~Pending /\ touch.sendKey \in BOOLEAN /\ touch.sendAbs \in BOOLEAN
        BY <1>1, <1>2, <1>4, <2>3 DEF SlotsPlaced, TTypeOK
      <4>2. QED
        BY <4>1 DEF Pending
    <3>2. ~reused => ~Down(cur)
      BY <1>1, <1>2, <1>4, <1>6, <3>1 DEF SlotsTold, Driven, InSlots
    <3>3. ~reused' => view'.inTurn /\ (touch'.sendKey => view'.at[cur'] = Series!Nowhere)
      BY <1>1, <1>4, <2>1, <3>1, <3>2 DEF SlotsPlaced, Down
    <3>4. /\ \A c \in Slots : c # cur' => (Touched(told'[c]) => view'.at[c] = told'[c].pos)
          /\ told'[cur'].id = screen'[cur'].id /\ touch'.sendAbs = FALSE /\ Pending'
      BY <1>1, <1>4, <1>5, <2>1, <3>1 DEF SlotsPlaced, Pending
    <3>5. QED
      BY <2>1, <3>3, <3>4 DEF SlotsPlaced, Down
  <2>4. QED
    BY <1>1, <2>2, <2>3
<1>7. CASE ~Touched(screen[s])
  <2>1. /\ \A d \in Numbers \ {cur} : view'.at[d] = view.at[d]
        /\ touch'.sendKey = FALSE /\ touch'.sendAbs = FALSE /\ view'.at[cur] = Series!Nowhere
        /\ view.inTurn /\ view.at[cur] # Series!Nowhere /\ touch.sendAbs = FALSE => view'.inTurn
    BY <1>2, <1>3, <1>7 DEF Flushes, cur
  <2>2. SlotsTold'
    BY <1>1, <1>2, <1>4, <1>5, <1>7, <2>1, SlotsAndNumbers DEF SlotsTold, Down, Touched
  <2>3. ASSUME driver = "B" PROVE SlotsPlaced'
    <3>1. SlotsPlaced /\ touch.sendKey = FALSE /\ touch.sendAbs = FALSE
      <4>1. SlotsPlaced /\ ~Pending /\ touch.sendKey \in BOOLEAN /\ touch.sendAbs \in BOOLEAN
        BY <1>1, <1>2, <1>4, <2>3 DEF SlotsPlaced, TTypeOK
      <4>2. QED
        BY <4>1 DEF Pending
    <3>2. Down(cur)
      BY <1>1, <1>2, <1>4, <1>7, <3>1 DEF SlotsTold, Touched
    <3>3. ~reused' => view'.inTurn
      BY <1>1, <2>1, <3>1, <3>2 DEF SlotsPlaced, Down
    <3>4. \A c \in Slots : Touched(told'[c]) => view'.at[c] = told'[c].pos
      BY <1>4, <1>5, <1>7, <2>1, <3>1, SlotsAndNumbers DEF SlotsPlaced, Touched
    <3>5. QED
      BY <1>1, <1>4, <1>5, <2>1, <3>3, <3>4 DEF SlotsPlaced
  <2>4. QED
    BY <1>1, <2>2, <2>3
<1>8. QED
  BY <1>6, <1>7

LEMMA SlotsPosition == ASSUME Driven, SlotsAgree, NEW s \in Slots, ReadPosition(s) PROVE SlotsAgree'
<1> SUFFICES ASSUME ~Listing', ~early' PROVE SlotsTold' /\ (driver' = "B" => SlotsPlaced')
  BY DEF SlotsAgree
<1>1. /\ TTypeOK /\ thread' = "reading" /\ told[s].id = screen[s].id /\ told[s].pos # screen[s].pos
      /\ (~Listing => kernelSlot = s)
      /\ driver' = driver /\ screen' = screen /\ reused' = reused
      /\ told' = [told EXCEPT ![s] = screen[s]]
      /\ touch' = OnPosition(Now, screen[s].pos).t /\ view' = OnPosition(Now, screen[s].pos).v
  BY DEF Driven, ReadPosition, Handled, AtPosition, AtId, AtFields, AtSlot, Foremost, Read
<1>2. ~Listing /\ stored = 3 /\ SlotsTold /\ (driver = "B" => SlotsPlaced)
  BY SlotsStored DEF ReadPosition, Handled
<1>3. /\ view' = view /\ touch'.key = touch.key /\ touch'.sendKey = touch.sendKey /\ touch'.sendAbs = TRUE
      /\ touch'.currentSlot = touch.currentSlot
  <2>1. screen[s].pos \in Places
    BY <1>1 DEF TTypeOK, Contact
  <2>2. QED
    BY <1>1, <2>1, PositionEffect DEF Keeps
<1>4. s = cur /\ cur' = cur /\ cur \in Slots /\ Touched(screen[cur])
  BY <1>1, <1>2, <1>3, SlotsAndNumbers DEF Driven, InSlots, cur
<1>5. /\ told'[cur] = screen[cur] /\ told'[cur].id = told[cur].id
      /\ \A d \in Slots \ {cur} : told'[d] = told[d]
  BY <1>1, <1>4 DEF TTypeOK
<1>6. SlotsTold'
  <2>1. \A d \in Slots : Touched(told'[d]) <=> Touched(told[d])
    BY <1>4, <1>5 DEF Touched
  <2>2. QED
    BY <1>1, <1>2, <1>3, <1>4, <2>1 DEF SlotsTold, Down
<1>7. driver = "B" => SlotsPlaced'
  <2>1. Pending'
    BY <1>3 DEF Pending
  <2>2. QED
    BY <1>1, <1>2, <1>3, <1>4, <1>5, <2>1 DEF SlotsPlaced, Down
<1>8. QED
  BY <1>1, <1>6, <1>7

LEMMA SlotsMore == ASSUME Driven, SlotsAgree, ReadMore PROVE SlotsAgree'
<1> SUFFICES ASSUME ~Listing', ~early' PROVE SlotsTold' /\ (driver' = "B" => SlotsPlaced')
  BY DEF SlotsAgree
<1>1. /\ TTypeOK /\ thread' = "reading" /\ unread = {} /\ more # NoMore
      /\ driver' = driver /\ screen' = screen /\ told' = told
  BY DEF Driven, ReadMore, Handled, AtMore
<1>2. ~Listing /\ stored = 3 /\ SlotsTold /\ (driver = "B" => SlotsPlaced)
  BY SlotsStored DEF ReadMore, Handled
<1>3. /\ driver # "B" /\ more.mtReport = FALSE /\ cur \in Slots
      /\ more \in [key : {0, 1, NoKey}, pos : Places \cup {NoPlace}, mtReport : BOOLEAN]
  BY <1>1, <1>2 DEF Driven, InSlots, TTypeOK, cur
<1>4. CASE more.key # NoKey /\ touch' = WithKey(Now, more.key).t /\ view' = WithKey(Now, more.key).v
  <2>1. more.key \in {0, 1}
    BY <1>3, <1>4
  <2>2. view' = view /\ touch'.key = more.key /\ touch'.sendKey = TRUE /\ touch'.currentSlot = touch.currentSlot
    BY <1>1, <1>4, <2>1, KeyEffect DEF Keeps
  <2>3. more.key = 1 <=> Touched(told[cur])
    <3>1. told[cur] = screen[cur] /\ cur = kernelSlot
      BY <1>1, <1>2, <1>3 DEF Driven, Known, InSlots
    <3>2. QED
      BY <1>1, <1>2, <1>3, <2>1, <3>1 DEF Driven, InSlots
  <2>4. cur' = cur
    BY <2>2 DEF cur
  <2>5. QED
    BY <1>1, <1>2, <1>3, <2>2, <2>3, <2>4 DEF SlotsTold, Down
<1>5. CASE more.pos # NoPlace /\ touch' = OnPosition(Now, more.pos).t /\ view' = OnPosition(Now, more.pos).v
  <2>1. more.pos \in Places
    BY <1>3, <1>5
  <2>2. view' = view /\ touch'.key = touch.key /\ touch'.sendKey = touch.sendKey
        /\ touch'.currentSlot = touch.currentSlot
    BY <1>1, <1>5, <2>1, PositionEffect DEF Keeps
  <2>3. cur' = cur
    BY <2>2 DEF cur
  <2>4. QED
    BY <1>1, <1>2, <1>3, <2>2, <2>3 DEF SlotsTold, Down
<1>6. QED
  BY <1>3, <1>4, <1>5 DEF ReadMore, Handled

LEMMA SlotsRest ==
  ASSUME Driven, SlotsAgree,
         ReadReport \/ Lift \/ Lifted \/ ReaderDies \/ StoreCallback \/ Dead \/ UNCHANGED tvars
  PROVE  SlotsAgree'
<1> SUFFICES ASSUME ~Listing', ~early' PROVE SlotsTold' /\ (driver' = "B" => SlotsPlaced')
  BY DEF SlotsAgree
<1>1. driver' = driver /\ Listing' = Listing /\ told' = told /\ screen' = screen /\ reused' = reused
      /\ (~early' => ~early)
  <2>1. CASE ReadReport \/ Lift \/ Lifted
    BY <2>1 DEF ReadReport, Lift, Lifted, frameVars, Handled, Listing
  <2>2. CASE ReaderDies \/ StoreCallback
    BY <2>2 DEF ReaderDies, StoreCallback, frameVars, Listing
  <2>3. CASE Dead \/ UNCHANGED tvars
    BY <2>3 DEF Dead, tvars, frameVars, Listing
  <2>4. QED
    BY <2>1, <2>2, <2>3
<1>2. ~Listing /\ SlotsTold /\ (driver = "B" => SlotsPlaced) /\ thread # "lifting"
  BY <1>1 DEF SlotsAgree, Driven, InSlots
<1>3. touch' = touch /\ view' = view /\ (thread' = "polling" => thread = "polling")
  <2>1. CASE ReadReport
    BY <2>1, ReportEffect DEF ReadReport, Driven, Keeps
  <2>2. CASE ~ReadReport
    BY <1>2, <2>2 DEF Lift, Lifted, Lifting, ReaderDies, StoreCallback, Dead, tvars
  <2>3. QED
    BY <2>1, <2>2
<1>4. cur' = cur
  BY <1>3 DEF cur
<1>5. SlotsTold'
  BY <1>1, <1>2, <1>3, <1>4 DEF SlotsTold, Down
<1>6. driver = "B" => SlotsPlaced'
  BY <1>1, <1>2, <1>3, <1>4 DEF SlotsPlaced, Pending, Down
<1>7. QED
  BY <1>1, <1>5, <1>6

LEMMA SlotsInit == TInit => SlotsAgree
<1> SUFFICES ASSUME TInit PROVE SlotsTold /\ SlotsPlaced
  BY DEF SlotsAgree
<1>1. /\ \A c \in Numbers : view.at[c] = Series!Nowhere
      /\ view.inTurn /\ touch.sendKey = FALSE /\ touch.sendAbs = FALSE /\ touch.currentSlot = 0
      /\ told = screen /\ \A c \in Slots : ~Touched(told[c])
  BY DEF TInit, Series!NothingSeen, Touched, NoId
<1>2. QED
  BY <1>1, SlotsAndNumbers DEF SlotsTold, SlotsPlaced, Pending, Down, cur

LEMMA SlotsStep == ASSUME Driven, SlotsAgree, [TNext]_tvars PROVE SlotsAgree'
<1>1. CASE Frame
  BY <1>1, SlotsFrame, DrivenFrame
<1>2. ASSUME NEW s \in Slots, ReadSlot(s) \/ ReadTrackingId(s) \/ ReadPosition(s)
      PROVE  SlotsAgree'
  BY <1>2, SlotsSlot, SlotsId, SlotsPosition
<1>3. ASSUME NEW s \in Slots, ReadMtReport(s) PROVE SlotsAgree'
  <2>1. Listing /\ driver' = driver
    BY <1>3 DEF Driven, InSlots, ReadMtReport, AtMtReport, AtFields, Foremost, Handled
  <2>2. QED
    BY <2>1 DEF SlotsAgree, Listing
<1>4. CASE ReadMore \/ EndFrame
  BY <1>4, SlotsMore, SlotsEnd
<1>5. CASE ReadReport \/ Lift \/ Lifted \/ ReaderDies \/ StoreCallback \/ Dead \/ UNCHANGED tvars
  BY <1>5, SlotsRest
<1>6. QED
  BY <1>1, <1>2, <1>3, <1>4, <1>5 DEF TNext, ReadsOn

-----------------------------------------------------------------------------
(* Protocol B, from the start on: what the frontend holds to be down is down *)
(* as far as was read, unless a callback was called while it was stored.     *)

SlotsHeld ==
  /\ ~AllStored => \A c \in Numbers : ~Down(c)
  /\ \A c \in Numbers : Down(c) => c \in Slots /\ Touched(told[c])
  /\ touch.sendKey /\ touch.key = 1 => Touched(told[cur])

NothingLeft == ~Listing /\ ~torn => SlotsHeld

LEMMA HeldFlushed ==
  ASSUME Driven, ~Listing, SlotsHeld, ~Storing, stored' = stored,
         Flushes(touch.currentSlot, touch.sendKey, touch.key)
  PROVE  /\ ~AllStored' => \A c \in Numbers : ~Down(c)'
         /\ \A c \in Numbers : Down(c)' => c \in Slots /\ Touched(told[c])
         /\ touch'.sendKey = FALSE
<1>1. /\ cur \in Slots /\ touch.sendKey \in BOOLEAN /\ touch.key \in {0, 1} /\ stored \in {0, 3}
  BY NowIsWork DEF Driven, InSlots, cur, DeviceFields, TTypeOK, Storing
<1>2. /\ touch'.sendKey = FALSE
      /\ \A d \in Numbers \ {cur} : view'.at[d] = view.at[d]
      /\ stored = 0 => view' = view
      /\ stored = 3 /\ touch.sendKey /\ touch.key = 0 => view'.at[cur] = Series!Nowhere
      /\ stored = 3 /\ touch.sendKey = FALSE =>
           (view.at[cur] = Series!Nowhere => view'.at[cur] = Series!Nowhere)
  BY Zenon DEF Flushes, cur
<1>3. CASE stored = 0
  BY <1>2, <1>3 DEF SlotsHeld, AllStored, Down
<1>4. CASE stored = 3
  <2>1. \A c \in Numbers \ {cur} : Down(c)' => c \in Slots /\ Touched(told[c])
    BY <1>2 DEF SlotsHeld, Down
  <2>2. view'.at[cur] # Series!Nowhere => Touched(told[cur])
    BY <1>1, <1>2, <1>4, SlotsAndNumbers DEF SlotsHeld, Down
  <2>3. QED
    BY <1>1, <1>2, <1>4, <2>1, <2>2 DEF AllStored, Down
<1>5. QED
  BY <1>1, <1>3, <1>4

LEMMA HeldFlushes ==
  ASSUME Driven, NothingLeft, (\E s \in Slots : ReadSlot(s)) \/ EndFrame
  PROVE  NothingLeft'
<1> SUFFICES ASSUME ~Listing', ~torn' PROVE SlotsHeld'
  BY DEF NothingLeft
<1>1. /\ TTypeOK /\ told' = told /\ ~Listing /\ stored' = stored /\ ~Storing /\ SlotsHeld
      /\ Flushes(touch.currentSlot, touch.sendKey, touch.key)
  <2>1. ASSUME NEW s \in Slots, ReadSlot(s)
        PROVE  /\ TTypeOK /\ told' = told /\ driver' = driver /\ stored' = stored /\ ~Storing /\ ~torn
               /\ Flushes(touch.currentSlot, touch.sendKey, touch.key)
    <3>1. Flushes(touch.currentSlot, touch.sendKey, touch.key)
      BY <2>1, SlotEffect DEF Driven
    <3>2. QED
      BY <2>1, <3>1 DEF Driven, ReadSlot, Handled
  <2>2. CASE EndFrame
    <3>1. Flushes(touch.currentSlot, touch.sendKey, touch.key)
      BY <2>2, EndEffect DEF Driven
    <3>2. told' = told /\ driver' = driver /\ stored' = stored /\ ~Storing /\ ~torn
      BY <2>2 DEF EndFrame, Handled, frameVars
    <3>3. QED
      BY <3>1, <3>2 DEF Driven, NothingLeft, Listing
  <2>3. QED
    BY <2>1, <2>2 DEF NothingLeft, Listing
<1>2. /\ ~AllStored' => \A c \in Numbers : ~Down(c)'
      /\ \A c \in Numbers : Down(c)' => c \in Slots /\ Touched(told[c])
      /\ touch'.sendKey = FALSE
  BY <1>1, HeldFlushed
<1>3. QED
  BY <1>1, <1>2 DEF SlotsHeld

LEMMA HeldId == ASSUME Driven, NothingLeft, NEW s \in Slots, ReadTrackingId(s) PROVE NothingLeft'
<1> SUFFICES ASSUME ~Listing', ~torn' PROVE SlotsHeld'
  BY DEF NothingLeft
<1>1. /\ TTypeOK /\ stored' = stored /\ screen' = screen
      /\ driver' = driver /\ (~Listing => kernelSlot = s) /\ ~torn
      /\ told' = [told EXCEPT ![s] = [told[s] EXCEPT !.id = screen[s].id]]
      /\ ~Touched(screen[s]) => ~Storing
  BY DEF Driven, ReadTrackingId, Handled, AtId, AtFields, AtSlot, Foremost, Read
<1>2. ~Listing /\ SlotsHeld
  BY <1>1 DEF NothingLeft, Listing
<1>3. /\ Touched(screen[s]) => Keeps
      /\ ~Touched(screen[s]) => Flushes(touch.currentSlot, TRUE, 0)
      /\ touch'.currentSlot = touch.currentSlot
  BY <1>1, IdEffect
<1>4. s = cur /\ cur' = cur /\ cur \in Slots /\ stored \in 0 .. 3
  BY <1>1, <1>2, <1>3 DEF Driven, InSlots, cur, TTypeOK
<1>5. /\ told'[cur].id = screen[cur].id /\ \A d \in Slots \ {cur} : told'[d] = told[d]
  BY <1>1, <1>4 DEF TTypeOK
<1>6. CASE Touched(screen[s])
  <2>1. view' = view
    BY <1>3, <1>6 DEF Keeps
  <2>2. \A d \in Slots : Touched(told[d]) => Touched(told'[d])
    BY <1>4, <1>5, <1>6 DEF Touched
  <2>3. Touched(told'[cur'])
    BY <1>4, <1>5, <1>6 DEF Touched
  <2>4. QED
    BY <1>1, <1>2, <2>1, <2>2, <2>3 DEF SlotsHeld, Down, AllStored
<1>7. CASE ~Touched(screen[s])
  <2>1. /\ \A d \in Numbers \ {cur} : view'.at[d] = view.at[d]
        /\ stored = 0 => view' = view
        /\ stored = 3 => view'.at[cur] = Series!Nowhere
    BY <1>3, <1>7 DEF Flushes, cur
  <2>2. touch'.sendKey = FALSE
    BY <1>3, <1>7 DEF Flushes
  <2>3. stored \in {0, 3}
    BY <1>1, <1>4, <1>7 DEF Storing
  <2>4. \A c \in Numbers : Down(c)' => c # cur /\ Down(c)
    BY <1>2, <1>3, <1>4, <1>7, <2>1, <2>3, SlotsAndNumbers DEF SlotsHeld, AllStored, Down, Flushes
  <2>5. QED
    BY <1>1, <1>2, <1>5, <2>2, <2>4 DEF SlotsHeld, AllStored
<1>8. QED
  BY <1>6, <1>7

LEMMA HeldPosition == ASSUME Driven, NothingLeft, NEW s \in Slots, ReadPosition(s) PROVE NothingLeft'
<1> SUFFICES ASSUME ~Listing', ~torn' PROVE SlotsHeld'
  BY DEF NothingLeft
<1>1. /\ TTypeOK /\ told[s].id = screen[s].id /\ driver' = driver /\ stored' = stored /\ ~torn
      /\ told' = [told EXCEPT ![s] = screen[s]] /\ screen[s].pos \in Places
      /\ touch' = OnPosition(Now, screen[s].pos).t /\ view' = OnPosition(Now, screen[s].pos).v
  BY DEF Driven, TTypeOK, Contact, ReadPosition, Handled, AtPosition, AtFields, AtId, Read
<1>2. ~Listing /\ SlotsHeld
  BY <1>1 DEF NothingLeft, Listing
<1>3. /\ view' = view /\ touch'.key = touch.key /\ touch'.sendKey = touch.sendKey
      /\ touch'.currentSlot = touch.currentSlot
  BY <1>1, PositionEffect DEF Keeps
<1>4. /\ \A d \in Slots : Touched(told[d]) <=> Touched(told'[d])
      /\ cur \in Slots /\ cur' = cur
  BY <1>1, <1>2, <1>3 DEF TTypeOK, Driven, InSlots, cur, Touched
<1>5. QED
  BY <1>1, <1>2, <1>3, <1>4 DEF SlotsHeld, Down, AllStored

LEMMA HeldMore == ASSUME Driven, NothingLeft, ReadMore PROVE NothingLeft'
<1> SUFFICES ASSUME ~Listing', ~torn' PROVE SlotsHeld'
  BY DEF NothingLeft
<1>1. TTypeOK /\ unread = {} /\ driver' = driver /\ stored' = stored /\ told' = told /\ ~torn
  BY DEF Driven, ReadMore, Handled, AtMore
<1>2. ~Listing /\ SlotsHeld
  BY <1>1 DEF NothingLeft, Listing
<1>3. /\ more.mtReport = FALSE /\ cur \in Slots /\ told[cur] = screen[cur]
      /\ more \in [key : {0, 1, NoKey}, pos : Places \cup {NoPlace}, mtReport : BOOLEAN]
      /\ more.key = 1 => Touched(screen[cur])
  BY <1>1, <1>2 DEF Driven, Known, InSlots, TTypeOK, cur
<1>4. CASE more.key # NoKey /\ touch' = WithKey(Now, more.key).t /\ view' = WithKey(Now, more.key).v
  <2>1. more.key \in {0, 1}
    BY <1>3, <1>4
  <2>2. view' = view /\ touch'.key = more.key /\ touch'.currentSlot = touch.currentSlot
    BY <1>1, <1>4, <2>1, KeyEffect DEF Keeps
  <2>3. QED
    BY <1>1, <1>2, <1>3, <2>2 DEF SlotsHeld, Down, AllStored, cur
<1>5. CASE more.pos # NoPlace /\ touch' = OnPosition(Now, more.pos).t /\ view' = OnPosition(Now, more.pos).v
  <2>1. more.pos \in Places
    BY <1>3, <1>5
  <2>2. view' = view /\ touch'.key = touch.key /\ touch'.sendKey = touch.sendKey
        /\ touch'.currentSlot = touch.currentSlot
    BY <1>1, <1>5, <2>1, PositionEffect DEF Keeps
  <2>3. QED
    BY <1>1, <1>2, <1>3, <2>2 DEF SlotsHeld, Down, AllStored, cur
<1>6. QED
  BY <1>3, <1>4, <1>5 DEF ReadMore, Handled

LEMMA HeldRest ==
  ASSUME Driven, NothingLeft,
         Frame \/ ReadReport \/ Lift \/ Lifted \/ ReaderDies \/ StoreCallback \/ Dead \/ UNCHANGED tvars
  PROVE  NothingLeft'
<1> SUFFICES ASSUME ~Listing', ~torn' PROVE SlotsHeld'
  BY DEF NothingLeft
<1>1. driver' = driver /\ ~torn
  <2>1. CASE ReadReport \/ Lift \/ Lifted
    BY <2>1 DEF ReadReport, Lift, Lifted, Handled
  <2>2. CASE Frame
    BY <2>2 DEF Frame
  <2>3. CASE ReaderDies \/ StoreCallback
    BY <2>3 DEF ReaderDies, StoreCallback
  <2>4. CASE Dead \/ UNCHANGED tvars
    BY <2>4 DEF Dead, tvars
  <2>5. QED
    BY <2>1, <2>2, <2>3, <2>4
<1>2. ~Listing /\ SlotsHeld /\ thread # "lifting"
  BY <1>1 DEF NothingLeft, Listing, Driven, InSlots
<1>3. told' = told /\ touch' = touch /\ view' = view /\ (~AllStored' => ~AllStored)
  <2>1. CASE ReadReport
    BY <2>1, ReportEffect DEF ReadReport, Driven, Keeps, frameVars, Handled, AllStored
  <2>2. CASE Frame
    BY <1>1, <1>2, <2>2 DEF Frame, ChangeReport, Listing, AllStored
  <2>3. CASE StoreCallback
    BY <2>3 DEF StoreCallback, frameVars
  <2>4. CASE ReaderDies \/ Dead \/ UNCHANGED tvars
    BY <2>4 DEF ReaderDies, Dead, tvars, frameVars, AllStored
  <2>5. CASE Lift \/ Lifted
    BY <1>2, <2>5 DEF Lift, Lifted, Lifting
  <2>6. QED
    BY <2>1, <2>2, <2>3, <2>4, <2>5
<1>4. QED
  BY <1>1, <1>2, <1>3 DEF SlotsHeld, Down, cur

LEMMA HeldInit == TInit => NothingLeft
<1> SUFFICES ASSUME TInit PROVE SlotsHeld
  BY DEF NothingLeft
<1>1. /\ \A c \in Numbers : view.at[c] = Series!Nowhere
      /\ touch.sendKey = FALSE
  BY DEF TInit, Series!NothingSeen
<1>2. QED
  BY <1>1 DEF SlotsHeld, Down

LEMMA HeldStep == ASSUME Driven, NothingLeft, [TNext]_tvars PROVE NothingLeft'
<1>1. ASSUME NEW s \in Slots, ReadSlot(s) \/ ReadTrackingId(s) \/ ReadPosition(s)
      PROVE  NothingLeft'
  BY <1>1, HeldFlushes, HeldId, HeldPosition
<1>2. ASSUME NEW s \in Slots, ReadMtReport(s) PROVE NothingLeft'
  <2>1. Listing /\ driver' = driver
    BY <1>2 DEF Driven, InSlots, ReadMtReport, AtMtReport, AtFields, Foremost, Handled
  <2>2. QED
    BY <2>1 DEF NothingLeft, Listing
<1>3. CASE ReadMore \/ EndFrame
  BY <1>3, HeldMore, HeldFlushes
<1>4. CASE Frame \/ ReadReport \/ Lift \/ Lifted \/ ReaderDies \/ StoreCallback \/ Dead \/ UNCHANGED tvars
  BY <1>4, HeldRest
<1>5. QED
  BY <1>1, <1>2, <1>3, <1>4 DEF TNext, ReadsOn

-----------------------------------------------------------------------------
(* Protocol A: the frontend has the contacts listed so far, and of those     *)
(* behind them only what the list before had.                                *)

ListTold ==
  /\ driver = "A" => /\ \A c \in Numbers : touch.contacts[c].id = NoId
                     /\ \A s \in unread : told[s].id = screen[s].id
  /\ touch.sendKey => touch.key = 1
  /\ \A s \in unread : told[s].pos # NoPlace =>
       /\ touch.sendAbs = TRUE /\ touch.contacts[cur].pos = screen[s].pos
       /\ \A r \in unread : s <= r
  /\ \A s \in unread : driver = "AId" /\ told[s].id # NoId =>
       /\ touch.sendKey = TRUE
       /\ \A r \in unread : s <= r
  /\ thread # "reading" \/ unread = {} =>
       thread = "dead" \/ (touch.sendKey = FALSE /\ touch.sendAbs = FALSE)

SeenReading ==
  /\ cur = Cardinality(Listed)
  /\ \A s \in Listed : view.at[Number(s)] = screen[s].pos /\ Number(s) < cur
  /\ \A c \in Numbers : Down(c) => (\E s \in Listed : Number(s) = c) \/ (cur <= c /\ c < touch.lastMtReports)
  /\ more.mtReport => touch.lastMtReports >= 1

SeenLifting ==
  /\ cur <= lift
  /\ \A s \in TouchedSlots : view.at[Number(s)] = screen[s].pos /\ Number(s) < cur
  /\ \A c \in Numbers : Down(c) => (\E s \in TouchedSlots : Number(s) = c) \/ (lift <= c /\ c < touch.lastMtReports)

SeenWhole ==
  /\ \A s \in TouchedSlots : view.at[Number(s)] = screen[s].pos /\ Number(s) < touch.lastMtReports
  /\ \A c \in Numbers : Down(c) => \E s \in TouchedSlots : Number(s) = c

ListSeen ==
  /\ thread = "reading" => SeenReading
  /\ thread = "lifting" => SeenLifting
  /\ thread \in {"polling", "locking"} => SeenWhole

ListAgrees == Listing /\ ~early => ListTold /\ ListSeen

\* The numbers of the contacts on the list.
LEMMA NumbersListed ==
  /\ Listing => \A s \in Slots : Number(s) \in Nat
  /\ IsFiniteSet(Listed) /\ Cardinality(Listed) \in Nat
<1>1. IsFiniteSet(Slots)
  BY FS_Interval, MaxSlotAssumption DEF Slots
<1>2. ASSUME NEW s \in Slots, Listing PROVE Number(s) \in Nat
  <2>1. IsFiniteSet({r \in TouchedSlots : r < s})
    BY <1>1, FS_Subset DEF TouchedSlots
  <2>2. QED
    BY <1>2, <2>1, FS_CardinalityType DEF Number
<1>3. IsFiniteSet(Listed) /\ Cardinality(Listed) \in Nat
  BY <1>1, FS_Subset, FS_CardinalityType DEF Listed, TouchedSlots
<1>4. QED
  BY <1>2, <1>3

LEMMA NumberOfNext ==
  ASSUME Driven, Listing, NEW s \in unread, \A r \in unread : s <= r
  PROVE  /\ Number(s) = Cardinality(Listed) /\ s \notin Listed
         /\ Cardinality(Listed \cup {s}) = Cardinality(Listed) + 1
<1>1. \A r \in Listed : r < s
  BY DEF Driven, InList
<1>2. unread \subseteq Slots /\ Slots \subseteq Nat
  BY SlotsAndNumbers DEF Driven, TTypeOK
<1>3. {r \in TouchedSlots : r < s} = Listed
  <2>1. ASSUME NEW r \in TouchedSlots, r < s PROVE r \in Listed
    <3>1. r \in Nat /\ s \in Nat
      BY <1>2 DEF TouchedSlots
    <3>2. r \notin unread
      BY <2>1, <3>1
    <3>3. QED
      BY <3>2 DEF Listed
  <2>2. Listed \subseteq TouchedSlots
    BY DEF Listed
  <2>3. QED
    BY <1>1, <2>1, <2>2
<1>4. Number(s) = Cardinality(Listed)
  BY <1>3 DEF Number
<1>5. s \notin Listed
  BY DEF Listed
<1>6. QED
  BY <1>4, <1>5, NumbersListed, FS_AddElement

\* What the steps of the reader have in common when no event came too early.
LEMMA ListStored ==
  ASSUME Driven, ListAgrees, Listing', ~early',
         driver' = driver, early' = (early \/ ~AllStored)
  PROVE  Listing /\ stored = 3 /\ ListTold /\ ListSeen
  BY DEF ListAgrees, AllStored, Listing

LEMMA ListFrame == ASSUME Driven, Driven', ListAgrees, Frame PROVE ListAgrees'
<1> SUFFICES ASSUME Listing', ~early' PROVE ListTold' /\ ListSeen'
  BY DEF ListAgrees
<1>1. /\ Listing /\ ~early /\ thread = "polling" /\ thread' = "reading" /\ TTypeOK
      /\ driver' = driver /\ touch' = touch /\ view' = view /\ cur' = cur
      /\ screen' # screen /\ screen' \in [Slots -> Contact]
      /\ \A s \in Slots : ~Touched(screen'[s]) => screen'[s].pos = screen[s].pos
      /\ unread' = {s \in Slots : Touched(screen'[s])}
      /\ told' = [s \in Slots |->
                   IF s \in unread' THEN [id |-> IF driver = "AId" THEN NoId ELSE screen'[s].id, pos |-> NoPlace]
                                    ELSE screen'[s]]
      /\ more' = [NoMore EXCEPT !.mtReport = (unread' = {})]
  BY DEF Frame, ListReport, Listing, cur, Driven
<1>2. ListTold /\ SeenWhole /\ cur = 0
  BY <1>1 DEF ListAgrees, ListSeen, Driven, InList
<1>3. /\ \A s \in unread' : told'[s].pos = NoPlace
      /\ driver = "AId" => \A s \in unread' : told'[s].id = NoId
      /\ driver = "A" => \A s \in unread' : told'[s].id = screen'[s].id
  BY <1>1
<1>4. touch.sendKey = FALSE /\ touch.sendAbs = FALSE
  BY <1>1, <1>2 DEF ListTold
<1>5. ListTold'
  BY <1>1, <1>2, <1>3, <1>4 DEF ListTold
<1>6. SeenReading'
  <2>1. Listed' = {} /\ Cardinality({}) = 0
    BY <1>1, FS_EmptySet DEF Listed, TouchedSlots
  <2>2. \A c \in Numbers : Down(c) => c < touch.lastMtReports
    BY <1>2 DEF SeenWhole
  <2>3. Numbers \subseteq Nat /\ \A c \in Numbers : 0 <= c
    BY SlotsAndNumbers
  <2>4. unread' = {} => touch.lastMtReports >= 1
    <3>1. SUFFICES ASSUME unread' = {} PROVE touch.lastMtReports >= 1
      OBVIOUS
    <3>2. PICK s \in Slots : screen'[s] # screen[s]
      BY <1>1 DEF TTypeOK
    <3>3. s \in TouchedSlots
      BY <1>1, <3>1, <3>2 DEF TTypeOK, TouchedSlots, Touched, Contact
    <3>4. Number(s) \in Nat /\ Number(s) < touch.lastMtReports /\ touch.lastMtReports \in Nat
      BY <1>1, <1>2, <3>3, NumbersListed, SlotsAndNumbers, NowIsWork DEF SeenWhole, TouchedSlots, DeviceFields
    <3>5. QED
      BY <3>4
  <2>5. more'.mtReport = (unread' = {})
    <3>1. (unread' = {}) \in BOOLEAN
      OBVIOUS
    <3>2. QED
      BY <1>1, <3>1 DEF NoMore
  <2>6. QED
    BY <1>1, <1>2, <2>1, <2>2, <2>3, <2>4, <2>5 DEF SeenReading, Down
<1>7. QED
  BY <1>1, <1>5, <1>6 DEF ListSeen

LEMMA ListId == ASSUME Driven, ListAgrees, NEW s \in Slots, ReadTrackingId(s) PROVE ListAgrees'
<1> SUFFICES ASSUME Listing', ~early' PROVE ListTold' /\ ListSeen'
  BY DEF ListAgrees
<1>1. /\ TTypeOK /\ thread = "reading" /\ thread' = "reading" /\ told[s].id # screen[s].id
      /\ s \in unread /\ \A r \in unread : s <= r
      /\ driver' = driver /\ screen' = screen /\ more' = more
      /\ (Listing => unread' = unread)
      /\ told' = [told EXCEPT ![s] = [told[s] EXCEPT !.id = screen[s].id]]
  BY DEF Driven, ReadTrackingId, Handled, AtId, AtFields, AtSlot, Foremost, Read
<1>2. Listing /\ stored = 3 /\ ListTold /\ ListSeen
  BY ListStored DEF ReadTrackingId, Handled
<1>3. driver = "AId" /\ Touched(screen[s])
  BY <1>1, <1>2 DEF ListTold, Listing, Driven, InList
<1>4. /\ view' = view /\ touch'.key = 1 /\ touch'.sendKey = TRUE /\ touch'.sendAbs = touch.sendAbs
      /\ \A d \in Numbers : touch'.contacts[d].pos = touch.contacts[d].pos
      /\ touch'.currentSlot = touch.currentSlot /\ touch'.lastMtReports = touch.lastMtReports
  BY <1>1, <1>3, IdEffect DEF Keeps
<1>5. /\ \A d \in Slots : told'[d].pos = told[d].pos
      /\ \A d \in Slots \ {s} : told'[d] = told[d]
  BY <1>1 DEF TTypeOK
<1>6. cur' = cur /\ cur \in Numbers /\ unread \subseteq Slots
  BY <1>1, <1>4, NowIsWork DEF cur, DeviceFields, TTypeOK
<1>7. ListTold'
  BY <1>1, <1>2, <1>3, <1>4, <1>5, <1>6 DEF ListTold
<1>8. SeenReading'
  <2>1. Listed' = Listed /\ \A d : Number(d)' = Number(d)
    BY <1>1, <1>2, ScreenKept DEF Listed
  <2>2. QED
    BY <1>1, <1>2, <1>4, <1>6, <2>1 DEF ListSeen, SeenReading, Down
<1>9. QED
  BY <1>1, <1>7, <1>8 DEF ListSeen

LEMMA ListPosition == ASSUME Driven, ListAgrees, NEW s \in Slots, ReadPosition(s) PROVE ListAgrees'
<1> SUFFICES ASSUME Listing', ~early' PROVE ListTold' /\ ListSeen'
  BY DEF ListAgrees
<1>1. /\ TTypeOK /\ thread = "reading" /\ thread' = "reading" /\ told[s].id = screen[s].id
      /\ s \in unread /\ \A r \in unread : s <= r
      /\ driver' = driver /\ screen' = screen /\ more' = more
      /\ (Listing => unread' = unread)
      /\ told' = [told EXCEPT ![s] = screen[s]] /\ screen[s].pos \in Places
      /\ touch' = OnPosition(Now, screen[s].pos).t /\ view' = OnPosition(Now, screen[s].pos).v
  BY DEF Driven, TTypeOK, Contact, ReadPosition, Handled, AtPosition, AtId, AtFields, AtSlot, Foremost, Read
<1>2. Listing /\ stored = 3 /\ ListTold /\ ListSeen
  BY ListStored DEF ReadPosition, Handled
<1>4. /\ view' = view /\ touch'.key = touch.key /\ touch'.sendKey = touch.sendKey /\ touch'.sendAbs = TRUE
      /\ touch'.contacts[touch.currentSlot].pos = screen[s].pos
      /\ \A d \in Numbers : touch'.contacts[d].id = touch.contacts[d].id
      /\ touch'.currentSlot = touch.currentSlot /\ touch'.lastMtReports = touch.lastMtReports
  BY <1>1, PositionEffect DEF Keeps
<1>5. /\ told'[s] = screen[s] /\ told'[s].id = told[s].id
      /\ \A d \in Slots \ {s} : told'[d] = told[d]
  BY <1>1 DEF TTypeOK
<1>6. cur' = cur /\ cur \in Numbers /\ unread \subseteq Slots /\ Slots \subseteq Nat
  BY <1>1, <1>4, NowIsWork, SlotsAndNumbers DEF cur, DeviceFields, TTypeOK
<1>7. ListTold'
  <2>1. \A d \in unread : told'[d].pos # NoPlace => d = s
    BY <1>1, <1>2, <1>5, <1>6 DEF ListTold
  <2>2. touch'.contacts[cur'].pos = screen[s].pos
    BY <1>4, <1>6 DEF cur
  <2>3. \A d \in unread : told'[d].id = told[d].id
    BY <1>5, <1>6
  <2>4. driver = "A" => /\ \A c \in Numbers : touch'.contacts[c].id = NoId
                        /\ \A d \in unread : told'[d].id = screen[d].id
    BY <1>2, <1>4, <2>3 DEF ListTold
  <2>5. \A d \in unread : driver = "AId" /\ told'[d].id # NoId =>
          touch.sendKey = TRUE /\ \A r \in unread : d <= r
    BY <1>2, <2>3 DEF ListTold
  <2>6. \A d \in unread : told'[d].pos # NoPlace =>
          touch'.contacts[cur'].pos = screen[d].pos /\ \A r \in unread : d <= r
    BY <1>1, <2>1, <2>2
  <2>7. touch.sendKey => touch.key = 1
    BY <1>2 DEF ListTold
  <2>8. /\ unread' = unread /\ unread # {} /\ driver' = driver /\ screen' = screen /\ thread' = "reading"
        /\ touch'.sendAbs = TRUE /\ touch'.sendKey = touch.sendKey
    BY <1>1, <1>2, <1>4
  <2>9. touch'.sendKey => touch'.key = 1
    BY <1>4, <2>7
  <2>10. QED
    BY <2>4, <2>5, <2>6, <2>8, <2>9 DEF ListTold
<1>8. SeenReading'
  <2>1. Listed' = Listed /\ \A d : Number(d)' = Number(d)
    BY <1>1, <1>2, ScreenKept DEF Listed
  <2>2. QED
    BY <1>1, <1>2, <1>4, <1>6, <2>1 DEF ListSeen, SeenReading, Down
<1>9. QED
  BY <1>1, <1>7, <1>8 DEF ListSeen

\* The end of a contact on the list: it is the next one the frontend gets.
LEMMA ListMtReport == ASSUME Driven, ListAgrees, NEW s \in Slots, ReadMtReport(s) PROVE ListAgrees'
<1> SUFFICES ASSUME Listing', ~early' PROVE ListTold' /\ ListSeen'
  BY DEF ListAgrees
<1>1. /\ TTypeOK /\ thread = "reading" /\ thread' = "reading" /\ told[s] = screen[s]
      /\ s \in unread /\ \A r \in unread : s <= r
      /\ driver' = driver /\ screen' = screen /\ more' = more /\ told' = told
      /\ unread' = unread \ {s}
      /\ touch' = OnMtReport(Now).t /\ view' = OnMtReport(Now).v
  BY DEF Driven, ReadMtReport, Handled, AtMtReport, AtFields, Foremost
<1>2. Listing /\ stored = 3 /\ ListTold /\ ListSeen
  BY ListStored DEF ReadMtReport, Handled
<1>3. /\ SeenReading /\ Touched(screen[s]) /\ told[s].pos # NoPlace /\ (driver = "AId" => told[s].id # NoId)
      /\ touch.sendAbs = TRUE /\ touch.contacts[cur].pos = screen[s].pos
      /\ cur <= s /\ unread \subseteq Slots /\ Slots \subseteq Nat /\ screen[s].pos \in Places
  <2>1. SeenReading /\ Touched(screen[s]) /\ cur <= s
    BY <1>1, <1>2 DEF ListSeen, Driven, InList
  <2>2. told[s].pos # NoPlace /\ told[s].id # NoId /\ screen[s].pos \in Places
    BY <1>1, <2>1, PlacesAssumption DEF TTypeOK, Contact, NoPlace, Touched
  <2>3. QED
    BY <1>1, <1>2, <2>1, <2>2, SlotsAndNumbers DEF ListTold, TTypeOK
<1>4. cur \in Nat /\ cur + 1 \in Numbers /\ cur \in Numbers
  <2>1. cur \in Numbers
    BY <1>1, NowIsWork DEF cur, DeviceFields
  <2>2. QED
    BY <1>3, <2>1, MaxSlotAssumption DEF Numbers, Slots
<1>5. /\ touch.contacts[cur].id = NoId => Flushes(cur, TRUE, 1)
      /\ touch.contacts[cur].id # NoId => Flushes(cur, touch.sendKey, touch.key)
      /\ touch'.currentSlot = cur + 1 /\ touch'.lastMtReports = touch.lastMtReports
  <2>1. LET c == touch.currentSlot IN
         /\ touch.contacts[c].id = NoId => Flushes(c, TRUE, 1)
         /\ touch.contacts[c].id # NoId => Flushes(c, touch.sendKey, touch.key)
         /\ touch'.currentSlot = IF touch.sendAbs THEN c + 1 ELSE c
         /\ touch'.mtReport = TRUE /\ touch'.lastMtReports = touch.lastMtReports
    BY <1>1, <1>4, MtReportEffect DEF cur
  <2>2. QED
    BY <1>3, <2>1 DEF cur
<1>6. Flushes(cur, TRUE, 1)
  <2>1. CASE touch.contacts[cur].id = NoId
    BY <1>5, <2>1
  <2>2. CASE touch.contacts[cur].id # NoId
    <3>1. driver = "AId"
      BY <1>2, <1>4, <2>2 DEF ListTold, Listing
    <3>2. touch.sendKey = TRUE /\ touch.key = 1
      BY <1>1, <1>2, <1>3, <3>1 DEF ListTold
    <3>3. QED
      BY <1>5, <2>2, <3>2
  <2>3. QED
    BY <2>1, <2>2
<1>7. /\ touch'.sendKey = FALSE /\ touch'.sendAbs = FALSE /\ view'.at[cur] = screen[s].pos
      /\ \A d \in Numbers \ {cur} : view'.at[d] = view.at[d]
      /\ \A d \in Numbers : touch'.contacts[d].id \in {touch.contacts[d].id, NoId}
  BY <1>2, <1>3, <1>6 DEF Flushes
<1>8. cur' = cur + 1
  BY <1>5 DEF cur
<1>9. ListTold'
  <2>1. \A r \in unread \ {s} : told[r].pos = NoPlace /\ (driver = "AId" => told[r].id = NoId)
    <3>1. ASSUME NEW r \in unread \ {s}
          PROVE  told[r].pos = NoPlace /\ (driver = "AId" => told[r].id = NoId)
      <4>1. s \in Nat /\ r \in Nat /\ ~(r <= s)
        BY <1>1, <1>3
      <4>2. \A q \in unread : told[q].pos # NoPlace => q <= s
        BY <1>1, <1>2 DEF ListTold
      <4>3. \A q \in unread : driver = "AId" /\ told[q].id # NoId => q <= s
        BY <1>1, <1>2 DEF ListTold
      <4>4. QED
        BY <4>1, <4>2, <4>3
    <3>2. QED
      BY <3>1
  <2>2. driver = "A" => \A c \in Numbers : touch'.contacts[c].id = NoId
    BY <1>2, <1>7 DEF ListTold
  <2>3. QED
    BY <1>1, <1>2, <1>7, <2>1, <2>2 DEF ListTold
<1>10. SeenReading'
  <2>1. /\ Number(s) = Cardinality(Listed) /\ s \notin Listed
        /\ Cardinality(Listed \cup {s}) = Cardinality(Listed) + 1
    BY <1>1, <1>2, NumberOfNext
  <2>2. Listed' = Listed \cup {s} /\ \A d : Number(d)' = Number(d)
    BY <1>1, <1>3, ScreenKept DEF Listed, TouchedSlots
  <2>3. cur = Cardinality(Listed) /\ Number(s) = cur
    BY <1>3, <2>1 DEF SeenReading
  <2>4. \A r \in Listed : Number(r) \in Numbers /\ Number(r) # cur /\ Number(r) < cur + 1
    <3>1. ASSUME NEW r \in Listed PROVE Number(r) \in Numbers /\ Number(r) # cur /\ Number(r) < cur + 1
      <4>1. Number(r) \in Nat
        BY <1>2, NumbersListed DEF Listed, TouchedSlots
      <4>2. Number(r) < cur
        BY <1>3 DEF SeenReading
      <4>3. QED
        BY <1>4, <4>1, <4>2, MaxSlotAssumption DEF Numbers
    <3>2. QED
      BY <3>1
  <2>5. \A r \in Listed \cup {s} : view'.at[Number(r)] = screen[r].pos /\ Number(r) < cur + 1
    <3>1. \A r \in Listed : view.at[Number(r)] = screen[r].pos
      BY <1>3 DEF SeenReading
    <3>2. \A r \in Listed : view'.at[Number(r)] = screen[r].pos /\ Number(r) < cur + 1
      BY <1>7, <2>4, <3>1
    <3>3. view'.at[Number(s)] = screen[s].pos /\ Number(s) < cur + 1
      BY <1>4, <1>7, <2>3
    <3>4. QED
      BY <3>2, <3>3
  <2>6. ASSUME NEW c \in Numbers, view'.at[c] # Series!Nowhere
        PROVE  (\E r \in Listed \cup {s} : Number(r) = c) \/ (cur + 1 <= c /\ c < touch.lastMtReports)
    <3>1. CASE c = cur
      BY <2>3, <3>1
    <3>2. CASE c # cur
      <4>1. view.at[c] # Series!Nowhere /\ c \in Nat
        BY <1>7, <2>6, <3>2, SlotsAndNumbers
      <4>2. (\E r \in Listed : Number(r) = c) \/ (cur <= c /\ c < touch.lastMtReports)
        BY <1>3, <4>1 DEF SeenReading, Down
      <4>3. QED
        BY <1>4, <3>2, <4>1, <4>2
    <3>3. QED
      BY <3>1, <3>2
  <2>7. QED
    BY <1>1, <1>3, <1>5, <1>8, <2>1, <2>2, <2>3, <2>5, <2>6 DEF SeenReading, Down
<1>11. QED
  BY <1>1, <1>9, <1>10 DEF ListSeen

\* A report of no contact may put contact 0 down, which the report lifts.
LEMMA ListMore == ASSUME Driven, ListAgrees, ReadMore PROVE ListAgrees'
<1> SUFFICES ASSUME Listing', ~early' PROVE ListTold' /\ ListSeen'
  BY DEF ListAgrees
<1>1. /\ TTypeOK /\ thread = "reading" /\ thread' = "reading" /\ unread = {} /\ unread' = unread
      /\ driver' = driver /\ screen' = screen /\ told' = told
  BY DEF Driven, ReadMore, Handled, AtMore
<1>2. Listing /\ stored = 3 /\ ListTold /\ ListSeen
  BY ListStored DEF ReadMore, Handled
<1>3. /\ more.mtReport /\ more' = [more EXCEPT !.mtReport = FALSE]
      /\ touch' = OnMtReport(Now).t /\ view' = OnMtReport(Now).v
  BY <1>2, Zenon DEF ReadMore, Handled, Driven, InList
<1>4. /\ SeenReading /\ TouchedSlots = {} /\ cur = 0 /\ touch.sendKey = FALSE /\ touch.sendAbs = FALSE
      /\ touch.lastMtReports >= 1
  BY <1>1, <1>2, <1>3 DEF ListSeen, ListTold, SeenReading, Driven, InList
<1>5. /\ Flushes(0, TRUE, 1) \/ Flushes(0, FALSE, touch.key)
      /\ touch'.currentSlot = 0 /\ touch'.lastMtReports = touch.lastMtReports
  <2>1. LET c == touch.currentSlot IN
         /\ touch.contacts[c].id = NoId => Flushes(c, TRUE, 1)
         /\ touch.contacts[c].id # NoId => Flushes(c, touch.sendKey, touch.key)
         /\ touch'.currentSlot = IF touch.sendAbs THEN c + 1 ELSE c
         /\ touch'.mtReport = TRUE /\ touch'.lastMtReports = touch.lastMtReports
    BY <1>1, <1>3, <1>4, MtReportEffect
  <2>2. QED
    BY <1>4, <2>1 DEF cur
<1>6. /\ touch'.sendKey = FALSE /\ touch'.sendAbs = FALSE
      /\ \A d \in Numbers \ {0} : view'.at[d] = view.at[d]
      /\ \A d \in Numbers : touch'.contacts[d].id \in {touch.contacts[d].id, NoId}
  BY <1>2, <1>5 DEF Flushes
<1>7. ListTold'
  BY <1>1, <1>2, <1>6 DEF ListTold
<1>8. SeenReading'
  <2>1. Listed = {} /\ Listed' = {} /\ cur' = 0 /\ Cardinality({}) = 0
    BY <1>1, <1>4, <1>5, ScreenKept, FS_EmptySet DEF Listed, cur
  <2>2. more'.mtReport = FALSE
    BY <1>1, <1>3 DEF TTypeOK
  <2>3. ASSUME NEW c \in Numbers, Down(c)' PROVE 0 <= c /\ c < touch.lastMtReports
    <3>1. c \in Nat /\ touch.lastMtReports \in Nat
      BY <1>1, SlotsAndNumbers, NowIsWork DEF DeviceFields
    <3>2. c # 0 => Down(c)
      BY <1>6, <2>3 DEF Down
    <3>3. c # 0 => c < touch.lastMtReports
      BY <1>4, <2>1, <3>2 DEF SeenReading
    <3>4. QED
      BY <1>4, <3>1, <3>3
  <2>4. QED
    BY <1>5, <2>1, <2>2, <2>3 DEF SeenReading
<1>9. QED
  BY <1>1, <1>7, <1>8 DEF ListSeen

LEMMA ListReported == ASSUME Driven, ListAgrees, ReadReport PROVE ListAgrees'
<1> SUFFICES ASSUME Listing', ~early' PROVE ListTold' /\ ListSeen'
  BY DEF ListAgrees
<1>1. /\ TTypeOK /\ thread = "reading" /\ unread = {} /\ AtReport /\ unread' = unread
      /\ driver' = driver /\ screen' = screen /\ told' = told
  BY DEF Driven, ReadReport, Handled, AtReport, frameVars
<1>2. Listing /\ stored = 3 /\ ListTold /\ ListSeen
  BY ListStored DEF ReadReport, Handled
<1>3. touch' = touch /\ view' = view /\ touch.mtReport = TRUE
  BY <1>1, <1>2, ReportEffect DEF Keeps, Driven, InList
<1>4. thread' = "lifting" /\ lift' = cur /\ cur' = cur /\ cur \in Nat
  BY <1>1, <1>3, NowIsWork, SlotsAndNumbers DEF ReadReport, cur, DeviceFields
<1>5. ListTold'
  BY <1>1, <1>2, <1>3, <1>4 DEF ListTold
<1>6. SeenLifting'
  <2>1. Listed = TouchedSlots /\ TouchedSlots' = TouchedSlots /\ \A d : Number(d)' = Number(d)
    BY <1>1, ScreenKept DEF Listed
  <2>2. SeenReading
    BY <1>1, <1>2 DEF ListSeen
  <2>3. QED
    BY <1>1, <1>3, <1>4, <2>1, <2>2 DEF SeenReading, SeenLifting, Down
<1>7. QED
  BY <1>4, <1>5, <1>6 DEF ListSeen

LEMMA ListLift == ASSUME Driven, ListAgrees, Lift PROVE ListAgrees'
<1> SUFFICES ASSUME Listing', ~early' PROVE ListTold' /\ ListSeen'
  BY DEF ListAgrees
<1>1. /\ TTypeOK /\ thread = "lifting" /\ thread' = thread /\ lift < touch.lastMtReports /\ lift' = lift + 1
      /\ unread' = unread /\ unread = {} /\ driver' = driver /\ screen' = screen /\ told' = told
  BY DEF Driven, Known, Lift, Lifting, Handled, frameVars
<1>2. Listing /\ stored = 3 /\ ListTold /\ ListSeen
  BY ListStored DEF Lift, Handled
<1>3. Flushes(lift, TRUE, 0) /\ touch'.currentSlot = lift /\ touch'.lastMtReports = touch.lastMtReports
  BY <1>1, LiftEffect
<1>4. /\ touch'.sendKey = FALSE /\ touch'.sendAbs = FALSE /\ view'.at[lift] = Series!Nowhere
      /\ \A d \in Numbers \ {lift} : view'.at[d] = view.at[d]
      /\ \A d \in Numbers : touch'.contacts[d].id \in {touch.contacts[d].id, NoId}
  BY <1>2, <1>3 DEF Flushes
<1>5. lift \in Numbers /\ lift \in Nat /\ cur' = lift /\ cur \in Nat
  BY <1>1, <1>3, SlotsAndNumbers, NowIsWork DEF TTypeOK, cur, DeviceFields
<1>6. ListTold'
  BY <1>1, <1>2, <1>4 DEF ListTold
<1>7. SeenLifting'
  <2>1. TouchedSlots' = TouchedSlots /\ \A d : Number(d)' = Number(d)
    BY <1>1, ScreenKept
  <2>2. SeenLifting
    BY <1>1, <1>2 DEF ListSeen
  <2>3. \A s \in TouchedSlots : Number(s) \in Numbers /\ Number(s) # lift /\ Number(s) < lift
    <3>1. ASSUME NEW s \in TouchedSlots PROVE Number(s) \in Numbers /\ Number(s) # lift /\ Number(s) < lift
      <4>1. Number(s) \in Nat
        BY <1>2, NumbersListed DEF TouchedSlots
      <4>2. Number(s) < cur /\ cur <= lift
        BY <2>2 DEF SeenLifting
      <4>3. QED
        BY <1>5, <4>1, <4>2, MaxSlotAssumption DEF Numbers
    <3>2. QED
      BY <3>1
  <2>4. \A s \in TouchedSlots : view'.at[Number(s)] = screen[s].pos /\ Number(s) < lift
    BY <1>4, <2>2, <2>3 DEF SeenLifting
  <2>5. ASSUME NEW c \in Numbers, view'.at[c] # Series!Nowhere
        PROVE  (\E s \in TouchedSlots : Number(s) = c) \/ (lift + 1 <= c /\ c < touch.lastMtReports)
    <3>1. c # lift /\ view.at[c] # Series!Nowhere /\ c \in Nat
      BY <1>4, <2>5, SlotsAndNumbers
    <3>2. (\E s \in TouchedSlots : Number(s) = c) \/ (lift <= c /\ c < touch.lastMtReports)
      BY <2>2, <3>1 DEF SeenLifting, Down
    <3>3. QED
      BY <1>5, <3>1, <3>2
  <2>6. QED
    BY <1>1, <1>3, <1>5, <2>1, <2>4, <2>5 DEF SeenLifting, Down
<1>8. QED
  BY <1>1, <1>6, <1>7 DEF ListSeen

LEMMA ListLifted == ASSUME Driven, ListAgrees, Lifted PROVE ListAgrees'
<1> SUFFICES ASSUME Listing', ~early' PROVE ListTold' /\ ListSeen'
  BY DEF ListAgrees
<1>1. /\ TTypeOK /\ thread = "lifting" /\ thread' = "locking" /\ ~(lift < touch.lastMtReports)
      /\ unread' = unread /\ unread = {} /\ driver' = driver /\ screen' = screen /\ told' = told
  BY DEF Driven, Known, Lifted, Lifting, Handled, frameVars
<1>2. Listing /\ stored = 3 /\ ListTold /\ ListSeen
  BY ListStored DEF Lifted, Handled
<1>3. /\ view' = view /\ touch'.sendKey = touch.sendKey /\ touch'.sendAbs = touch.sendAbs
      /\ touch'.key = touch.key /\ touch'.contacts = touch.contacts /\ touch'.lastMtReports = cur
  BY <1>1, LiftedEffect DEF Keeps, cur
<1>4. ListTold'
  BY <1>1, <1>2, <1>3 DEF ListTold
<1>5. SeenWhole'
  <2>1. TouchedSlots' = TouchedSlots /\ \A d : Number(d)' = Number(d)
    BY <1>1, ScreenKept
  <2>2. SeenLifting
    BY <1>1, <1>2 DEF ListSeen
  <2>3. lift \in Nat /\ touch.lastMtReports \in Nat /\ Numbers \subseteq Nat
    BY <1>1, NowIsWork, SlotsAndNumbers DEF TTypeOK, DeviceFields
  <2>4. \A c \in Numbers : ~(lift <= c /\ c < touch.lastMtReports)
    BY <1>1, <2>3
  <2>5. QED
    BY <1>1, <1>3, <2>1, <2>2, <2>4 DEF SeenLifting, SeenWhole, Down
<1>6. QED
  BY <1>1, <1>4, <1>5 DEF ListSeen

LEMMA ListEnd == ASSUME Driven, ListAgrees, EndFrame PROVE ListAgrees'
<1> SUFFICES ASSUME Listing', ~early' PROVE ListTold' /\ ListSeen'
  BY DEF ListAgrees
<1>1. /\ TTypeOK /\ thread = "locking" /\ thread' = "polling"
      /\ unread' = unread /\ unread = {} /\ driver' = driver /\ screen' = screen /\ told' = told
  BY DEF Driven, Known, EndFrame, Handled, frameVars
<1>2. Listing /\ stored = 3 /\ ListTold /\ ListSeen
  BY ListStored DEF EndFrame, Handled
<1>3. Flushes(touch.currentSlot, touch.sendKey, touch.key) /\ touch'.lastMtReports = touch.lastMtReports
  BY <1>1, EndEffect
<1>4. touch.sendKey = FALSE /\ touch.sendAbs = FALSE
  BY <1>1, <1>2 DEF ListTold
<1>5. /\ view' = view /\ touch'.sendKey = FALSE /\ touch'.sendAbs = FALSE
      /\ \A d \in Numbers : touch'.contacts[d].id \in {touch.contacts[d].id, NoId}
  BY <1>2, <1>3, <1>4 DEF Flushes
<1>6. ListTold'
  BY <1>1, <1>2, <1>5 DEF ListTold
<1>7. SeenWhole'
  <2>1. TouchedSlots' = TouchedSlots /\ \A d : Number(d)' = Number(d)
    BY <1>1, ScreenKept
  <2>2. SeenWhole
    BY <1>1, <1>2 DEF ListSeen
  <2>3. QED
    BY <1>1, <1>3, <1>5, <2>1, <2>2 DEF SeenWhole, Down
<1>8. QED
  BY <1>1, <1>6, <1>7 DEF ListSeen

LEMMA ListRest ==
  ASSUME Driven, ListAgrees, ReaderDies \/ StoreCallback \/ Dead \/ UNCHANGED tvars
  PROVE  ListAgrees'
<1> SUFFICES ASSUME Listing', ~early' PROVE ListTold' /\ ListSeen'
  BY DEF ListAgrees
<1>1. /\ driver' = driver /\ screen' = screen /\ told' = told /\ unread' = unread /\ more' = more
      /\ touch' = touch /\ view' = view /\ lift' = lift /\ early' = early
      /\ thread' = thread \/ thread' = "dead"
  BY DEF ReaderDies, StoreCallback, Dead, tvars, frameVars
<1>2. ListTold /\ ListSeen
  BY <1>1 DEF ListAgrees, Listing
<1>3. /\ TouchedSlots' = TouchedSlots /\ Listed' = Listed /\ cur' = cur /\ \A d : Number(d)' = Number(d)
  BY <1>1, ScreenKept DEF Listed, cur
<1>4. ListTold'
  BY <1>1, <1>2, <1>3 DEF ListTold
<1>5. ListSeen'
  <2>1. (SeenReading' <=> SeenReading) /\ (SeenLifting' <=> SeenLifting) /\ (SeenWhole' <=> SeenWhole)
    BY <1>1, <1>3 DEF SeenReading, SeenLifting, SeenWhole, Down
  <2>2. QED
    BY <1>1, <1>2, <2>1 DEF ListSeen
<1>6. QED
  BY <1>4, <1>5

LEMMA ListInit == TInit => ListAgrees
<1> SUFFICES ASSUME TInit PROVE ListTold /\ ListSeen
  BY DEF ListAgrees
<1>1. /\ \A c \in Numbers : view.at[c] = Series!Nowhere /\ touch.contacts[c].id = NoId
      /\ touch.sendKey = FALSE /\ touch.sendAbs = FALSE /\ unread = {} /\ thread = "polling"
      /\ TouchedSlots = {}
  BY DEF TInit, Series!NothingSeen, TouchedSlots, Touched, NoId
<1>2. QED
  BY <1>1 DEF ListTold, ListSeen, SeenWhole, Down

LEMMA ListStep == ASSUME Driven, ListAgrees, [TNext]_tvars PROVE ListAgrees'
<1>1. CASE Frame
  BY <1>1, ListFrame, DrivenFrame
<1>2. ASSUME NEW s \in Slots, ReadTrackingId(s) \/ ReadPosition(s) \/ ReadMtReport(s)
      PROVE  ListAgrees'
  BY <1>2, ListId, ListPosition, ListMtReport
<1>3. ASSUME NEW s \in Slots, ReadSlot(s) PROVE ListAgrees'
  BY <1>3 DEF ListAgrees, Listing, ReadSlot, AtSlot, Handled
<1>4. CASE ReadMore \/ ReadReport \/ Lift \/ Lifted \/ EndFrame
  BY <1>4, ListMore, ListReported, ListLift, ListLifted, ListEnd
<1>5. CASE ReaderDies \/ StoreCallback \/ Dead \/ UNCHANGED tvars
  BY <1>5, ListRest
<1>6. QED
  BY <1>1, <1>2, <1>3, <1>4, <1>5 DEF TNext, ReadsOn

-----------------------------------------------------------------------------
\* What holds of a touch screen in every state.
LEMMA Touching == TSpec => [](Driven /\ SlotsAgree /\ NothingLeft /\ ListAgrees)
<1>1. TInit => Driven /\ SlotsAgree /\ NothingLeft /\ ListAgrees
  BY DrivenInit, SlotsInit, HeldInit, ListInit
<1>2. (Driven /\ SlotsAgree /\ NothingLeft /\ ListAgrees) /\ [TNext]_tvars
        => (Driven /\ SlotsAgree /\ NothingLeft /\ ListAgrees)'
  BY DrivenStep, SlotsStep, HeldStep, ListStep
<1>3. QED
  BY <1>1, <1>2, PTL DEF TSpec

\* Between two frames the frontend has exactly the contacts that are on the
\* screen, under the numbers the device gave them, and where they are:
\* flushEvents(), the slots, the list of protocol A and the loop of SYN_REPORT
\* leave none behind and none out, in whatever order contacts come and go.
THEOREM TouchAgrees == TSpec => []ContactsAgree
<1>1. ASSUME Driven, SlotsAgree, ListAgrees PROVE ContactsAgree
  <2> SUFFICES ASSUME AtRest, ~early
               PROVE  /\ Series!DownIn(view) = {Number(s) : s \in TouchedSlots}
                      /\ driver # "BKey" => \A s \in TouchedSlots : view.at[Number(s)] = screen[s].pos
    BY <1>1 DEF ContactsAgree, Driven
  <2>1. thread = "polling" /\ unread = {} /\ \A s \in Slots : told[s] = screen[s]
    BY <1>1 DEF AtRest, Driven, Known
  <2>2. CASE Listing
    <3>1. SeenWhole
      BY <1>1, <2>1, <2>2 DEF ListAgrees, ListSeen
    <3>2. \A s \in TouchedSlots : Number(s) \in Numbers /\ Down(Number(s))
      <4>1. ASSUME NEW s \in TouchedSlots PROVE Number(s) \in Numbers /\ Down(Number(s))
        <5>1. s \in Slots /\ Number(s) \in Nat /\ screen[s].pos \in Places
          BY <1>1, <2>2, NumbersListed DEF TouchedSlots, Driven, TTypeOK, Contact
        <5>2. view.at[Number(s)] = screen[s].pos /\ Number(s) < touch.lastMtReports
          BY <3>1 DEF SeenWhole
        <5>3. touch.lastMtReports \in Numbers
          BY <1>1, NowIsWork DEF Driven, DeviceFields
        <5>4. QED
          BY <5>1, <5>2, <5>3, MaxSlotAssumption, PlacesAssumption DEF Numbers, Down, Series!Nowhere
      <4>2. QED
        BY <4>1
    <3>3. QED
      BY <3>1, <3>2 DEF SeenWhole, Down, Series!DownIn
  <2>3. CASE ~Listing
    <3>1. SlotsTold /\ (driver = "B" => SlotsPlaced) /\ touch.sendKey = FALSE /\ touch.sendAbs = FALSE
      BY <1>1, <2>1, <2>3 DEF SlotsAgree, SlotsTold
    <3>2. \A s \in Slots : Number(s) = s
      BY <2>3 DEF Number
    <3>3. \A c \in Slots : Down(c) <=> c \in TouchedSlots
      BY <2>1, <3>1 DEF SlotsTold, TouchedSlots
    <3>4. \A c \in Numbers : c \in Slots \/ c = MaxSlot + 1
      BY MaxSlotAssumption DEF Numbers, Slots
    <3>5. Series!DownIn(view) = TouchedSlots
      BY <3>1, <3>3, <3>4, SlotsAndNumbers DEF Series!DownIn, Down, SlotsTold, TouchedSlots
    <3>6. driver # "BKey" => driver = "B"
      BY <1>1, <2>3, DriversAssumption DEF Driven, TTypeOK, Listing
    <3>7. driver # "BKey" => \A s \in TouchedSlots : view.at[s] = screen[s].pos
      BY <2>1, <3>1, <3>6 DEF SlotsPlaced, Pending, TouchedSlots
    <3>8. {Number(s) : s \in TouchedSlots} = TouchedSlots
      BY <3>2 DEF TouchedSlots
    <3>9. QED
      BY <3>2, <3>5, <3>7, <3>8 DEF TouchedSlots
  <2>4. QED
    BY <2>2, <2>3
<1>2. QED
  BY <1>1, Touching, PTL

\* With protocol B every contact is a down, motions and an up, in this order.
THEOREM TouchInTurn == TSpec => []SeriesInTurn
<1>1. SlotsAgree => SeriesInTurn
  BY DEF SlotsAgree, SlotsPlaced, SeriesInTurn, Listing
<1>2. QED
  BY <1>1, Touching, PTL

\* With protocol B nothing stays down when the screen is clear, also of the
\* contacts that came while no callback was stored.
THEOREM TouchLeavesNothing == TSpec => []NoGhostInSlot
<1>1. Driven /\ NothingLeft => NoGhostInSlot
  <2> SUFFICES ASSUME Driven, NothingLeft, ~Listing, AtRest, TouchedSlots = {}, ~torn
               PROVE  Series!DownIn(view) = {}
    BY DEF NoGhostInSlot
  <2>1. \A s \in Slots : told[s] = screen[s] /\ ~Touched(screen[s])
    BY DEF Driven, Known, AtRest, TouchedSlots
  <2>2. QED
    BY <2>1 DEF NothingLeft, SlotsHeld, Down, Series!DownIn
<1>2. QED
  BY <1>1, Touching, PTL

=============================================================================
