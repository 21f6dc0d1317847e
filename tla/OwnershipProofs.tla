--------------------------- MODULE OwnershipProofs ---------------------------
(***************************************************************************)
(* Why Ownership's classes free what they take, once: for every table that  *)
(* is Sound, whatever its classes and whichever constructor throws.         *)
(***************************************************************************)
EXTENDS Ownership, TLAPS

\* What is held is named by a handle; a handle names something gone only on a
\* way down that does not come to it again.
HandlesMatch ==
  /\ held \subseteq handle
  /\ phase \in {"ctor", "ready", "back"} => handle = held
  /\ phase \in {"failed", "dtor"} =>
       \A r \in handle \ held : \A i \in DOMAIN Way : i >= pc => Way[i].res # r

\* A local that is still held will be dropped before anything throws.
LocalPending(r) ==
  \E j \in DOMAIN Way :
    /\ pc <= j /\ Way[j] = [do |-> "drop", res |-> r]
    /\ \A k \in pc..(j - 1) : ~Throws(Way[k])

\* Whatever is held will be given back, or is known to be left.
Accounted ==
  /\ phase = "ctor" => \A r \in held :
       \/ LocalPending(r)
       \/ /\ r \in Table[cls].lost \/ ReleasedBy(Table[cls].fail, r) \/ NothingThrows(Way, pc)
          /\ r \in Table[cls].leaks \/ ReleasedBy(Table[cls].dtor, r)
  /\ phase \in {"ready", "back"} => \A r \in held :
       r \in Table[cls].leaks \/ ReleasedBy(Table[cls].dtor, r)
  /\ phase = "failed" => \A r \in held \ Table[cls].lost :
       \E i \in DOMAIN Way : i >= pc /\ Releases(Way[i]) /\ Way[i].res = r
  /\ phase = "dtor" => \A r \in held \ Table[cls].leaks :
       \E i \in DOMAIN Way : i >= pc /\ Releases(Way[i]) /\ Way[i].res = r

IInv == TypeOK /\ NoDoubleFree /\ NothingKept /\ HandlesMatch /\ Accounted

-----------------------------------------------------------------------------
LEMMA ClassFacts ==
  ASSUME NEW n \in DOMAIN Table
  PROVE  /\ Table[n].ctor \in Seq(Step) /\ Table[n].fail \in Seq(Step)
         /\ Table[n].dtor \in Seq(Step) /\ Table[n].back \in Seq(Step)
         /\ Table[n].later \subseteq STRING
  BY TableAssumption DEF Class

LEMMA StepsFacts ==
  ASSUME NEW s \in Seq(Step)
  PROVE  /\ DOMAIN s = 1..Len(s) /\ Len(s) \in Nat
         /\ \A i \in DOMAIN s : s[i] \in Step /\ s[i].res \in STRING
  <1>1. \A x \in Step : x.res \in STRING
    BY DEF Step
  <1>2. \A i \in 1..Len(s) : s[i] \in Step
    OBVIOUS
  <1>3. DOMAIN s = 1..Len(s) /\ Len(s) \in Nat
    OBVIOUS
  <1>4. QED
    BY <1>1, <1>2, <1>3

LEMMA WayIsSteps ==
  ASSUME TypeOK
  PROVE  /\ Way \in Seq(Step)
         /\ DOMAIN Way = 1..Len(Way) /\ Len(Way) \in Nat
         /\ \A i \in DOMAIN Way : Way[i] \in Step /\ Way[i].res \in STRING
  <1>1. <<>> \in Seq(Step)
    OBVIOUS
  <1>2. Way \in Seq(Step)
    BY <1>1, ClassFacts DEF TypeOK, Way
  <1>3. QED
    BY <1>2, StepsFacts

LEMMA InitHolds == Init => IInv
  BY DEF Init, IInv, TypeOK, NoDoubleFree, NothingKept, HandlesMatch, Accounted

\* Where nothing throws any more, nothing will.
LEMMA NothingThrowsLater ==
  ASSUME TypeOK, pc' = pc + 1, Way' = Way, NothingThrows(Way, pc)
  PROVE  NothingThrows(Way, pc)'
  BY WayIsSteps DEF TypeOK, NothingThrows

-----------------------------------------------------------------------------
LEMMA ObtainKeeps ==
  ASSUME Sound(Table), IInv, Obtain
  PROVE  IInv'
  <1>1. /\ phase = "ctor" /\ phase' = "ctor" /\ pc \in DOMAIN Way /\ pc' = pc + 1
        /\ Acquires(Way[pc]) /\ cls' = cls /\ Way = Table[cls].ctor /\ Way' = Way
        /\ cls \in DOMAIN Table
    BY DEF Obtain, At, Advance, Acquires, Way, IInv, TypeOK
  <1>r. Res \in STRING
    BY <1>1, WayIsSteps DEF IInv, Res
  <1>2. TypeOK'
    BY <1>1, <1>r DEF IInv, TypeOK, Obtain
  <1>3. NoDoubleFree' /\ NothingKept'
    BY <1>1 DEF IInv, NoDoubleFree, NothingKept, Obtain
  <1>4. HandlesMatch'
    BY <1>1 DEF IInv, HandlesMatch, Obtain
  <1>5. ASSUME NEW r \in held'
        PROVE  \/ LocalPending(r)'
               \/ /\ \/ r \in Table[cls].lost \/ ReleasedBy(Table[cls].fail, r)
                     \/ NothingThrows(Way, pc)'
                  /\ r \in Table[cls].leaks \/ ReleasedBy(Table[cls].dtor, r)
    <2>1. CASE r = Res
      <3>1. \/ Local(Way, pc)
            \/ /\ \/ r \in Table[cls].lost \/ ReleasedBy(Table[cls].fail, r)
                  \/ NothingThrows(Way, pc + 1)
               /\ r \in Table[cls].leaks \/ ReleasedBy(Table[cls].dtor, r)
        BY <1>1, <2>1 DEF Sound, Covered, Res
      <3>2. Local(Way, pc) => LocalPending(r)'
        BY <1>1, <2>1, WayIsSteps DEF Local, LocalPending, Res, IInv, TypeOK
      <3>3. NothingThrows(Way, pc + 1) => NothingThrows(Way, pc)'
        BY <1>1 DEF NothingThrows
      <3>4. QED
        BY <3>1, <3>2, <3>3
    <2>2. CASE r # Res
      <3>1. r \in held
        BY <2>2 DEF Obtain
      <3>2. LocalPending(r) => LocalPending(r)'
        <4>1. SUFFICES ASSUME NEW j \in DOMAIN Way, pc <= j,
                              Way[j] = [do |-> "drop", res |-> r],
                              \A k \in pc..(j - 1) : ~Throws(Way[k])
                       PROVE  LocalPending(r)'
          BY DEF LocalPending
        <4>2. j # pc
          BY <1>1, <4>1 DEF Acquires
        <4>3. j \in DOMAIN Way' /\ pc' <= j /\ \A k \in pc'..(j - 1) : ~Throws(Way[k])
          BY <1>1, <4>1, <4>2, WayIsSteps DEF IInv, TypeOK
        <4>4. QED
          BY <1>1, <4>1, <4>3 DEF LocalPending
      <3>3. NothingThrows(Way, pc) => NothingThrows(Way, pc)'
        BY <1>1, NothingThrowsLater DEF IInv
      <3>4. QED
        BY <1>1, <3>1, <3>2, <3>3 DEF IInv, Accounted
    <2>3. QED
      BY <2>1, <2>2
  <1>6. Accounted'
    BY <1>1, <1>5 DEF Accounted
  <1>7. QED
    BY <1>2, <1>3, <1>4, <1>6 DEF IInv

LEMMA PassKeeps ==
  ASSUME Sound(Table), IInv, Pass
  PROVE  IInv'
  <1>1. /\ phase = "ctor" /\ phase' = "ctor" /\ pc \in DOMAIN Way /\ pc' = pc + 1
        /\ Way[pc].do # "drop" /\ cls' = cls /\ Way' = Way
        /\ held' = held /\ handle' = handle /\ freed' = freed /\ twice' = twice
    BY DEF Pass, At, Advance, Way
  <1>2. TypeOK' /\ NoDoubleFree' /\ NothingKept' /\ HandlesMatch'
    BY <1>1 DEF IInv, TypeOK, NoDoubleFree, NothingKept, HandlesMatch
  <1>3. ASSUME NEW r \in held, LocalPending(r)
        PROVE  LocalPending(r)'
    <2>1. PICK j \in DOMAIN Way : /\ pc <= j /\ Way[j] = [do |-> "drop", res |-> r]
                                  /\ \A k \in pc..(j - 1) : ~Throws(Way[k])
      BY <1>3 DEF LocalPending
    <2>2. j # pc
      BY <1>1, <2>1
    <2>3. pc' <= j /\ \A k \in pc'..(j - 1) : ~Throws(Way[k])
      BY <1>1, <2>1, <2>2, WayIsSteps DEF IInv, TypeOK
    <2>4. QED
      BY <1>1, <2>1, <2>3 DEF LocalPending
  <1>4. NothingThrows(Way, pc) => NothingThrows(Way, pc)'
    BY <1>1, NothingThrowsLater DEF IInv
  <1>5. Accounted'
    BY <1>1, <1>3, <1>4 DEF IInv, Accounted
  <1>6. QED
    BY <1>2, <1>5 DEF IInv

\* A throw finds no local: its drop would come before the throwing step.
LEMMA ThrowKeeps ==
  ASSUME Sound(Table), IInv, Throw
  PROVE  IInv'
  <1>1. /\ phase = "ctor" /\ phase' = "failed" /\ pc \in DOMAIN Way /\ pc' = 1
        /\ Throws(Way[pc]) /\ cls' = cls /\ cls \in DOMAIN Table
        /\ held' = held /\ handle' = handle /\ freed' = freed /\ twice' = twice
        /\ Way' = Table[cls].fail
    BY DEF Throw, At, Way, Throws, IInv, TypeOK
  <1>2. TypeOK' /\ NoDoubleFree' /\ NothingKept' /\ HandlesMatch'
    BY <1>1 DEF IInv, TypeOK, NoDoubleFree, NothingKept, HandlesMatch
  <1>3. \A r \in held : ~LocalPending(r)
    <2>1. SUFFICES ASSUME NEW r \in held, NEW j \in DOMAIN Way, pc <= j,
                          Way[j] = [do |-> "drop", res |-> r],
                          \A k \in pc..(j - 1) : ~Throws(Way[k])
                   PROVE  FALSE
      BY DEF LocalPending
    <2>2. j # pc
      BY <1>1, <2>1 DEF Throws
    <2>3. pc \in pc..(j - 1)
      BY <1>1, <2>1, <2>2, WayIsSteps DEF IInv, TypeOK
    <2>4. QED
      BY <1>1, <2>1, <2>3
  <1>4. DOMAIN Table[cls].fail = 1..Len(Table[cls].fail)
    BY <1>1, ClassFacts, StepsFacts
  <1>5. ~NothingThrows(Way, pc)
    BY <1>1, WayIsSteps DEF IInv, TypeOK, NothingThrows
  <1>6. Accounted'
    BY <1>1, <1>3, <1>4, <1>5 DEF IInv, Accounted, ReleasedBy
  <1>7. QED
    BY <1>2, <1>6 DEF IInv

-----------------------------------------------------------------------------
\* What one release does, in any phase.
LEMMA ReleaseFacts ==
  ASSUME Sound(Table), IInv, Release
  PROVE  /\ phase \in {"ctor", "back", "failed", "dtor"} /\ phase' = phase
         /\ pc \in DOMAIN Way /\ pc' = pc + 1 /\ cls' = cls /\ Way' = Way
         /\ Releases(Way[pc]) /\ Res \in STRING /\ held' = held \ {Res}
         /\ twice' = {} /\ freed' \subseteq STRING
         /\ handle' = IF At("drop") THEN handle \ {Res} ELSE handle
         /\ phase \in {"ctor", "back"} => At("drop")
  <1>1. /\ phase' = phase /\ pc \in DOMAIN Way /\ pc' = pc + 1 /\ cls' = cls /\ Way' = Way
        /\ Releases(Way[pc]) /\ cls \in DOMAIN Table
        /\ handle' = IF At("drop") THEN handle \ {Res} ELSE handle
    BY DEF Release, At, Advance, Way, Releases, IInv, TypeOK
  <1>2. Res \in STRING
    BY <1>1, WayIsSteps DEF IInv, Res
  <1>3. phase \in {"ctor", "back", "failed", "dtor"}
    BY <1>1 DEF Way
  <1>4. phase \in {"ctor", "back"} => At("drop")
    BY <1>1, <1>3 DEF Sound, Once, Way, At, Releases
  <1>5. Res \in handle => Res \in held
    BY <1>1, <1>3, WayIsSteps DEF IInv, HandlesMatch, Res, TypeOK
  <1>6. held' = held \ {Res}
    BY <1>5 DEF Release, IInv, HandlesMatch
  <1>7. twice' = {} /\ freed' \subseteq STRING
    BY <1>2, <1>5 DEF Release, IInv, NoDoubleFree, TypeOK
  <1>8. QED
    BY <1>1, <1>2, <1>3, <1>4, <1>6, <1>7

LEMMA ReleaseKeeps ==
  ASSUME Sound(Table), IInv, Release
  PROVE  IInv'
  <1>0. TypeOK /\ pc \in Nat /\ DOMAIN Way = 1..Len(Way) /\ Len(Way) \in Nat
    BY WayIsSteps DEF IInv, TypeOK
  <1>1. TypeOK'
    <2>1. pc' \in Nat \ {0} /\ cls' \in DOMAIN Table /\ phase' = phase
      BY <1>0, ReleaseFacts DEF TypeOK
    <2>2. held' \subseteq STRING /\ handle' \subseteq STRING
      BY <1>0, ReleaseFacts DEF TypeOK
    <2>3. QED
      BY <1>0, <2>1, <2>2, ReleaseFacts DEF TypeOK
  <1>2. NoDoubleFree' /\ NothingKept'
    BY ReleaseFacts DEF NoDoubleFree, NothingKept
  <1>3. HandlesMatch'
    <2>1. CASE phase \in {"ctor", "back"}
      BY <2>1, ReleaseFacts DEF IInv, HandlesMatch
    <2>2. CASE phase \in {"failed", "dtor"}
      <3>1. held' \subseteq handle'
        BY ReleaseFacts DEF IInv, HandlesMatch
      <3>2. \A i, j \in DOMAIN Way : Way[i].res = Way[j].res => i = j
        BY <2>2 DEF Sound, Once, Way, IInv, TypeOK
      <3>3. \A i \in DOMAIN Way : i >= pc + 1 => Way[i].res # Res
        <4>1. pc \in DOMAIN Way
          BY ReleaseFacts
        <4>2. QED
          BY <1>0, <3>2, <4>1 DEF Res
      <3>4. \A r \in handle' \ held' : \A i \in DOMAIN Way : i >= pc + 1 => Way[i].res # r
        BY <1>0, <2>2, <3>3, ReleaseFacts DEF IInv, HandlesMatch
      <3>5. QED
        BY <2>2, <3>1, <3>4, ReleaseFacts DEF HandlesMatch
    <2>3. QED
      BY <2>1, <2>2, ReleaseFacts
  <1>4. Accounted'
    <2>1. CASE phase = "ctor"
      <3>1. ASSUME NEW r \in held', LocalPending(r)
            PROVE  LocalPending(r)'
        <4>1. PICK j \in DOMAIN Way : /\ pc <= j /\ Way[j] = [do |-> "drop", res |-> r]
                                      /\ \A k \in pc..(j - 1) : ~Throws(Way[k])
          BY <3>1 DEF LocalPending
        <4>2. j # pc
          BY <3>1, <4>1, ReleaseFacts DEF Res
        <4>3. pc' <= j /\ \A k \in pc'..(j - 1) : ~Throws(Way[k])
          BY <4>1, <4>2, ReleaseFacts, WayIsSteps DEF IInv, TypeOK
        <4>4. QED
          BY <4>1, <4>3, ReleaseFacts DEF LocalPending
      <3>2. NothingThrows(Way, pc) => NothingThrows(Way, pc)'
        BY <1>0, ReleaseFacts, NothingThrowsLater
      <3>3. QED
        BY <2>1, <3>1, <3>2, ReleaseFacts DEF IInv, Accounted
    <2>2. CASE phase = "back"
      BY <2>2, ReleaseFacts DEF IInv, Accounted
    <2>3. CASE phase \in {"failed", "dtor"}
      <3>1. ASSUME NEW r \in held', NEW i \in DOMAIN Way, i >= pc, Way[i].res = r
            PROVE  i >= pc + 1
        BY <3>1, ReleaseFacts, WayIsSteps DEF Res, IInv, TypeOK
      <3>2. QED
        BY <2>3, <3>1, ReleaseFacts DEF IInv, Accounted
    <2>4. QED
      BY <2>1, <2>2, <2>3, ReleaseFacts
  <1>5. QED
    BY <1>1, <1>2, <1>3, <1>4 DEF IInv

-----------------------------------------------------------------------------
LEMMA ReadyKeeps ==
  ASSUME Sound(Table), IInv, Ready
  PROVE  IInv'
  <1>1. /\ phase \in {"ctor", "back"} /\ phase' = "ready" /\ pc' = 1 /\ cls' = cls
        /\ pc > Len(Way)
        /\ held' = held /\ handle' = handle /\ freed' = freed /\ twice' = twice
    BY DEF Ready
  <1>2. TypeOK' /\ NoDoubleFree' /\ NothingKept' /\ HandlesMatch'
    BY <1>1 DEF IInv, TypeOK, NoDoubleFree, NothingKept, HandlesMatch
  <1>3. \A r \in held : ~LocalPending(r)
    BY <1>1, WayIsSteps DEF LocalPending, IInv, TypeOK
  <1>4. Accounted'
    BY <1>1, <1>3 DEF IInv, Accounted
  <1>5. QED
    BY <1>2, <1>4 DEF IInv

LEMMA TakeLaterKeeps ==
  ASSUME Sound(Table), IInv, TakeLater
  PROVE  IInv'
  <1>1. PICK r \in Table[cls].later \ held :
          held' = held \cup {r} /\ handle' = handle \cup {r} /\ freed' = freed \ {r}
    BY DEF TakeLater
  <1>2. /\ phase = "ready" /\ phase' = "ready" /\ pc' = pc /\ cls' = cls /\ twice' = twice
        /\ cls \in DOMAIN Table /\ r \in STRING
    BY ClassFacts DEF TakeLater, IInv, TypeOK
  <1>3. r \in Table[cls].leaks \/ ReleasedBy(Table[cls].dtor, r)
    BY <1>2 DEF Sound, Covered
  <1>4. TypeOK' /\ NoDoubleFree' /\ NothingKept' /\ HandlesMatch'
    BY <1>1, <1>2 DEF IInv, TypeOK, NoDoubleFree, NothingKept, HandlesMatch
  <1>5. Accounted'
    BY <1>1, <1>2, <1>3 DEF IInv, Accounted
  <1>6. QED
    BY <1>4, <1>5 DEF IInv

LEMMA GiveBackKeeps ==
  ASSUME IInv, GiveBack
  PROVE  IInv'
  BY DEF GiveBack, IInv, TypeOK, NoDoubleFree, NothingKept, HandlesMatch, Accounted

LEMMA DestroyKeeps ==
  ASSUME IInv, Destroy
  PROVE  IInv'
  <1>1. /\ phase = "ready" /\ phase' = "dtor" /\ pc' = 1 /\ cls' = cls /\ cls \in DOMAIN Table
        /\ held' = held /\ handle' = handle /\ freed' = freed /\ twice' = twice
        /\ Way' = Table[cls].dtor
    BY DEF Destroy, Way, IInv, TypeOK
  <1>2. TypeOK' /\ NoDoubleFree' /\ NothingKept' /\ HandlesMatch'
    BY <1>1 DEF IInv, TypeOK, NoDoubleFree, NothingKept, HandlesMatch
  <1>3. DOMAIN Table[cls].dtor = 1..Len(Table[cls].dtor)
    BY <1>1, ClassFacts, StepsFacts
  <1>4. Accounted'
    BY <1>1, <1>3 DEF IInv, Accounted, ReleasedBy
  <1>5. QED
    BY <1>2, <1>4 DEF IInv

LEMMA GoneKeeps ==
  ASSUME IInv, Gone
  PROVE  IInv'
  <1>1. /\ phase \in {"failed", "dtor"} /\ pc > Len(Way) /\ pc' = 1 /\ cls' = cls
        /\ phase' = IF phase = "dtor" THEN "gone" ELSE "aborted"
        /\ held' = held /\ handle' = handle /\ freed' = freed /\ twice' = twice
    BY DEF Gone
  <1>2. \A i \in DOMAIN Way : ~(i >= pc)
    BY <1>1, WayIsSteps DEF IInv, TypeOK
  <1>3. NothingKept'
    BY <1>1, <1>2 DEF IInv, Accounted, NothingKept
  <1>4. TypeOK' /\ NoDoubleFree' /\ HandlesMatch' /\ Accounted'
    BY <1>1 DEF IInv, TypeOK, NoDoubleFree, HandlesMatch, Accounted
  <1>5. QED
    BY <1>3, <1>4 DEF IInv

LEMMA RenewKeeps ==
  ASSUME IInv, Renew
  PROVE  IInv'
  BY DEF Renew, IInv, TypeOK, NoDoubleFree, NothingKept, HandlesMatch, Accounted

LEMMA NextKeeps ==
  ASSUME Sound(Table), IInv, [Next]_vars
  PROVE  IInv'
  <1>1. CASE Next
    BY <1>1, ObtainKeeps, PassKeeps, ThrowKeeps, ReleaseKeeps, ReadyKeeps, TakeLaterKeeps,
       GiveBackKeeps, DestroyKeeps, GoneKeeps, RenewKeeps DEF Next
  <1>2. CASE UNCHANGED vars
    <2>1. Way' = Way
      BY <1>2 DEF vars, Way
    <2>2. QED
      BY <1>2, <2>1 DEF vars, IInv, TypeOK, NoDoubleFree, NothingKept, HandlesMatch,
                        Accounted, LocalPending
  <1>3. QED
    BY <1>1, <1>2

-----------------------------------------------------------------------------
(***************************************************************************)
(* The inductive invariant of the lifetimes of a sound table.               *)
(***************************************************************************)
THEOREM LifetimeInvariant ==
  ASSUME Sound(Table)
  PROVE  Spec => []IInv
  <1>1. Init => IInv
    BY InitHolds
  <1>2. IInv /\ [Next]_vars => IInv'
    BY NextKeeps
  <1>3. QED
    BY <1>1, <1>2, PTL DEF Spec

(***************************************************************************)
(* A class whose releases mention a handle once, and whose constructor nulls*)
(* what it frees, never destroys anything twice.                            *)
(***************************************************************************)
THEOREM NeverTwice ==
  ASSUME Sound(Table)
  PROVE  Spec => []NoDoubleFree
  <1>1. IInv => NoDoubleFree
    BY DEF IInv
  <1>2. QED
    BY <1>1, LifetimeInvariant, PTL

(***************************************************************************)
(* A class that releases what it takes on both ways down leaves nothing but *)
(* what its table lists, at whichever step its constructor throws.          *)
(***************************************************************************)
THEOREM NothingLeft ==
  ASSUME Sound(Table)
  PROVE  Spec => []NothingKept
  <1>1. IInv => NothingKept
    BY DEF IInv
  <1>2. QED
    BY <1>1, LifetimeInvariant, PTL

(***************************************************************************)
(* The variables keep their types.                                          *)
(***************************************************************************)
THEOREM LifetimeTypes ==
  ASSUME Sound(Table)
  PROVE  Spec => []TypeOK
  <1>1. IInv => TypeOK
    BY DEF IInv
  <1>2. QED
    BY <1>1, LifetimeInvariant, PTL
-----------------------------------------------------------------------------
(***************************************************************************)
(* Nothing goes before what needs it, for a table that is Ordered.  A way   *)
(* down that has released a resource does not meet it again, so that what   *)
(* needs the next one to go is gone already, or was never taken.            *)
(***************************************************************************)
Taken ==
  /\ phase = "ctor" => \A r \in held :
       \E i \in DOMAIN Way : i < pc /\ Acquires(Way[i]) /\ Way[i].res = r
  /\ phase = "failed" => held \subseteq AtThrow(Table[cls].ctor)
  /\ phase \in {"ready", "back", "dtor"} =>
       held \subseteq TakenBy(Table[cls].ctor) \cup Table[cls].later

Passed ==
  phase \in {"failed", "back", "dtor"} =>
    \A i \in DOMAIN Way : i < pc /\ Releases(Way[i]) => Way[i].res \notin held

Untouched == phase = "ctor" => \A p \in Kept(Table[cls]) : p[2] \notin freed

OInv == IInv /\ Taken /\ Passed /\ Untouched /\ NeededAlive

LEMMA WayStarts ==
  ASSUME NEW n \in DOMAIN Table, NEW way \in {Table[n].fail, Table[n].dtor, Table[n].back}
  PROVE  \A i \in DOMAIN way : ~(i < 1)
  BY ClassFacts, StepsFacts

LEMMA OrderObtain ==
  ASSUME OInv, Obtain
  PROVE  (Taken /\ Passed /\ Untouched /\ NeededAlive)'
  <1>1. /\ phase = "ctor" /\ phase' = "ctor" /\ cls' = cls /\ Way = Table[cls].ctor
        /\ pc \in DOMAIN Way /\ Acquires(Way[pc])
        /\ held' = held \cup {Res} /\ freed' = freed \ {Res}
    BY DEF Obtain, At, Advance, Acquires, Way
  <1>2. pc' = pc + 1 /\ pc \in Nat /\ Way' = Way /\ DOMAIN Way = 1..Len(Way) /\ Len(Way) \in Nat
    BY WayIsSteps DEF OInv, IInv, TypeOK, Obtain, Advance, Way
  <1>3. Taken'
    BY <1>1, <1>2 DEF OInv, Taken, Res
  <1>4. QED
    BY <1>1, <1>3 DEF OInv, Passed, Untouched, NeededAlive

\* The released resource is needed by nothing that is still there.
LEMMA OrderRelease ==
  ASSUME Sound(Table), Ordered(Table), OInv, Release
  PROVE  (Taken /\ Passed /\ Untouched /\ NeededAlive)'
  <1>0. IInv /\ cls \in DOMAIN Table /\ pc \in Nat /\ DOMAIN Way = 1..Len(Way) /\ Len(Way) \in Nat
    BY WayIsSteps DEF OInv, IInv, TypeOK
  <1>1. /\ phase \in {"ctor", "back", "failed", "dtor"} /\ phase' = phase
        /\ pc \in DOMAIN Way /\ pc' = pc + 1 /\ cls' = cls /\ Way' = Way
        /\ Releases(Way[pc]) /\ held' = held \ {Res}
    BY <1>0, ReleaseFacts
  <1>2. freed' \subseteq freed \cup {Res}
    BY DEF Release
  <1>3. Taken'
    BY <1>0, <1>1 DEF OInv, Taken
  <1>4. Passed'
    BY <1>0, <1>1 DEF OInv, Passed, Res
  <1>5. ASSUME NEW p \in Kept(Table[cls]), p[2] = Res
        PROVE  phase # "ctor" /\ p[1] \notin held
    <2>1. Orderly(Table[cls])
      BY <1>0 DEF Ordered
    <2>2. phase # "ctor"
      BY <1>1, <1>5, <2>1 DEF Orderly, ReleasedBy, Way, Res
    <2>3. ASSUME p[1] \in held
          PROVE  InTurn(Way, p)
      <3>1. CASE phase = "failed"
        <4>1. p[1] \in AtThrow(Table[cls].ctor)
          BY <2>3, <3>1 DEF OInv, Taken
        <4>2. QED
          BY <2>1, <3>1, <4>1 DEF Orderly, Way
      <3>2. CASE phase \in {"back", "dtor"}
        <4>1. p[1] \in TakenBy(Table[cls].ctor) \cup Table[cls].later
          BY <2>3, <3>2 DEF OInv, Taken
        <4>2. QED
          BY <2>1, <3>2, <4>1 DEF Orderly, Way
      <3>3. QED
        BY <1>1, <2>2, <3>1, <3>2
    <2>4. ASSUME p[1] \in held
          PROVE  FALSE
      <3>1. PICK i \in 1..(pc - 1) : Releases(Way[i]) /\ Way[i].res = p[1]
        BY <1>1, <1>5, <2>3, <2>4 DEF InTurn, Res
      <3>2. i \in DOMAIN Way /\ i < pc
        BY <1>0, <1>1
      <3>3. QED
        BY <1>1, <2>2, <2>4, <3>1, <3>2 DEF OInv, Passed
    <2>5. QED
      BY <2>2, <2>4
  <1>6. Untouched'
    BY <1>1, <1>2, <1>5 DEF OInv, Untouched
  <1>7. NeededAlive'
    BY <1>1, <1>2, <1>5 DEF OInv, NeededAlive
  <1>8. QED
    BY <1>3, <1>4, <1>6, <1>7

LEMMA OrderNext ==
  ASSUME Sound(Table), Ordered(Table), OInv, [Next]_vars
  PROVE  OInv'
  <1> USE DEF OInv, Taken, Passed, Untouched, NeededAlive
  <1>1. IInv'
    BY NextKeeps
  <1>2. pc \in Nat \ {0} /\ IInv
    BY DEF IInv, TypeOK
  <1>3. CASE Obtain
    BY <1>1, <1>3, OrderObtain
  <1>4. CASE Pass
    <2>1. /\ phase = "ctor" /\ phase' = "ctor" /\ pc' = pc + 1 /\ cls' = cls
          /\ held' = held /\ freed' = freed /\ Way' = Way
      BY <1>4 DEF Pass, Advance, Way
    <2>2. DOMAIN Way = 1..Len(Way) /\ Len(Way) \in Nat
      BY <1>2, WayIsSteps DEF IInv
    <2>3. QED
      BY <1>1, <1>2, <2>1, <2>2
  <1>5. CASE Throw
    <2>1. /\ phase = "ctor" /\ phase' = "failed" /\ pc' = 1 /\ cls' = cls
          /\ held' = held /\ freed' = freed
      BY <1>5 DEF Throw
    <2>2. cls \in DOMAIN Table /\ Way' = Table[cls].fail
      BY <1>2, <2>1 DEF IInv, TypeOK, Way
    <2>3. \A i \in DOMAIN Way' : ~(i < pc')
      BY <2>1, <2>2, WayStarts
    <2>4. /\ Way = Table[cls].ctor /\ pc \in DOMAIN Way /\ Throws(Way[pc])
          /\ DOMAIN Way = 1..Len(Way) /\ Len(Way) \in Nat
      BY <1>2, <1>5, WayIsSteps DEF IInv, Throw, At, Way, Throws
    <2>5. held \subseteq AtThrow(Table[cls].ctor)
      <3>1. SUFFICES ASSUME NEW i \in DOMAIN Way, i < pc, Acquires(Way[i])
                     PROVE  Way[i].res \in AtThrow(Way)
        BY <2>1, <2>4
      <3>2. ~NothingThrows(Way, i + 1)
        BY <1>2, <2>4, <3>1 DEF NothingThrows
      <3>3. QED
        BY <3>1, <3>2 DEF AtThrow
    <2>6. QED
      BY <1>1, <2>1, <2>3, <2>5
  <1>6. CASE Release
    BY <1>1, <1>6, OrderRelease
  <1>7. CASE Ready
    <2>1. phase \in {"ctor", "back"} /\ phase' = "ready" /\ cls' = cls /\ held' = held /\ freed' = freed
      BY <1>7 DEF Ready
    <2>2. held \subseteq TakenBy(Table[cls].ctor) \cup Table[cls].later
      BY <2>1 DEF TakenBy, Way
    <2>3. QED
      BY <1>1, <2>1, <2>2
  <1>8. CASE TakeLater
    <2>1. PICK r \in Table[cls].later \ held :
            /\ \A p \in Kept(Table[cls]) : p[1] = r => p[2] \notin freed
            /\ held' = held \cup {r} /\ freed' = freed \ {r}
      BY <1>8 DEF TakeLater
    <2>2. phase = "ready" /\ phase' = "ready" /\ cls' = cls
      BY <1>8 DEF TakeLater
    <2>3. QED
      BY <1>1, <2>1, <2>2
  <1>9. CASE GiveBack
    <2>1. /\ phase = "ready" /\ phase' = "back" /\ pc' = 1 /\ cls' = cls
          /\ held' = held /\ freed' = freed
      BY <1>9 DEF GiveBack
    <2>2. cls \in DOMAIN Table /\ Way' = Table[cls].back
      BY <1>2, <2>1 DEF IInv, TypeOK, Way
    <2>3. \A i \in DOMAIN Way' : ~(i < pc')
      BY <2>1, <2>2, WayStarts
    <2>4. QED
      BY <1>1, <2>1, <2>3
  <1>10. CASE Destroy
    <2>1. /\ phase = "ready" /\ phase' = "dtor" /\ pc' = 1 /\ cls' = cls
          /\ held' = held /\ freed' = freed
      BY <1>10 DEF Destroy
    <2>2. cls \in DOMAIN Table /\ Way' = Table[cls].dtor
      BY <1>2, <2>1 DEF IInv, TypeOK, Way
    <2>3. \A i \in DOMAIN Way' : ~(i < pc')
      BY <2>1, <2>2, WayStarts
    <2>4. QED
      BY <1>1, <2>1, <2>3
  <1>11. CASE Gone
    <2>1. phase \in {"failed", "dtor"} /\ phase' \in {"gone", "aborted"}
          /\ cls' = cls /\ held' = held /\ freed' = freed
      BY <1>11 DEF Gone
    <2>2. QED
      BY <1>1, <2>1
  <1>12. CASE Renew
    BY <1>1, <1>12 DEF Renew
  <1>13. CASE UNCHANGED vars
    <2>1. Way' = Way
      BY <1>13 DEF vars, Way
    <2>2. QED
      BY <1>1, <1>13, <2>1 DEF vars
  <1>14. QED
    BY <1>3, <1>4, <1>5, <1>6, <1>7, <1>8, <1>9, <1>10, <1>11, <1>12, <1>13 DEF Next

(***************************************************************************)
(* A resource outlives what is made from it or uses it, whichever step of   *)
(* the constructor throws and whatever the living object takes and returns, *)
(* but for the pairs that a class lists as `early`.                         *)
(***************************************************************************)
THEOREM NeedsOutlived ==
  ASSUME Sound(Table), Ordered(Table)
  PROVE  Spec => []NeededAlive
  <1>1. Init => OInv
    BY InitHolds DEF Init, OInv, Taken, Passed, Untouched, NeededAlive
  <1>2. OInv /\ [Next]_vars => OInv'
    BY OrderNext
  <1>3. OInv => NeededAlive
    BY DEF OInv
  <1>4. QED
    BY <1>1, <1>2, <1>3, PTL DEF Spec
=============================================================================
