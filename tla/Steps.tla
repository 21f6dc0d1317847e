------------------------------- MODULE Steps -------------------------------
(***************************************************************************)
(* What a C++ class does to the resources it owns, as data: its constructor *)
(* and its two ways of being taken down are sequences of steps.  `res` names *)
(* a proxy, a descriptor, a mapping, a thread or an object; the handle the   *)
(* class keeps of it is a raw pointer, a number or a smart pointer.          *)
(***************************************************************************)
EXTENDS Naturals, Sequences

Do == {"keep", "acquire", "try", "make", "check", "free", "drop"}
Step == [do : Do, res : STRING]

\* Keeps a reference to an object made elsewhere.
Keep(r) == <<[do |-> "keep", res |-> r]>>
\* Takes a resource and keeps its handle; when it cannot, the code throws.
Acquire(r) == <<[do |-> "acquire", res |-> r]>>
\* Takes a resource only when the surroundings offer it, and never throws.
Make(r) == <<[do |-> "make", res |-> r]>>
\* Takes a resource only when it is asked to, and throws when it cannot.
Try(r) == <<[do |-> "try", res |-> r]>>
\* A call that may fail and then throws.
Check(what) == <<[do |-> "check", res |-> what]>>
\* `if (handle) destroy(handle);`: the handle keeps its value.
Free(r) == <<[do |-> "free", res |-> r]>>
\* destroy and forget: a smart pointer's reset, a local's last use, or an
\* explicit `handle = nullptr`.
Drop(r) == <<[do |-> "drop", res |-> r]>>

\* A class: `later` are the resources the living object may take, `back` the way
\* it gives them back and lives on, `needs` the pairs <<a, b>> where a is made
\* from b or uses it, `early` those of them where b is known to go first, `lost`
\* and `leaks` what the class is known to leave behind when its constructor
\* throws and when it is destroyed.
Class == [ctor : Seq(Step), fail : Seq(Step), dtor : Seq(Step),
          back : Seq(Step), later : SUBSET STRING, needs : SUBSET (STRING \X STRING),
          early : SUBSET (STRING \X STRING),
          lost : SUBSET STRING, leaks : SUBSET STRING]

\* A class whose constructor catches, calls release() and throws again, and
\* whose destructor calls the same release(); `members` are destroyed after it.
Guarded(init, release, members) ==
  [ctor |-> init, fail |-> release \o members, dtor |-> release \o members,
   back |-> <<>>, later |-> {}, needs |-> {}, early |-> {},
   lost |-> {}, leaks |-> {}]
\* A class whose constructor does not catch: a throw only destroys its bases
\* and the members built so far.
Plain(init, body, members) ==
  [ctor |-> init, fail |-> members, dtor |-> body \o members,
   back |-> <<>>, later |-> {}, needs |-> {}, early |-> {},
   lost |-> {}, leaks |-> {}]

-----------------------------------------------------------------------------
(***************************************************************************)
(* What can be read off a table without running it.                         *)
(***************************************************************************)
Releases(s) == s.do \in {"free", "drop"}
Acquires(s) == s.do \in {"keep", "acquire", "try", "make"}
Throws(s) == s.do \in {"acquire", "try", "check"}
ReleasedBy(way, r) == \E i \in DOMAIN way : Releases(way[i]) /\ way[i].res = r

\* A local of the constructor: dropped before anything can throw.
Local(way, i) == \E j \in (i + 1)..Len(way) :
                   /\ way[j] = [do |-> "drop", res |-> way[i].res]
                   /\ \A k \in (i + 1)..(j - 1) : ~Throws(way[k])

NothingThrows(way, from) == \A k \in from..Len(way) : ~Throws(way[k])

\* Every resource that may be taken is released on both ways down or listed; one
\* behind which nothing throws needs no release on the first.
Covered(c) ==
  /\ \A i \in DOMAIN c.ctor : Acquires(c.ctor[i]) =>
       \/ Local(c.ctor, i)
       \/ /\ \/ c.ctor[i].res \in c.lost \/ ReleasedBy(c.fail, c.ctor[i].res)
             \/ NothingThrows(c.ctor, i + 1)
          /\ c.ctor[i].res \in c.leaks \/ ReleasedBy(c.dtor, c.ctor[i].res)
  /\ \A r \in c.later \ c.leaks : ReleasedBy(c.dtor, r)

\* A way down mentions a resource once, and the constructor and the way back
\* forget what they free.
Once(c) ==
  /\ \A way \in {c.fail, c.dtor} :
       \A i, j \in DOMAIN way : way[i].res = way[j].res => i = j
  /\ \A way \in {c.ctor, c.back} : \A i \in DOMAIN way : way[i].do # "free"

\* What a constructor takes, and what it may hold when it throws.
TakenBy(way) == {way[i].res : i \in {j \in DOMAIN way : Acquires(way[j])}}
AtThrow(way) ==
  {way[i].res : i \in {j \in DOMAIN way : Acquires(way[j]) /\ ~NothingThrows(way, j + 1)}}

\* A way releases p[2] only behind p[1].
InTurn(way, p) ==
  \A j \in DOMAIN way : Releases(way[j]) /\ way[j].res = p[2] =>
    \E i \in 1..(j - 1) : Releases(way[i]) /\ way[i].res = p[1]

\* The pairs whose order the class keeps.
Kept(c) == c.needs \ c.early

\* The constructor releases nothing that is needed, and the other ways release
\* it behind what needs it and may have been taken by then.
Orderly(c) == \A p \in Kept(c) :
  /\ ~ReleasedBy(c.ctor, p[2])
  /\ p[1] \in AtThrow(c.ctor) => InTurn(c.fail, p)
  /\ p[1] \in TakenBy(c.ctor) \cup c.later => InTurn(c.dtor, p) /\ InTurn(c.back, p)

\* What is listed as out of order is: the list is no longer than it has to be.
Admitted(c) == \A p \in c.early :
  p \in c.needs /\ (ReleasedBy(c.ctor, p[2]) \/ ~InTurn(c.dtor, p))

Ordered(table) == \A n \in DOMAIN table : Orderly(table[n])
Sound(table) == \A n \in DOMAIN table : Covered(table[n]) /\ Once(table[n])
=============================================================================
