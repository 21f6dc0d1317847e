----------------------------- MODULE Ownership -----------------------------
(***************************************************************************)
(* One object after another is constructed, used and destroyed, step by     *)
(* step as Table says, and a constructor may throw at any step that can.    *)
(* This is the lifetime every class of the backend that owns a handle goes  *)
(* through; the tables themselves are in Resources.                         *)
(***************************************************************************)
EXTENDS Steps

CONSTANT Table   \* what the classes do: [name -> Class]

ASSUME TableAssumption == /\ DOMAIN Table # {}
                          /\ \A n \in DOMAIN Table : Table[n] \in Class

VARIABLES
  cls,     \* the class of the object
  phase,   \* "ctor", "ready", "back", "dtor" and "gone"; "failed" while a throw
           \* of the constructor unwinds, and "aborted" after it
  pc,      \* the next step of the phase
  held,    \* the resources that exist
  handle,  \* the resources the object's handles name
  freed,   \* the resources given back since the construction began
  twice    \* the resources given back although they were gone

vars == <<cls, phase, pc, held, handle, freed, twice>>

Way == IF phase = "ctor" THEN Table[cls].ctor
       ELSE IF phase = "back" THEN Table[cls].back
       ELSE IF phase = "failed" THEN Table[cls].fail
       ELSE IF phase = "dtor" THEN Table[cls].dtor
       ELSE <<>>

TypeOK ==
  /\ cls \in DOMAIN Table
  /\ phase \in {"ctor", "ready", "back", "failed", "aborted", "dtor", "gone"}
  /\ pc \in Nat \ {0}
  /\ held \subseteq STRING /\ handle \subseteq STRING
  /\ freed \subseteq STRING /\ twice \subseteq STRING

-----------------------------------------------------------------------------
Init ==
  /\ cls \in DOMAIN Table
  /\ phase = "ctor" /\ pc = 1
  /\ held = {} /\ handle = {} /\ freed = {} /\ twice = {}

At(do) == pc \in DOMAIN Way /\ Way[pc].do = do
Res == Way[pc].res
Advance == pc' = pc + 1 /\ UNCHANGED <<cls, phase>>

Obtain ==
  /\ phase = "ctor" /\ \E do \in {"keep", "acquire", "try", "make"} : At(do)
  /\ held' = held \cup {Res} /\ handle' = handle \cup {Res}
  /\ freed' = freed \ {Res}
  /\ Advance /\ UNCHANGED twice

\* The surroundings do not offer it, or the check passes.
Pass ==
  /\ phase = "ctor" /\ \E do \in {"try", "make", "check"} : At(do)
  /\ Advance /\ UNCHANGED <<held, handle, freed, twice>>

Throw ==
  /\ phase = "ctor" /\ \E do \in {"acquire", "try", "check"} : At(do)
  /\ phase' = "failed" /\ pc' = 1
  /\ UNCHANGED <<cls, held, handle, freed, twice>>

\* free and drop do nothing when the handle names nothing.
Release ==
  /\ At("free") \/ At("drop")
  /\ IF Res \in handle
       THEN /\ held' = held \ {Res} /\ freed' = freed \cup {Res}
            /\ twice' = IF Res \in held THEN twice ELSE twice \cup {Res}
       ELSE UNCHANGED <<held, freed, twice>>
  /\ handle' = IF At("drop") THEN handle \ {Res} ELSE handle
  /\ Advance

\* The object gives back what it took while it lived, and lives on.
GiveBack ==
  /\ phase = "ready" /\ Table[cls].back # <<>>
  /\ phase' = "back" /\ pc' = 1
  /\ UNCHANGED <<cls, held, handle, freed, twice>>

Ready ==
  /\ phase \in {"ctor", "back"} /\ pc > Len(Way)
  /\ phase' = "ready" /\ pc' = 1
  /\ UNCHANGED <<cls, held, handle, freed, twice>>

\* The object takes one of the resources it acquires while it lives, what it is
\* made from first.
TakeLater ==
  /\ phase = "ready"
  /\ \E r \in Table[cls].later \ held :
       /\ \A p \in Kept(Table[cls]) : p[1] = r => p[2] \notin freed
       /\ held' = held \cup {r} /\ handle' = handle \cup {r} /\ freed' = freed \ {r}
  /\ UNCHANGED <<cls, phase, pc, twice>>

Destroy ==
  /\ phase = "ready"
  /\ phase' = "dtor" /\ pc' = 1
  /\ UNCHANGED <<cls, held, handle, freed, twice>>

Gone ==
  /\ phase \in {"failed", "dtor"} /\ pc > Len(Way)
  /\ phase' = IF phase = "dtor" THEN "gone" ELSE "aborted"
  /\ pc' = 1
  /\ UNCHANGED <<cls, held, handle, freed, twice>>

\* The next object.
Renew ==
  /\ phase \in {"gone", "aborted"}
  /\ cls' \in DOMAIN Table
  /\ phase' = "ctor" /\ pc' = 1
  /\ held' = {} /\ handle' = {} /\ freed' = {} /\ twice' = {}

Next == \/ Obtain \/ Pass \/ Throw \/ Release \/ Ready
        \/ TakeLater \/ GiveBack \/ Destroy \/ Gone \/ Renew

Spec == Init /\ [][Next]_vars

-----------------------------------------------------------------------------
(***************************************************************************)
(* Nothing is destroyed twice, whichever step of whichever constructor      *)
(* threw: the release functions do not reset the pointers they free.        *)
(***************************************************************************)
NoDoubleFree == twice = {}

(***************************************************************************)
(* When an object is gone, after a failed construction or a whole life,     *)
(* nothing of what it took is left but what its class is known to leave.    *)
(***************************************************************************)
NothingKept == /\ phase = "gone" => held \subseteq Table[cls].leaks
               /\ phase = "aborted" => held \subseteq Table[cls].lost

(***************************************************************************)
(* A resource outlives the resources that are made from it or use it, but   *)
(* for the pairs a class lists as `early`: the connection its proxies, a    *)
(* descriptor the thread that polls it, a dumb buffer its mapping, an       *)
(* exported handle its export.                                              *)
(***************************************************************************)
NeededAlive == \A p \in Kept(Table[cls]) : p[1] \in held => p[2] \notin freed
=============================================================================
