--------------------------- MODULE PageDirectory ----------------------------
(***************************************************************************)
(* The page directory of a shared buffer: a chain of pages in the memory of *)
(* the frontend, each with the grant references of the buffer's next pages. *)
(* pgDirGetBufferRefs() reads one, pgDirSetBufferRefs() writes the          *)
(* references of a buffer the backend has allocated into one.               *)
(***************************************************************************)
EXTENDS Integers, FiniteSets, Sequences

CONSTANTS
  Pages,    \* the pages of the frontend that may be in a chain
  PerPage,  \* references on a page of a directory: 1023
  PageSize, \* 4096
  Sizes,    \* the sizes of buffers a frontend asks for
  Tasks     \* what the directory is walked for: "set", or to read it

ASSUME PageDirectoryAssumption ==
  /\ PerPage \in Nat \ {0} /\ PageSize \in Nat \ {0} /\ Sizes \subseteq Nat
  /\ Pages \subseteq Nat \ {0}

VARIABLES
  task,   \* the member of Tasks
  size,   \* of the buffer, as the frontend says
  start,  \* the first page, or 0
  mem,    \* [Pages -> the page: the next one, or 0, and its references]
  refs,   \* the references read, or those to write
  dir,    \* startDirectory
  left,   \* requestedNumGrefs
  pos,    \* grefs - refs.data()
  pc

dvars == <<task, size, start, mem, refs, dir, left, pos, pc>>

Least(a, b) == IF a < b THEN a ELSE b
NumGrefs(bytes) == (bytes + PageSize - 1) \div PageSize
Foreign == -1  \* what lies behind the last reference of a vector

\* Every page is full of references of its own; those to write are the
\* backend's, as many as the buffer has pages: one less, as many, or one more
\* than the size says.
OnPage(p) == [i \in 1..PerPage |-> PerPage * p + i]
Own(n) == [i \in 1..n |-> -1 - i]

DInit ==
  /\ task \in Tasks /\ size \in Sizes /\ start \in Pages \cup {0}
  /\ \E next \in [Pages -> Pages \cup {0}] :
       mem = [p \in Pages |-> [next |-> next[p], gref |-> OnPage(p)]]
  /\ dir = start /\ left = NumGrefs(size) /\ pos = 0 /\ pc = "walk"
  /\ IF task = "set" THEN \E n \in {left - 1, left, left + 1} \cap Nat : refs = Own(n)
                     ELSE refs = <<>>

-----------------------------------------------------------------------------
Walking == pc = "walk" /\ dir # 0 /\ left > 0

\* How many references of a page the buffer has.
\* Mutant: the last page is taken whole.
Taken_Whole == PerPage
Taken == Least(left, PerPage)

pgDirGetBufferRefs ==
  /\ Walking /\ task # "set"
  /\ refs' = refs \o SubSeq(mem[dir].gref, 1, Taken)
  /\ left' = left - Taken /\ dir' = mem[dir].next
  /\ UNCHANGED <<task, size, start, mem, pos, pc>>

\* memcpy() reads on behind the last reference.
Reference(i) == IF i \in DOMAIN refs THEN refs[i] ELSE Foreign

pgDirSetBufferRefs ==
  /\ Walking /\ task = "set"
  /\ mem' = [mem EXCEPT ![dir].gref =
               [i \in 1..PerPage |-> IF i <= Taken THEN Reference(pos + i) ELSE @[i]]]
  /\ left' = left - Taken /\ pos' = pos + Taken /\ dir' = mem[dir].next
  /\ UNCHANGED <<task, size, start, refs, pc>>

\* A page of the directory cannot be mapped.
MapFails ==
  /\ Walking /\ pc' = "error"
  /\ UNCHANGED <<task, size, start, mem, refs, dir, left, pos>>

Walked ==
  /\ pc = "walk" /\ ~Walking /\ pc' = "walked"
  /\ UNCHANGED <<task, size, start, mem, refs, dir, left, pos>>

DNext == pgDirGetBufferRefs \/ pgDirSetBufferRefs \/ MapFails \/ Walked

DSpec == DInit /\ [][DNext]_dvars

-----------------------------------------------------------------------------
(***************************************************************************)
(* The reference: the pages in the order of the chain, 0 behind its end, a  *)
(* chain that comes back to a page having no end.                           *)
(***************************************************************************)
ChainFrom(first, next, n) ==
  LET page[k \in 1..n] ==
        IF k = 1 THEN first ELSE IF page[k - 1] = 0 THEN 0 ELSE next[page[k - 1]]
  IN  page
Links == [p \in Pages |-> mem[p].next]
Chain == ChainFrom(start, Links, NumGrefs(size) + 1)
PageOf(i) == Chain[(i - 1) \div PerPage + 1]
Present == {i \in 1..NumGrefs(size) : PageOf(i) # 0}
Entry(i) == mem[PageOf(i)].gref[((i - 1) % PerPage) + 1]

\* The pages a buffer of the size takes are not of one chain twice.
NoLoop == \A i, j \in Present :
            PageOf(i) = PageOf(j) => (i - 1) \div PerPage = (j - 1) \div PerPage

\* The references in memory that are not what the frontend had there.
Written == {slot \in Pages \X (1..PerPage) :
              mem[slot[1]].gref[slot[2]] # OnPage(slot[1])[slot[2]]}

DTypeOK ==
  /\ task \in Tasks /\ size \in Sizes /\ start \in Pages \cup {0} /\ dir \in Pages \cup {0}
  /\ left \in 0..NumGrefs(size) /\ pos \in Nat
  /\ pc \in {"walk", "walked", "error", "answered"}

(***************************************************************************)
(* The types hold, and the i-th page of the buffer is the i-th entry of the *)
(* directory: for a buffer read, wherever the chain ends or comes back to,  *)
(* and for one written, when it has the pages its frontend says and the     *)
(* chain does not come back; and nothing else is written                    *)
(* (pgDirGetBufferRefs(), pgDirSetBufferRefs()).                            *)
(***************************************************************************)
DirectoryAgrees ==
  /\ DTypeOK
  /\ pc = "walked" =>
    IF task = "set"
    THEN Len(refs) >= NumGrefs(size) /\ NoLoop =>
           /\ \A i \in Present : Entry(i) = refs[i]
           /\ Cardinality(Written) = Cardinality(Present)
    ELSE refs = [i \in 1..Cardinality(Present) |-> Entry(i)]

=============================================================================
