---------------------------- MODULE EdidRequest -----------------------------
(***************************************************************************)
(* A frontend's requests that walk a page directory: to create a display    *)
(* buffer of its own pages ("get") or of the backend's ("set"), and to read *)
(* the EDID of its connector ("edid"): ConnectorBase::getEDID() reads the   *)
(* directory, maps the buffer and makes the block up in it.                 *)
(***************************************************************************)
EXTENDS PageDirectory, Edid

CONSTANTS
  Modes,  \* <<width, height>> of the connector, from the XenStore
  Stale   \* a byte the buffer held before

ASSUME EdidRequestAssumption ==
  /\ Modes \subseteq Nat \X Nat /\ \A m \in Modes : NoWrap(m[1], m[2])
  /\ Stale \in 0..255

VARIABLES
  mode,   \* mCfgWidth, mCfgHeight
  buffer  \* the first bytes of the EDID buffer

evars == <<dvars, mode, buffer>>

EInit ==
  /\ DInit /\ mode \in Modes
  /\ task # "edid" => mode = CHOOSE m \in Modes : TRUE
  /\ buffer = [i \in 1..BlockSize |-> Stale]

Walk == DNext /\ UNCHANGED <<mode, buffer>>

\* Mutant: the buffer keeps what it held.
Block_NotCleared(page, width, height) ==
  putBlockCheckSum(putDisplayDescritor(putDetailedTiming(putTimings(putColorSpace(putEssentials(
    page))), 0, width, height), 1))
Block(page, width, height) ==
  putBlockCheckSum(putDisplayDescritor(putDetailedTiming(putTimings(putColorSpace(putEssentials(
    Cleared(page)))), 0, width, height), 1))

\* getEDID(): no reference is an error; the buffer may not be mapped.
getEDID ==
  /\ pc = "walked" /\ task = "edid"
  /\ \/ /\ refs # <<>> /\ pc' = "answered" /\ buffer' = Block(buffer, mode[1], mode[2])
     \/ pc' = "error" /\ UNCHANGED buffer
  /\ UNCHANGED <<task, size, start, mem, refs, dir, left, pos, mode>>

ENext == Walk \/ getEDID

ESpec == EInit /\ [][ENext]_evars

-----------------------------------------------------------------------------
(***************************************************************************)
(* What a frontend reads when its request is answered is an EDID block      *)
(* whose checksum holds, whatever the buffer held before: one mode, the     *)
(* connector's, at 60 Hz, one name, and no more descriptors or blocks       *)
(* (ConnectorBase::getEDID(), namespace Edid).  Said of modes the fields    *)
(* can hold: 12 bits of size and 16 bits of clock.                          *)
(***************************************************************************)
Representable(m) == m[1] < 4096 /\ m[2] < 4096 /\ PixelClock(m[1], m[2]) < 65536

EdidDescribesConnector ==
  pc = "answered" =>
    /\ IsBlock(buffer)
    /\ Representable(mode) =>
         IsMode(Decoded(Descriptor(buffer, 0)), mode[1], mode[2], RefreshRateHz)
    /\ SubSeq(Descriptor(buffer, 1), 1, 5) = <<0, 0, 0, 252, 0>>
    /\ Empty(Descriptor(buffer, 2)) /\ Empty(Descriptor(buffer, 3)) /\ buffer[127] = 0

=============================================================================
