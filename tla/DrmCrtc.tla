------------------------------- MODULE DrmCrtc -------------------------------
(***************************************************************************)
(* CRTC assignment among the DRM connectors of the process                 *)
(* (drm/Connector.cpp: init, release, findCrtcId).                         *)
(*                                                                         *)
(* Every connector has its own control ring thread.  SET_CONFIG on it runs *)
(* DisplayCommandHandler::setConfig: release() when the connector is       *)
(* initialized, then the look-up of the frame buffer, then init().  init() *)
(* and release() hold the static sMutex, but not across the two, so each   *)
(* is one action and connectors interleave between them.  The static list  *)
(* sCrtcIds keeps the CRTCs in use; the kernel knows which CRTC drives a   *)
(* connector.                                                              *)
(***************************************************************************)
EXTENDS Naturals, FiniteSets

CONSTANTS
  Connectors,    \* the connectors, all of them plugged in
  Crtcs,         \* the CRTCs of the card
  NoCrtc,        \* cInvalidId
  Possible,      \* the CRTCs the encoders of a connector can be driven by
  HasEncoder     \* connectors whose encoder_id was set when they were created

ASSUME CrtcAssumption ==
  /\ NoCrtc \notin Crtcs
  /\ Possible \in [Connectors -> SUBSET Crtcs]
  /\ HasEncoder \subseteq Connectors

VARIABLES
  setting,   \* ring thread of a connector: idle, or inside setConfig()
  crtc,      \* mCrtcId
  saved,     \* crtc_id of *mSavedCrtc, NoCrtc for the null pointer
  crtcIds,   \* sCrtcIds
  bound,     \* kernel: the CRTC that drives the connector
  failed     \* history: an init() has thrown after it had picked a CRTC

cvars == <<setting, crtc, saved, crtcIds, bound, failed>>

MaybeCrtc == Crtcs \cup {NoCrtc}

\* The console may have left any wiring behind.
CInit ==
  /\ setting = [c \in Connectors |-> "idle"]
  /\ crtc = [c \in Connectors |-> NoCrtc]
  /\ saved = [c \in Connectors |-> NoCrtc]
  /\ crtcIds = {}
  /\ bound \in {b \in [Connectors -> MaybeCrtc] :
                  \A c \in Connectors :
                    /\ b[c] \in Possible[c] \cup {NoCrtc}
                    /\ b[c] # NoCrtc => c \in HasEncoder
                    /\ \A d \in Connectors \ {c} : b[c] # NoCrtc => b[d] # b[c]}
  /\ failed = FALSE

-----------------------------------------------------------------------------
IsInitialized(c) == crtc[c] # NoCrtc

\* drmModeSetCrtc(): x drives c from now on and no other connector.
Driven(c, x) ==
  [d \in Connectors |-> IF d = c THEN x
                        ELSE IF bound[d] = x THEN NoCrtc
                        ELSE bound[d]]

\* getAssignedCrtcId(): the CRTC the connector's encoder is already on, if no
\* other connector uses it.
Assigned(c) ==
  IF c \in HasEncoder /\ bound[c] \notin crtcIds THEN bound[c] ELSE NoCrtc

\* Mutant: a CRTC in use is not skipped.
FindCrtc_Greedy(c) ==
  IF Assigned(c) # NoCrtc THEN {Assigned(c)} ELSE Possible[c]

\* findCrtcId(): the assigned CRTC, otherwise one of the free CRTCs that fit.
\* The code takes the first in the card's order.
FindCrtc(c) ==
  IF Assigned(c) # NoCrtc THEN {Assigned(c)} ELSE Possible[c] \ crtcIds

-----------------------------------------------------------------------------
\* Mutant: the CRTC is not put back on the list of free ones.
Release_KeepsReserved(c) ==
  /\ crtcIds' = crtcIds
  /\ crtc' = [crtc EXCEPT ![c] = NoCrtc]
  /\ bound' = IF saved[c] = NoCrtc THEN bound ELSE Driven(c, saved[c])
  /\ saved' = [saved EXCEPT ![c] = NoCrtc]

\* Mutant: the saved CRTC is set again at every later release.
Release_KeepsSaved(c) ==
  /\ crtcIds' = crtcIds \ {crtc[c]}
  /\ crtc' = [crtc EXCEPT ![c] = NoCrtc]
  /\ bound' = IF saved[c] = NoCrtc THEN bound ELSE Driven(c, saved[c])
  /\ saved' = saved

\* Connector::release(): the CRTC is given up and its old configuration set
\* again, on this connector.
Release(c) ==
  /\ crtcIds' = crtcIds \ {crtc[c]}
  /\ crtc' = [crtc EXCEPT ![c] = NoCrtc]
  /\ bound' = IF saved[c] = NoCrtc THEN bound ELSE Driven(c, saved[c])
  /\ saved' = [saved EXCEPT ![c] = NoCrtc]

\* SET_CONFIG without a frame buffer, or ~Connector.
SetConfigOff(c) ==
  /\ setting[c] = "idle"
  /\ Release(c)
  /\ UNCHANGED <<setting, failed>>

\* SET_CONFIG with a frame buffer, up to init().
SetConfigOn(c) ==
  /\ setting[c] = "idle"
  /\ setting' = [setting EXCEPT ![c] = "init"]
  /\ IF IsInitialized(c) THEN Release(c) ELSE UNCHANGED <<crtc, saved, crtcIds, bound>>
  /\ UNCHANGED failed

\* getFrameBufferAndCopy() throws: init() is not reached, or init() finds no
\* CRTC.  The connector stays released.
SetConfigFails(c) ==
  /\ setting[c] = "init"
  /\ setting' = [setting EXCEPT ![c] = "idle"]
  /\ UNCHANGED <<crtc, saved, crtcIds, bound, failed>>

\* init() throws after mCrtcId was assigned: no such mode, or the kernel
\* refuses the configuration.
InitFails(c) ==
  /\ setting[c] = "init"
  /\ setting' = [setting EXCEPT ![c] = "idle"]
  /\ \E x \in FindCrtc(c) :
        /\ crtc' = [crtc EXCEPT ![c] = x]
        /\ \/ UNCHANGED saved
           \/ saved' = [saved EXCEPT ![c] = x]
  /\ failed' = TRUE
  /\ UNCHANGED <<crtcIds, bound>>

\* init() finds a CRTC and a mode and the kernel sets it.
InitConnector(c) ==
  /\ setting[c] = "init"
  /\ setting' = [setting EXCEPT ![c] = "idle"]
  /\ \E x \in FindCrtc(c) :
        /\ crtc' = [crtc EXCEPT ![c] = x]
        /\ saved' = [saved EXCEPT ![c] = x]
        /\ crtcIds' = crtcIds \cup {x}
        /\ bound' = Driven(c, x)
  /\ UNCHANGED failed

CNext ==
  \E c \in Connectors :
    \/ SetConfigOff(c)
    \/ SetConfigOn(c)
    \/ SetConfigFails(c)
    \/ InitFails(c)
    \/ InitConnector(c)

CSpec == CInit /\ [][CNext]_cvars

-----------------------------------------------------------------------------
(* Safety *)

\* Types of the variables; cInvalidId is never a CRTC in use.
CTypeOK ==
  /\ setting \in [Connectors -> {"idle", "init"}]
  /\ crtc \in [Connectors -> MaybeCrtc]
  /\ saved \in [Connectors -> MaybeCrtc]
  /\ crtcIds \subseteq Crtcs
  /\ bound \in [Connectors -> MaybeCrtc]
  /\ failed \in BOOLEAN

\* As long as init() does not fail late, no two connectors use one CRTC.
CrtcExclusive ==
  ~failed =>
    \A c, d \in Connectors : c # d /\ IsInitialized(c) => crtc[c] # crtc[d]

\* What Connector.hpp says of isInitialized(): the connector is initialized
\* and a CRTC is assigned, that is, entered in sCrtcIds.
InitializedIsReserved ==
  \A c \in Connectors : IsInitialized(c) => crtc[c] \in crtcIds

\* A CRTC that no initialized connector uses can be had again: whatever failed,
\* the list holds nothing else.
NoCrtcLost ==
  \A x \in crtcIds : \E c \in Connectors : crtc[c] = x

\* What the other connectors do, configuring themselves or restoring what was
\* there before them, never takes the CRTC of a working connector away, as long
\* as init() does not fail late.
ScanoutKept ==
  ~failed => \A c \in Connectors : IsInitialized(c) => bound[c] = crtc[c]

=============================================================================
