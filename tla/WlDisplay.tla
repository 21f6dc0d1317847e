----------------------------- MODULE WlDisplay ------------------------------
(***************************************************************************)
(* Wayland::Display: the connection to the compositor.  The main thread     *)
(* makes it and learns what the compositor offers from one dispatch and one *)
(* round trip; the dispatch thread then handles events until it is stopped; *)
(* the control rings choose the classes of their connectors and buffers by  *)
(* what was learnt, send requests, and one of them, a shell connector,      *)
(* makes a round trip of its own beside the dispatch thread.                *)
(*                                                                          *)
(* A ring creates one buffer and configures its connector once.  Everything *)
(* the compositor offers is announced before it answers the first round     *)
(* trip: no interface appears later.  The input frontend of a connector has *)
(* the name of its ring.                                                    *)
(***************************************************************************)
EXTENDS Naturals, FiniteSets, Sequences, SequencesExt

CONSTANTS
  Rings,   \* the control rings, and the connectors
  Offers,  \* the sets of interfaces a compositor may offer
  None

Dispatcher == "dispatcher"

ASSUME WlDisplayAssumption ==
  /\ Dispatcher \notin Rings /\ None \notin {"drm", "kms", "dmabuf", "shm"}
  /\ \A offer \in Offers : IsFiniteSet(offer)

ZCopy == <<"drm", "kms", "dmabuf">>  \* in the order Display prefers them
Roles == <<"ivi", "shell">>

VARIABLES
  world,    \* what does not change: see Worlds
  plugged,  \* the seat has a keyboard
  lost,     \* "no", or how poll() sees the end of the connection: "readable", "error"
  inq,      \* requests the compositor has not handled
  wire,     \* events it sent and nobody has read
  inbox,    \* the default queue: events read and not dispatched
  client,   \* what the handlers and the threads keep: see Clients
  main,     \* where the main thread is
  dpc,      \* where dispatchThread() is
  rpc,      \* [Rings -> where the control ring is]
  handling, \* [threads -> the event it is in the handler of, or None]
  readers,  \* the threads between prepare_read and read_events
  con, db, fb, \* [Rings -> class of the connector, display buffer, frame buffer]
  early,    \* rings that attached a buffer to a surface not configured
  denied,   \* the interfaces a ring was refused although the compositor offers them
  first,    \* what the first dispatch has learnt of
  killed,   \* the process has sent itself SIGTERM
  stopping  \* PollFd::stop()

vars == <<world, plugged, lost, inq, wire, inbox, client, main, dpc, rpc, handling,
          readers, con, db, fb, early, denied, first, killed, stopping>>
known == <<world, first>>
compositor == <<plugged, lost>>
queues == <<inq, wire, inbox>>
rings == <<rpc, con, db, fb, early, denied>>

\* offer: the interfaces; whole: the first read brings them all; noZCopy: option
\* -z; had: the keyboard is there from the start.
Worlds == {w \in [offer : Offers, whole : BOOLEAN, noZCopy : BOOLEAN, had : BOOLEAN] :
             /\ w.noZCopy => w.offer \cap Range(ZCopy) # {}
             /\ w.had => "seat" \in w.offer}
ItfSet == UNION Offers
Gone == lost # "no"
Threads == Rings \cup {Dispatcher}
Classes == ItfSet \cup {"plain", None}
Clients == [made : SUBSET (ItfSet \cup {"keyboard"}), formats : SUBSET ItfSet, devices : SUBSET ItfSet,
            auth : SUBSET ItfSet, heard : SUBSET Rings, done : SUBSET (Rings \cup {"main"}),
            acked : SUBSET Rings, out : Seq(Seq(STRING \cup Rings))]

-----------------------------------------------------------------------------
(***************************************************************************)
(* The compositor: requests in, events out, both in order.                  *)
(***************************************************************************)
OnBind(i) == CASE i = "shm"             -> << <<"format", i>> >>
               [] i \in {"drm", "kms"}  -> << <<"device", i>>, <<"format", i>> >>
               [] i = "dmabuf"          -> << <<"modifiers", i>>, <<"format", i>> >>
               [] i = "seat" /\ plugged -> << <<"keyboard", i>> >>
               [] OTHER                 -> <<>>

\* A compositor that configures a new toplevel at once.
AnswerTo(q) == CASE q[1] = "registry" -> [k \in 1..Cardinality(world.offer) |->
                                            <<"global", SetToSeq(world.offer)[k]>>]
                 [] q[1] = "bind"     -> OnBind(q[2])
                 [] q[1] = "sync"     -> << <<"done", q[2]>> >>
                 [] q[1] = "toplevel" -> << <<"configure", q[2]>> >>
                 [] q[1] = "auth"     -> << <<"authenticated", q[2]>> >>
                 [] OTHER             -> <<>>

Answer ==
  /\ ~Gone /\ inq # <<>>
  /\ wire' = wire \o AnswerTo(Head(inq)) /\ inq' = Tail(inq)
  /\ UNCHANGED <<known, compositor, inbox, client, main, dpc, rings, handling, readers,
                 killed, stopping>>

\* A keyboard is plugged in, at most once.
PlugIn ==
  /\ "seat" \in world.offer /\ ~Gone /\ ~plugged
  /\ plugged' = TRUE
  /\ wire' = IF "seat" \in client.made /\ <<"bind", "seat">> \notin Range(inq \o client.out)
               THEN Append(wire, <<"keyboard", "seat">>) ELSE wire
  /\ UNCHANGED <<known, lost, inq, inbox, client, main, dpc, rings, handling, readers,
                 killed, stopping>>

Leave ==
  /\ ~Gone /\ main # "connect" /\ lost' \in {"readable", "error"}
  /\ UNCHANGED <<known, plugged, queues, client, main, dpc, rings, handling, readers,
                 killed, stopping>>

-----------------------------------------------------------------------------
(***************************************************************************)
(* The handlers: what one event does to the client.                         *)
(***************************************************************************)
\* The requests without an answer, among them the commits, are left out.
Send(c, q) == [c EXCEPT !.out = Append(@, q)]
Answered == {"shm", "drm", "kms", "dmabuf", "seat"}

\* Display::registryHandler(): the dmabuf protocol has no device event, its
\* constructor looks for the device itself.
registryHandler(c, i) ==
  IF world.noZCopy /\ i \in Range(ZCopy) THEN c
  ELSE [c EXCEPT !.made = @ \cup {i},
                 !.devices = IF i = "dmabuf" THEN @ \cup {i} ELSE @,
                 !.out = IF i \in Answered THEN Append(@, <<"bind", i>>) ELSE @]

onDevice(c, i) == Send([c EXCEPT !.devices = @ \cup {i}], <<"auth", i>>)
onFormat(c, i) == [c EXCEPT !.formats = @ \cup {i}]
onAuthenticated(c, i) == [c EXCEPT !.auth = @ \cup {i}]
readCapabilities(c) == IF "keyboard" \in c.made THEN c
                       ELSE [c EXCEPT !.made = @ \cup {"keyboard"}]
handleSurfaceConfiguration(c, r) == [c EXCEPT !.acked = @ \cup {r}]

\* A format announced with modifiers is ignored.
Effect(c, e) == CASE e[1] = "global"        -> registryHandler(c, e[2])
                  [] e[1] = "device"        -> onDevice(c, e[2])
                  [] e[1] = "format"        -> onFormat(c, e[2])
                  [] e[1] = "modifiers"     -> c
                  [] e[1] = "authenticated" -> onAuthenticated(c, e[2])
                  [] e[1] = "keyboard"      -> readCapabilities(c)
                  [] e[1] = "configure"     -> handleSurfaceConfiguration(c, e[2])
                  [] e[1] = "done"          -> [c EXCEPT !.done = @ \cup {e[2]}]

\* Event after event.
Effects(c, events) == LET after[i \in 0..Len(events)] ==
                            IF i = 0 THEN c ELSE Effect(after[i - 1], events[i])
                      IN  after[Len(events)]

\* wl_display_flush(): the errors are lost, see Display::flush().
Flushed == /\ inq' = IF Gone THEN inq ELSE inq \o client.out
           /\ client' = [client EXCEPT !.out = <<>>]

-----------------------------------------------------------------------------
(***************************************************************************)
(* Display::init() in the main thread, which has the connection to itself.  *)
(***************************************************************************)
NoClient == [made |-> {}, formats |-> {}, devices |-> {}, auth |-> {}, heard |-> {},
             done |-> {}, acked |-> {}, out |-> <<>>]

Init ==
  /\ world \in Worlds /\ plugged = world.had /\ lost = "no"
  /\ inq = << <<"registry", "main">> >> /\ wire = <<>> /\ inbox = <<>>
  /\ client = NoClient
  /\ main = "connect" /\ dpc = "off" /\ rpc = [r \in Rings |-> "new"]
  /\ handling = [t \in Threads |-> None] /\ readers = {}
  /\ con = [r \in Rings |-> None] /\ db = con /\ fb = con
  /\ early = {} /\ denied = {} /\ first = {} /\ killed = FALSE /\ stopping = FALSE

\* wl_display_dispatch(): what the first read brings.
Connect ==
  /\ main = "connect" /\ wire # <<>>
  /\ world.whole => inq = <<>>
  /\ \E n \in 1..Len(wire) :
       /\ world.whole => n = Len(wire)
       /\ client' = Effects(client, SubSeq(wire, 1, n))
       /\ wire' = SubSeq(wire, n + 1, Len(wire))
  /\ main' = "sync" /\ first' = client'.made
  /\ UNCHANGED <<world, compositor, inq, inbox, dpc, rings, handling, readers, killed, stopping>>

\* wl_display_roundtrip(): its request, and the events up to the answer.
Sync ==
  /\ main = "sync" /\ main' = "roundtrip"
  /\ inq' = inq \o Append(client.out, <<"sync", "main">>)
  /\ client' = [client EXCEPT !.out = <<>>]
  /\ UNCHANGED <<known, compositor, wire, inbox, dpc, rings, handling, readers, killed, stopping>>

\* Mutant: nothing waits for the answers.
Roundtrip_Skipped ==
  /\ main = "roundtrip"
  /\ main' = IF "compositor" \in client.made THEN "ready" ELSE "failed"
  /\ UNCHANGED <<known, compositor, queues, client, dpc, rings, handling, readers, killed, stopping>>
Roundtrip ==
  /\ main = "roundtrip" /\ (wire # <<>> \/ Gone)
  /\ LET c == Effects(client, wire)
         over == "main" \in c.done \/ wire = <<>>
     IN  /\ client' = [c EXCEPT !.out = IF over THEN @ ELSE <<>>]
         /\ inq' = IF over THEN inq ELSE inq \o c.out
         /\ main' = IF ~over THEN main
                    ELSE IF "compositor" \in c.made THEN "ready" ELSE "failed"
  /\ wire' = <<>>
  /\ UNCHANGED <<known, compositor, inbox, dpc, rings, handling, readers, killed, stopping>>

\* Display::start(), by the display backend.
Start ==
  /\ main = "ready" /\ main' = "run" /\ dpc' = "loop"
  /\ UNCHANGED <<known, compositor, queues, client, rings, handling, readers, killed, stopping>>

\* waitSignals(): a signal of the user's, or the process's own.
Signal ==
  /\ main = "run" /\ main' = "stop"
  /\ UNCHANGED <<known, compositor, queues, client, dpc, rings, handling, readers, killed, stopping>>
SignalOwn == killed /\ Signal

\* The backends join their rings; the last reference to the display is dropped.
Stop ==
  /\ main = "stop" /\ \A r \in Rings : rpc[r] \in {"new", "idle"}
  /\ main' = "join" /\ stopping' = TRUE
  /\ UNCHANGED <<known, compositor, queues, client, dpc, rings, handling, readers, killed>>

Join ==
  /\ main = "join" /\ dpc = "ended" /\ main' = "done"
  /\ UNCHANGED <<known, compositor, queues, client, dpc, rings, handling, readers, killed, stopping>>

-----------------------------------------------------------------------------
(***************************************************************************)
(* libwayland for two threads: an event is taken from the queue under the   *)
(* lock of the connection, its handler runs without it; the threads that    *)
(* prepared a read wait for each other before they read.                    *)
(***************************************************************************)
\* t is in wl_display_dispatch_pending().
Dispatching(t) == IF t = Dispatcher THEN dpc = "loop" ELSE rpc[t] = "roundtrip" /\ t \notin readers

Take(t) ==
  /\ Dispatching(t) /\ handling[t] = None /\ inbox # <<>>
  /\ handling' = [handling EXCEPT ![t] = Head(inbox)] /\ inbox' = Tail(inbox)
  /\ UNCHANGED <<known, compositor, inq, wire, client, main, dpc, rings, readers, killed, stopping>>

Handle(t) ==
  /\ handling[t] # None
  /\ client' = Effect(client, handling[t])
  /\ handling' = [handling EXCEPT ![t] = None]
  /\ UNCHANGED <<known, compositor, queues, main, dpc, rings, readers, killed, stopping>>

\* wl_display_read_events(), when every reader has come to it.
Read ==
  /\ readers # {}
  /\ Dispatcher \in readers => dpc = "poll" /\ lost # "error"
  /\ wire # <<>> \/ Gone
  /\ inbox' = inbox \o wire /\ wire' = <<>> /\ readers' = {}
  /\ dpc' = IF Dispatcher \in readers THEN "loop" ELSE dpc
  /\ rpc' = [r \in Rings |-> IF r \in readers /\ wire = <<>> THEN "draw" ELSE rpc[r]]
  /\ UNCHANGED <<known, compositor, inq, client, main, handling, con, db, fb, early, denied,
                 killed, stopping>>

-----------------------------------------------------------------------------
(***************************************************************************)
(* dispatchThread().                                                        *)
(***************************************************************************)
\* Mutant: the events are waited for without sending what the handlers asked.
PrepareRead_NoFlush ==
  /\ dpc = "loop" /\ handling[Dispatcher] = None /\ inbox = <<>>
  /\ readers' = readers \cup {Dispatcher} /\ dpc' = "poll"
  /\ UNCHANGED <<known, compositor, queues, client, main, rings, handling, killed, stopping>>
PrepareRead ==
  /\ dpc = "loop" /\ handling[Dispatcher] = None /\ inbox = <<>>
  /\ readers' = readers \cup {Dispatcher} /\ dpc' = "poll" /\ Flushed
  /\ UNCHANGED <<known, compositor, wire, inbox, main, rings, handling, killed, stopping>>

\* The descriptor of PollFd::stop() is looked at first.
Terminate ==
  /\ dpc = "poll" /\ stopping /\ dpc' = "cancel"
  /\ UNCHANGED <<known, compositor, queues, client, main, rings, handling, readers, killed, stopping>>

\* poll() throws, or wl_display_dispatch_pending() fails: the handler of the
\* exception logs the error and sends SIGTERM.
Broken == Gone /\ \/ dpc = "poll" /\ lost = "error"
                  \/ dpc = "loop" /\ handling[Dispatcher] = None /\ inbox # <<>>

\* Mutant: the thread ends, the process goes on without it.
Catch_Quietly ==
  /\ Broken /\ dpc' = "cancel"
  /\ UNCHANGED <<known, compositor, queues, client, main, rings, handling, readers, killed, stopping>>
Catch ==
  /\ Broken /\ dpc' = "cancel" /\ killed' = TRUE
  /\ UNCHANGED <<known, compositor, queues, client, main, rings, handling, readers, stopping>>

\* The thread ends and cancels its read.  It does so too behind a dispatch that
\* failed, where it has prepared none and the call does nothing.
CancelRead ==
  /\ dpc = "cancel" /\ dpc' = "ended" /\ readers' = readers \ {Dispatcher}
  /\ UNCHANGED <<known, compositor, queues, client, main, rings, handling, killed, stopping>>

-----------------------------------------------------------------------------
(***************************************************************************)
(* The control rings.  Each call below is made under Display::mMutex, which *)
(* the dispatch thread never takes.                                         *)
(***************************************************************************)
\* The first of a list of interfaces that the compositor offers.
FirstOf(order, other) ==
  LET made == {k \in DOMAIN order : order[k] \in client.made}
  IN  IF made = {} THEN other ELSE order[Min(made)]

RoleOf == FirstOf(Roles, "plain")
DisplayBufferOf == FirstOf(Append(ZCopy, "shm"), None)
\* Mutant: shared memory is looked for first.
FrameBufferOf_ShmFirst == FirstOf(<<"shm">> \o ZCopy, None)
FrameBufferOf == FirstOf(Append(ZCopy, "shm"), None)

\* Refused although the compositor offers it.
Deny(wanted) == denied' = denied \cup (wanted \cap world.offer)

\* createConnector(), when the frontend binds.
createConnector(r) ==
  /\ main = "run" /\ rpc[r] = "new"
  /\ con' = [con EXCEPT ![r] = RoleOf] /\ rpc' = [rpc EXCEPT ![r] = "idle"]
  /\ UNCHANGED <<known, compositor, queues, client, main, dpc, handling, readers, db, fb, early,
                 denied, killed, stopping>>

\* createDisplayBuffer() with grant references, and createDumb().
createDisplayBuffer(r) ==
  /\ main = "run" /\ rpc[r] = "idle" /\ db[r] = None
  /\ LET i == DisplayBufferOf
     IN  IF i = None \/ (i # "shm" /\ i \notin client.devices)
           THEN Deny({IF i = None THEN "shm" ELSE i}) /\ UNCHANGED <<db, inq, client>>
           ELSE db' = [db EXCEPT ![r] = i] /\ Flushed /\ UNCHANGED denied
  /\ UNCHANGED <<known, compositor, wire, inbox, main, dpc, handling, readers, rpc, con, fb, early,
                 killed, stopping>>

\* createFrameBuffer(), in a format the compositor supports.
createFrameBuffer(r) ==
  /\ main = "run" /\ rpc[r] = "idle" /\ db[r] # None /\ fb[r] = None
  /\ LET i == FrameBufferOf
     IN  IF i \notin client.formats
           THEN Deny({i}) /\ UNCHANGED <<fb, inq, client>>
           ELSE fb' = [fb EXCEPT ![r] = i] /\ Flushed /\ UNCHANGED denied
  /\ UNCHANGED <<known, compositor, wire, inbox, main, dpc, handling, readers, rpc, con, db, early,
                 killed, stopping>>

\* Connector::init(): a shell surface first makes a toplevel and a round trip.
configure(r) ==
  /\ main = "run" /\ rpc[r] = "idle" /\ fb[r] # None /\ r \notin client.done
  /\ IF con[r] = "shell"
       THEN /\ client' = Send(Send(client, <<"toplevel", r>>), <<"sync", r>>)
            /\ rpc' = [rpc EXCEPT ![r] = "roundtrip"]
       ELSE /\ client' = [client EXCEPT !.done = @ \cup {r}]
            /\ rpc' = [rpc EXCEPT ![r] = "draw"]
  /\ UNCHANGED <<known, compositor, queues, main, dpc, handling, readers, con, db, fb, early,
                 denied, killed, stopping>>

\* The round trip of r, between two dispatches: over, or one more read.
Again(r) == rpc[r] = "roundtrip" /\ r \notin readers /\ handling[r] = None

Returned(r) ==
  /\ Again(r) /\ r \in client.done /\ rpc' = [rpc EXCEPT ![r] = "draw"]
  /\ UNCHANGED <<known, compositor, queues, client, main, dpc, handling, readers, con, db, fb,
                 early, denied, killed, stopping>>

Wait(r) ==
  /\ Again(r) /\ r \notin client.done /\ inbox = <<>>
  /\ readers' = readers \cup {r} /\ Flushed
  /\ UNCHANGED <<known, compositor, wire, inbox, main, dpc, rings, handling, killed, stopping>>

\* Surface::draw(): attach and commit; processCommand() flushes after a command.
draw(r) ==
  /\ rpc[r] = "draw" /\ rpc' = [rpc EXCEPT ![r] = "idle"]
  /\ early' = IF con[r] = "shell" /\ r \notin client.acked /\ ~Gone THEN early \cup {r} ELSE early
  /\ Flushed
  /\ UNCHANGED <<known, compositor, wire, inbox, main, dpc, handling, readers, con, db, fb, denied,
                 killed, stopping>>

\* The input frontend of r: the callbacks are dropped when there is no keyboard.
setInputCallbacks(r) ==
  /\ main = "run" /\ r \notin client.heard
  /\ IF {"seat", "keyboard"} \subseteq client.made
       THEN client' = [client EXCEPT !.heard = @ \cup {r}] /\ UNCHANGED denied
       ELSE Deny(IF world.had THEN {"seat"} ELSE {}) /\ UNCHANGED client
  /\ UNCHANGED <<known, compositor, queues, main, dpc, handling, readers, rpc, con, db, fb, early,
                 killed, stopping>>

-----------------------------------------------------------------------------
Next ==
  \/ Answer \/ PlugIn \/ Leave
  \/ Connect \/ Sync \/ Roundtrip \/ Start \/ Signal \/ Stop \/ Join
  \/ Read \/ PrepareRead \/ Terminate \/ Catch \/ CancelRead
  \/ \E t \in Threads : Take(t) \/ Handle(t)
  \/ \E r \in Rings :
       \/ createConnector(r) \/ createDisplayBuffer(r) \/ createFrameBuffer(r) \/ configure(r)
       \/ Returned(r) \/ Wait(r) \/ draw(r)
       \/ setInputCallbacks(r)

Spec == Init /\ [][Next]_vars

Main == Connect \/ Sync \/ Roundtrip \/ Start \/ SignalOwn \/ Stop \/ Join
Dispatch == \/ Take(Dispatcher) \/ Handle(Dispatcher) \/ PrepareRead
            \/ Terminate \/ Catch \/ CancelRead
Command(r) == Take(r) \/ Handle(r) \/ Returned(r) \/ Wait(r) \/ draw(r)

\* The compositor answers and every thread runs; nobody needs to ask for anything.
Fairness == /\ WF_vars(Answer) /\ WF_vars(Read) /\ WF_vars(Main) /\ WF_vars(Dispatch)
            /\ \A r \in Rings : WF_vars(Command(r))

FairSpec == Spec /\ Fairness

-----------------------------------------------------------------------------
\* Types, and who is where: a thread is in a handler, or a reader, only where
\* the code has it.
TypeOK ==
  /\ world \in Worlds /\ plugged \in BOOLEAN /\ lost \in {"no", "readable", "error"}
  /\ main \in {"connect", "sync", "roundtrip", "ready", "failed", "run", "stop", "join", "done"}
  /\ dpc \in {"off", "loop", "poll", "cancel", "ended"}
  /\ rpc \in [Rings -> {"new", "idle", "roundtrip", "draw"}]
  /\ readers \subseteq Threads /\ early \subseteq Rings
  /\ denied \subseteq ItfSet /\ first \subseteq ItfSet \cup {"keyboard"}
  /\ con \in [Rings -> Classes] /\ db \in [Rings -> Classes] /\ fb \in [Rings -> Classes]
  /\ killed \in BOOLEAN /\ stopping \in BOOLEAN
  /\ Dispatcher \in readers => dpc \in {"poll", "cancel"}
  /\ handling[Dispatcher] # None => dpc = "loop"
  /\ \A r \in Rings : r \in readers \/ handling[r] # None => rpc[r] = "roundtrip"

(***************************************************************************)
(* One dispatch and one round trip are enough for what the dispatch has     *)
(* learnt of, whatever part of the globals it read: the answers to those    *)
(* bindings, the formats, the device of a zero copy protocol and the        *)
(* devices of the seat, are handled before anything is asked of the         *)
(* display (Display::init, lines 519-520), and a frontend is refused none   *)
(* of these interfaces.  When the dispatch read every global it is refused  *)
(* nothing the compositor offers; what came after a first read that was     *)
(* split is the only thing the code may refuse.                             *)
(***************************************************************************)
NobodyDenied == Gone \/ (denied \cap first = {} /\ (world.whole => denied = {}))

(***************************************************************************)
(* The types hold; a frame buffer is made by the protocol whose class its   *)
(* display buffer has, or it would ask a shared file for a DRM handle; and  *)
(* all connectors are of one class.  createDisplayBuffer(),                 *)
(* createFrameBuffer() and createConnector() choose each for itself, at     *)
(* another time.                                                            *)
(***************************************************************************)
OneOfAKind ==
  /\ TypeOK
  /\ \A r \in Rings : /\ fb[r] # None => fb[r] = db[r]
                      /\ \A s \in Rings : con[r] # None /\ con[s] # None => con[r] = con[s]

(***************************************************************************)
(* A zero copy protocol that has told its device is authenticated, although *)
(* the request is queued by a handler, with no command to flush it: the     *)
(* dispatch thread flushes before it waits (dispatchThread, line 617).      *)
(***************************************************************************)
Telling == client.devices \ {"dmabuf"}
AuthenticationAnswered ==
  (main = "run" /\ Telling # {}) ~> (Telling \subseteq client.auth \/ Gone \/ main # "run")

(***************************************************************************)
(* When the connection is lost the process ends itself, where poll() takes  *)
(* the loss for an error (dispatchThread, line 636).                        *)
(***************************************************************************)
LossNoticed == (lost = "error" /\ main = "run") ~> (main # "run")

(***************************************************************************)
(* A shell surface is configured when its first buffer is attached: "At     *)
(* this point of time we submitted surface configuration and will block     *)
(* until the compositor process all of it and provides feedback"            *)
(* (Connector.hpp, lines 130-131).                                          *)
(***************************************************************************)
FeedbackBeforeDraw == early = {}

=============================================================================
