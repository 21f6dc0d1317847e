# Verification of displ_be

`displ_be` is a Xen para-virtual display and input backend. A frontend driver in
another domain sends requests over shared rings; the backend shows its buffers on
DRM connectors or Wayland surfaces and sends page flip and input events back.
This directory holds TLA+ models of the parts whose correctness depends on
interleaving, on failures half way and on long sequences of requests, the TLC
runs that check them, and theorems that TLAPS proves about them.

All paths below are relative to `src/src/`.

## The system

Threads. Every connector has a *control ring* thread (libxenbe) that executes the
frontend's requests one at a time. A Wayland build adds the *dispatch thread* of
`Wayland::Display`, which runs all listeners of the compositor's events, and one
thread `Surface::run()` per surface. A DRM build adds the *event thread* of
`Drm::Display`, which runs page flip events. Every evdev device has a thread of its
own that reads it. The threads share objects through raw pointers and
`shared_ptr`s, some under a mutex, some without.

| Component | State | Operations | Interacts with | Hard because |
|---|---|---|---|---|
| Command handler (`displayBackend/DisplayCommandHandler.cpp`) | connector, buffers storage, event id | one per request: create/destroy display buffer, attach/detach frame buffer, set configuration, page flip, EDID | storage, connector; binds itself into flip callbacks | requests in any order, each may fail half way; callback runs on another thread |
| Buffers storage (`BuffersStorage.cpp`) | display buffers and frame buffers by cookie, pending display buffers | create, destroy, attach, detach, look-up | display (allocation), connector through the handler | cookies are reused; creation is postponed until the first attach; failure leaves partial state |
| DRM connector (`drm/Connector.cpp`) | `mCrtcId`, saved CRTC, `mFlipPending`, `mFlipCallback`; the list `sCrtcIds` of all connectors | init, release, pageFlip, flipFinished, destructor | kernel, event thread | fields shared with the event thread without a lock; CRTCs shared by connectors |
| DRM display (`drm/Display.cpp`) | event thread | handleFlipEvent | connectors, by raw pointer | event may outlive the connector |
| Wayland connector and surface (`wayland/Connector.cpp`, `wayland/Surface.cpp`) | stored callback, frame callback, wait-for-frame flag, terminate flag | draw, frame event, timeout, clear, stop, release | dispatch thread, compositor, ring thread, `run()` | condition variable without predicate, timeout racing the event, teardown without the lock |
| Wayland frame buffers (`wayland/FrameBuffer.cpp`) | surface the buffer is on | setSurface, released by the compositor, destructor | surface, by raw pointer, both locks | two locks taken in two orders; raw pointers both ways |
| Wayland display (`wayland/Display.cpp`, `Registry` and the globals) | the globals made, queues of events and requests | init, dispatch thread, choice of surfaces and buffers | every Wayland component | two threads dispatch one queue; what was announced decides classes |
| Zero copy (`wayland/WaylandZCopy.cpp`, `WaylandDrm/Kms/LinuxDmabuf`) | device, whether it is authenticated | device event, authenticate, createDumb | Wayland display, DRM cards | a request made in a handler needs a flush |
| Seat devices, surface manager (`wayland/SeatDevice.hpp`, `SurfaceManager.cpp`, `SeatTouch.cpp`, ...) | callbacks by connector and by surface, current callback; surfaces, subscribers | set/clear callbacks, surface created/deleted, pointer/touch/keyboard events | ring threads, dispatch thread, each other | two locks taken in two orders; one current surface for all contacts |
| Evdev devices (`inputBackend/input/DevInput.cpp`) | per device: pending axes and keys, slots | evdev events, setCallbacks | reader thread, input ring | protocols A and B in one state machine, callbacks used without the lock |
| Input backend (`inputBackend/InputBackend.cpp`, `input/WlInput.hpp`) | devices and ring of a frontend | bind, unbind, one callback per event | devices, seat, input ring | order of callbacks and ring set-up; a bind that fails half way |
| Page directories (`common/PgDirSharedBuffer.cpp`) | place in a chain of pages | read references, write references | grant tables | chains that end early or loop, sizes at a page's edge |
| EDID (`common/Edid.cpp`) | none | make up a block for the connector's mode | page directory of the request | values split over bytes and nibbles |
| Object lifetimes (every class that owns a handle) | handles | constructor, release, destructor | libwayland, libdrm, kernel | a throw at any step of a constructor |
| Start-up (`main.cpp`, `DisplayBackend.cpp`), mock | modes, handlers | - | - | mostly I/O |

What makes each correct:

- a frontend's view of its cookies, as the answers tell it, is what the storage
  holds; nothing is replaced under its cookie; pages that a careful frontend names once
  are in one display buffer;
- a page flip the backend took is answered by one event, for that flip, in order,
  and the frontend never waits forever, unless drawing it threw half way;
- a connector that works keeps its CRTC, and no CRTC is lost;
- teardown ends, and what still runs when an object goes is known: a handler that was
  already under way, a device that is deleted with its ring;
- input events reach the frontend that owns the surface, and every contact that
  went down comes up;
- no frontend is refused an interface of which the first read of the connection told,
  and a lost connection ends the process;
- nothing is freed twice, before what was made from it (but for listed pairs), or never
  (but for listed leaks), wherever a constructor throws;
- a directory and the buffer behind it agree page by page, and an EDID block says the
  connector's mode.

## The modules

| Module | Models | State <-> code | Actions <-> code |
|---|---|---|---|
| `FlipService` | what `DisplayItf::Connector::pageFlip` promises | flips taken, the flip owed an event, events sent | take, refuse, answer, drop |
| `Surface` | `wayland/Surface.cpp`, `wayland/Connector.cpp` | `stored` = `mStoredCallback`, `frame` = life of `mWlFrameCallback`, `waitForFrame`, `terminate`; program counters of ring thread (`ctl`), dispatch thread and `run()` | `Draw`, `DrawFails` (the three throws), `FrameHandler`, `RunLooks`/`TimedOver`/`FrameTimeout` (the critical sections of `run()`), `Release`, `Clear`, `Stop`, `Join`, `TestFrame`, `DestroyFrame`, `Free` (the steps of `release()`) |
| `DrmFlip` | `drm/Connector.cpp` (flip), `drm/Display.cpp` (event thread) | `flipPending`, `flipCallback`; kernel's flip, events on the descriptor, the event thread's place | `PageFlip`, `StoreCallback`, `Submit` (one field access each), `KernelDone`, `HandleEvent`, `FlipFinished`, `SendFlipEvent`, `Destroy`, `SleepOver`, `Delete` |
| `DrmCrtc` | `drm/Connector.cpp` (init, release, findCrtcId) | per connector `mCrtcId`, saved CRTC; `crtcIds` = `sCrtcIds`; the kernel's routing | `SetConfigOn`, `SetConfigOff`, `SetConfigFails` |
| `ContactSeries` | the touch callbacks of `inputBackend/InputBackend.cpp`, as their receiver sees them | where each contact is, and whether its events came in turn | down, up, motion |
| `DevTouch` | the touch device of `inputBackend/input/DevInput.cpp` | `touch` = the fields of `DevInput<TouchCallbacks>`, `lift` = `i` of the loop that lifts contacts, `stored` = how far `setCallbacks()` is; the screen and the driver are the environment, `told`, `unread` and `more` what is still to come of a frame | `ReadSlot`, `ReadTrackingId`, `ReadPosition`, `ReadMtReport`, `ReadMore`, `ReadReport` (one event each, by the cases of `onEvent()`: `OnSlot`, `OnTrackingId`, ...), `Lift` (one turn of the loop), `Lifted`, `EndFrame` (the part under the lock); `StoreCallback` |
| `SeatRouting` | `wayland/SeatDevice.hpp`, `SurfaceManager.cpp`, `SeatTouch.cpp`, `SeatPointer.cpp`, `SeatKeyboard.cpp` | `surfaces` = `mSurfaces`, `connectorCallbacks`, `surfaceCallbacks`, `current` = `mCurrentCallback`; where each thread is | two steps for each operation that takes both locks (`CreateSurface`/`SurfaceCreated`, `SetConnectorCallbacks`/`ConnectorCallbacksSet`, ...); one for the listeners that take one |
| `BuffersStorage` | `BuffersStorage.cpp` with the requests of `DisplayCommandHandler.cpp` | `mDisplayBuffers`, `mFrameBuffers`, `mPendingDisplayBuffers`; `directory` = whose pages a buffer maps; the frontend's view from the answers | one per request and per way it fails; `Rebind` |
| `WlBuffer` | `wayland/FrameBuffer.cpp` with `Surface::draw`, `clear`, `release` | `cur` = `Surface::mBuffer`, `back` = `WlBuffer::mSurface`, `ref` = the `shared_ptr` of a `pageFlip()`, `slock`, `block`, `storage` = the three locks; `shown` = what the compositor has | `Fetch`, `LockToDraw`, `Link`, `DropReference` (a page flip), `Detach`, `LockToDelete`, `ClearSurface` (`~WlBuffer`), `Close`, `Unlink`, `Closed` (`Surface::release`), `Deliver`, `OnRelease` |
| `WlDisplay` | `wayland/Display.cpp`, its globals, the shell connector's round trip | `client` = what the handlers keep and the output buffer; `wire`, `inbox`, `inq` = the queues between compositor, socket and libwayland; `dpc` = the dispatch thread, `rpc` the rings | `Connect`, `Sync`, `Roundtrip` (`init()`), `Take`/`Handle` (an event), `PrepareRead`, `Read`, `Terminate`, `Catch`, `CancelRead` (`dispatchThread()`), `createConnector`, `createDisplayBuffer`, `createFrameBuffer`, `configure`, `draw` |
| `Steps`, `Ownership` | what any class does to the resources it owns | a class is three sequences of steps; `held` = what exists, `handle` = what its pointers name | one step of a constructor, an unwinding, a destructor or a release |
| `Resources` | the constructors, `init()`, `release()` and destructors of 35 classes and functions | a table per class, in the order of the code | run by `Ownership` |
| `PageDirectory` | `common/PgDirSharedBuffer.cpp` | `mem` = the frontend's pages, `dir` = `startDirectory`, `left` = `requestedNumGrefs`, `pos` = `grefs` | `pgDirGetBufferRefs`, `pgDirSetBufferRefs` (one page each), `MapFails` |
| `Edid`, `EdidRequest` | `common/Edid.cpp`; `ConnectorBase::getEDID()` | an operator per function, a block is 128 bytes; `buffer` = the frontend's | `getEDID` behind a walk of `PageDirectory` |
| `DevPointer` | the pointer device of `DevInput.cpp` | `rel`, `wheel`, `abs` and `send...` = its fields (one axis of each kind) | `onRelEvent`, `onAbsEvent`, `onSynEvent`, `setCallbacks` |
| `InputBind` | `InputBackend.cpp` (bind, ring), `input/WlInput.hpp`, opening and closing of `DevInput` | `dev` = the devices of a frontend, `heard` = evdev devices with callbacks, `store` = the callbacks of the seat by connector; where readers and the dispatch thread are | `Parse`, `Create`, `MapRing`, `InputRingBuffer`, `addRingBuffer`, `Fail`, `Close`, `Delete`, `Gone`; `ReaderCalls`, `DispatchCalls` |

`MC*` modules instantiate them for TLC, `*Proofs` modules hold the theorems;
`CodeTableSound` states that `Resources` has what the theorems about `Ownership` ask.

Grain. In `Surface` every critical section of `mMutex` is one step: all shared
fields are touched under it, except in the last part of `release()`, which takes no lock
and is three steps: it tests the frame callback, destroys it, and frees the surface
(`TestFrame`, `DestroyFrame`, `Free`). In `DrmFlip` there is no lock, so each access of a shared field
is a step. In `DrmCrtc` and `BuffersStorage` one request is one step: the code holds
a lock throughout, or all requests come from one thread. In `DevTouch` one step
handles one evdev event; the end of a frame is several, one for each contact lifted, because
the callbacks are called there without the lock, and one for what takes it. In `SeatRouting` who holds a lock follows from where the threads are:
between the two steps of an operation its thread holds one lock and needs the other.
In `WlBuffer` a step takes one lock or follows one pointer that no lock protects. In
`WlDisplay` a step is one call that changes a queue, and an event is taken from the
queue and handled in two: libwayland runs a handler without its lock. In `Ownership` a
step takes or gives back one resource, in `PageDirectory` it is one page of the chain, in
`DevPointer` one evdev event, in `InputBind` one device of a bind or of its end.

External parts. The kernel (page flips, CRTC routing, the drivers of a touch screen)
and the compositor (frame events, focus, contacts) are modelled by what the code relies
on. `DevTouch` knows four drivers: protocol B, B with single-touch events as the
kernel's emulation adds them, protocol A, and A with tracking IDs. X and Y are one
position. The screen is assumed not to be touched before the device is opened: the
code never asks the kernel for the slots' state, so that a contact from before would
be reported at a wrong place. `SeatRouting` has one device: each device has its own
lock and its own tables, and what holds for one holds for each.

Undefined behaviour is a choice between outcomes. `release()` and `frameHandler()` may both destroy a
frame callback: the process dies or goes on (`DestroyFrame`, `FrameHandler`). A `frameHandler()` whose
surface is freed under it dies, finds no flip there, sends the flip the memory still holds (`left`),
or works on a new surface at the same address (`StaleFrameHandler`). A page flip event that finds its
connector deleted may work or end the process (`DanglingEvent`). The same goes for a
callback that is called while it is being stored (`ReaderDies`). `WlBuffer` goes on when a dead object is used, as if the memory were still
as the destructor left it, and notes the use in `misuse`. `mCurrentCallback` of
a seat device is kept over insertions that may rehash the map: formally invalid, it
still points to its node in the library the program is built with, and the model
follows the node.

History variables. `drawFailed`, `late`, `failed`, `careful` and `dirFailed` record
that a premise of some properties no longer holds (draw() threw; the flip
outlasted ~Connector; init() failed late; the frontend broke the protocol; a
directory write failed); `refused` in `Surface` that the flip stored is one whose draw() threw,
`caught` that a handler ran in a freed surface, `apart` in `BuffersStorage` that the frontend named no
directory whose pages it has in a buffer. `first` and `denied` of `WlDisplay` are the
interfaces the first dispatch learnt of, and those refused although they are offered. In `DevTouch`, `early`, `torn` and `reused` record that events
were read before all callbacks were stored, that callbacks were used while being
stored, and that a driver gave a slot a new contact without lifting the old one. In
`SeatRouting`, `late` records callbacks stored while the surface had the focus,
`spread` contacts on several surfaces at a time, `disturbed` a contact whose surface or
callbacks came or went under it or that was cancelled, `misrouted` an event that went
to another frontend. No action reads them.

Abstraction. Buffers are numbers in the order they were created, flips numbers in
the order of the requests; pixel formats, sizes, copying and logging are left out. In `WlBuffer` buffers have
names and the frontend keeps to one of three rules: it detaches any buffer (`any`), only
what nothing shows (`patient`), or also the one its connector shows (`tidy`). In `WlDisplay` an
interface has one format. In `DevPointer` X stands for both axes of each kind.

## The runs

| Run | Question | Bounds, and why they are enough |
|---|---|---|
| `Surface_flips` | No flip unanswered, teardown ends, a surface found hidden is paced again; refinement of `FlipService`, beside which a draw() that throws and a handler caught in a freed surface are steps of their own; a surface that is gone sends at most the one flip it had left | 3 flips: one answered, one stored, one replacing it; the surface may be created and released any number of times |
| `DrmFlip_patient` | Unlocked fields with a frontend that waits for its event | 3 flips: one refused, one in progress, one after |
| `DrmCrtc_config` | CRTCs are exclusive, none is lost, working connectors keep theirs | 3 connectors, 2 CRTCs: fewer CRTCs than connectors; every initial wiring |
| `BuffersStorage_requests` | Views agree, nothing leaks, nothing is replaced under its cookie, pages are in one buffer | 3 create requests, any number of others, on 2 + 2 cookies and 2 directories: a cookie and a directory are used again while a frame buffer still holds the buffer they stood for, next to another buffer |
| `DevTouch_frames` | Between two frames the frontend has exactly the contacts of the screen; with protocol B every contact is a series, nothing is left in a slot, and a lift is reported | 2 slots, 2 positions, 2 tracking IDs, any number of frames: one contact is lifted, moved or replaced while the other stays; callbacks stored at any moment |
| `SeatRouting_input` | Surfaces and callbacks agree; input reaches its frontend | 2 connectors, 2 addresses, 2 contacts, any number of operations: input can reach the wrong connector, and a surface can get the address another had. Symmetric in all three sets, which the code never orders |
| `Resources_lifetimes` | Nothing is freed twice, or never but for two leaks, and nothing before what was made from it but for the pairs a table lists as `early` | every class of the tables, a throw at every step that can, any number of objects: no bound. The members of a class are its resources, so objects do not interact |
| `WlBuffer_links` | The two lock orders cannot deadlock; no raw pointer is followed to a dead object by a frontend that keeps to its rule | 2 rings, 2 buffers, 2 surfaces per ring: a buffer on two surfaces, a surface between two buffers, a second surface at the place of the first. Buffers and rings are symmetric |
| `WlDisplay_session` | Nobody is refused what the first dispatch learnt of, nor anything offered when it read all globals, buffers of a ring are of one class, a device is authenticated, a loss is noticed | 2 rings, six compositors (`MCOffers`), the first read of the globals whole or split: each preference is between two that are offered; a ring makes one buffer and is configured once. The round trip of a ring overlaps with the dispatch thread and with the other ring's |
| `WlDisplay_feedback` (violation) | Is a shell surface configured when its first buffer is attached, as `Connector.hpp:130` says? | same; one ring suffices |
| `EdidRequest_directory` | A directory and its buffer agree; an EDID block says the mode | every chain over 3 pages of 2 references, loops included; sizes of 0 to 6 pages at both sides of each page's edge; modes up to the width of the fields, two of them beyond the clock |
| `InputBind_rings` | A ring is called only while it has all its members, or, while it goes, from a device that is deleted with it and is still there; a bound frontend has all its devices; each motion is told once | 2 frontends and 5 configurations: the same connector or path in both, a key twice, an unknown key, an empty value; 5 events of the pointer: a frame before the callbacks, one with a motion and a wheel, one after |

The violation run checks a sentence of the repository that the code does not keep;
`PROJECT.json` quotes it under "findings".

Every module has a type invariant `TypeOK`, which is proved, on its own or as the first part of
another invariant (`ContactsAgree`, `OneOfAKind`, `DirectoryAgrees`, `CallsReachLiveRings`). In
some its name has an initial before it (`CTypeOK`, `DTypeOK`, `TTypeOK`), because their theorems
stand beside those of another module.

`CHECK_DEADLOCK FALSE` stands where the system ends: a request is answered
(`EdidRequest_directory`), the process has stopped (`WlDisplay_*`), the frontends are gone
(`InputBind_rings`), or all surfaces of the bound are made and all buffers detached
(`WlBuffer_links`, where `NoCircularWait` says what the deadlock check would, and of every
subset of the threads).

### Fairness

- `Surface!FairSpec`: the threads `run()`, dispatch and, inside `release()`, the ring
  thread are scheduled (weak fairness), and the 50 ms timer expires. No request has
  to come and the compositor need not answer. `BecomesActive` alone has weak
  fairness of the compositor's `Done` as its premise: only a compositor that shows
  the surface makes it active again.
- `DrmFlip!FairSpec`: both threads are scheduled and the kernel completes a flip it
  took, as DRM guarantees.
- `DevTouch!FairSpec`: the reader thread runs, and a `setCallbacks()` that has begun
  ends. Neither a touch nor a binding has to come.
- `WlDisplay!FairSpec`: the compositor answers the requests it was sent, and the main
  thread, the dispatch thread and a ring in the middle of a command run. No command has
  to come, nobody has to plug anything in or to send a signal; only the signal the
  process sends itself is delivered.
- `SeatRouting` states no fairness: its properties are about safety. All threads may
  stop in the deadlock of the two locks, which is the action `Deadlock`; that TLC
  finds no other state without a step is part of the run.
- Spurious wakeups are possible at every wait and are never assumed.

## The proofs

| Module | Theorems | Argument |
|---|---|---|
| `SurfaceProofs` | `ServiceInOrder` of `FlipService`; `TypeCorrect`, `CallbackOwned`, `SilentWhenAbsent`, `NoLostWakeup`, `FrameEventToCome`, `Refinement`, `InOrder` of `Surface` | in the service the owed flip is the newest, and appending it keeps the events increasing; `IInv` adds to the types which threads exist in which phase of the life of the surface (`Clean`) and that the callback of an event in the dispatch thread is still the current one; `Paced` adds what `FlipIsWatched` needs of `frame` before a draw() failed; `InOrder` is proved of the connector itself, since the flips of a draw() that threw are answered beside the service: all that was sent is older than what is stored (`Ordered`) |
| `DrmConnectorProofs` | of `DrmFlip`, `TypeCorrect` for any frontend; for a patient one `FlipIsExpected`, `NothingLeftBehind`, `EventIsForCompleted`, `Refinement`. Of `DrmCrtc`, `CrtcsOfTheCard`, `NothingLost`, `Exclusive`, `WorkingConnectorKept` | `CallbackStored`: the kernel is only asked when a callback is stored; `PatientInv`: one flip at a time between kernel and event thread (`OneFlip`), none while pageFlip() writes the fields (`Quiet`), and what ~Connector has waited for (`Waited`). A CRTC on the list belongs to a connector (`NothingLostInv`); before a late failure also the converse, and no saved CRTC is one that another connector uses (`Sound`) |
| `BuffersStorageProofs` | `TypeCorrect`, `MappedOnce`, `StableBuffers`, `ViewsAgree`, `NothingLeaked`; of `EdidRequest`, `DirectoryOfBuffer`, `EdidOfConnector` | a buffer is in one place only (`OnePlace`); the directories of buffers that are stored are apart as long as the frontend keeps them so (`DirectoriesApart`); while the premises hold, the storage is exactly what the frontend's view says (`Exact`), and a pending buffer has been given to the frontend (`PendingGiven`). A walk of a directory is at the page of the next reference (`AtPage`) and has read or written exactly what it has walked over (`ReadSoFar`, `OwnSoFar`), whose places are apart when the chain does not come back (`SlotsApart`). The functions of `Edid` write to places that are apart (`Changes`), a reader gets each value back out of the bits it shares (`NibblesComeBack`, `FourFields`), and the last byte adds up (`CheckSum`) |
| `SeatRoutingProofs` | `TypeCorrect`, `CurrentValid`, `Agreement`, `RightFrontend`, `FocusSent`, `ContactsSent` | `Subscribed`: what the two tables say of each other while one lock is held and the other one awaited (`Known`, `Stored`, `Complete`), which needs that the device's lock excludes (`DeviceLock`) and that addresses are not shared (`Apart`); `Aimed`: between events the current callback is the one of the surface that is touched or in focus; `Listening`: a focus that came before no callbacks is where events go (`Heard`), also while a surface is being made or deleted (`Pending`, `Landed`); `Followed`: a frontend whose contacts nothing has disturbed has seen exactly them, but for the one event that is on its way (`Coming`) |
| `OwnershipProofs` | `LifetimeInvariant`, `LifetimeTypes`, `NeverTwice`, `NothingLeft`, `NeedsOutlived` | a handle names what is held, but for those a way down has passed (`HandlesMatch`); what is held has its release ahead, or nothing behind it throws (`Accounted`); what is needed is released only behind what needs it (`Ordered`, of the table, but for the pairs it lists as `early`), so that on every way down what is left still has all else it needs. `CodeTableSound` also says that every pair listed is one the code does break |
| `WlBufferProofs` | `TypeCorrect`, `LocksInOrder`, `NoDeadPointer` | who holds a surface's lock waits for a buffer it has a reference to, who holds a buffer's destroys it, so that nobody has one (`Locks`, `References`); a living buffer names a surface only while the compositor has it (`Back`), and what each rule of the frontend adds (`Patient`, `Tidy`) |
| `InputBindProofs` | `MotionToldOnce`, `RingsOutliveCalls`, `BindIsComplete`; `ParsedIsNamed`; of `DevTouch`, `TouchAgrees`, `TouchInTurn`, `TouchLeavesNothing` | what a frame has reported and not told is what the device still holds (`Told`); while a device is being made, its ring bound or taken down, `todo` says what is still missing, and a call is only ever in a device that is open, or a ring whose callbacks are stored, which go with their device; so it is one into a ring that has all its members (`Whole`) or from a device that outlasts them (`Outlasts`); `ParsedIsNamed` is what the loop of `parseInputId()` computes of any list. For the touch screen, what the driver may say next (`Driven`); slot by slot, that what the frontend has and what is pending make up the contact of the slot (`SlotsAgree`, `NothingLeft`), and for protocol A the same of the contacts of a frame so far (`ListAgrees`) |
| `WlDisplayProofs` | `NothingRefused`, `SameKind` | each part below is an invariant of its own: what the queues hold (`Typed`); that the main thread is alone before `start()`, and that nothing is announced after its round trip (`Alone`); that every class chosen is the one that would be chosen now (`Chosen`); that an answer to a binding is owed, on its way or handled, and what the first dispatch learnt of is bound ahead of the sync (`Asked`); so that all of it is known at the end of the round trip (`Learnt`), and only what was announced later (`Second`) can be refused |

They hold for every number of flips, connectors, CRTCs, cookies, requests, directories,
surfaces and contacts; for every number of rings, buffers and surfaces (`WlBufferProofs`), every
compositor that offers finitely many interfaces (`WlDisplayProofs`), every set of frontends and
configurations, any slots, places and tracking IDs of a touch screen (`InputBindProofs`), pages of any
number and size, buffers of any size and every mode (`BuffersStorageProofs`), and every table
(`OwnershipProofs`). The assumptions are those on the constants (of a mode, that the code's 32 bits hold
what it computes: `NoWrap`); `DrmConnectorProofs` also states, per theorem, that the frontend is patient, and
`OwnershipProofs` that the table is `Sound`, and for `NeedsOutlived` `Ordered`: finite conditions that are
read off it without running it. TLC evaluates them for the code's table (`CodeTableSound`, part of
`WlBuffer_links`), so that the theorems hold of the code's classes.

What a loop does to a sequence of any length, `Effects()` of `WlDisplay`, `Parsed()` of `InputBind`,
`Sum()` of `Edid` and the chain of `PageDirectory`, is a recursive function. The library's induction
theorems take an operator as a parameter, which the provers cannot instantiate; `CountingUp` and
`SetInduction` state induction for a set instead, and follow from `WFMin`, that a well-founded relation
has minimal elements.

Only model-checked is liveness (`FlipAnswered`, `ReleaseCompletes`, `BecomesActive`,
`FlipReported`, `LiftReported`, `AuthenticationAnswered`, `LossNoticed`), which is beyond the
prover. Every invariant of the passing runs, every action property and both refinements are proved.

## Findings

The shortest run TLC gives for a sentence of the repository that does not hold:

- `WlDisplay_feedback`: `Connector::init()` ends with a round trip, to "block until the
  compositor process all of it and provides feedback". It dispatches the default queue
  beside the dispatch thread. That thread takes the configure event, the ring reads the
  answer to its own sync and returns, and the first buffer is attached before the event
  is handled and acknowledged.

Seen while modelling, and not the subject of a run. What the modelled code does:

- `frameHandler()` answers whatever flip is stored, also one drawn after the commit the
  event belongs to, while `Surface.hpp:45` says the callback comes when the frame is shown.
- `Surface.cpp:64`: a draw() that throws has already replaced the callback of the flip that was
  owed, whose event never comes, while the flip it refused may still be answered; so
  `ImplementsFlipService` lists both beside the steps of the service (`LosesOwed`, `AnswersRefused`).
- `Surface.cpp:238`: `release()` tests and destroys the frame callback without the lock. A
  `frameHandler()` that runs meanwhile can destroy it a second time, and one that is still there
  when the surface is freed can send the flip left in it, out of order with those of a new surface.
- `drm/Connector.cpp`: `pageFlip()` replaces the callback before it knows whether the
  kernel takes the flip, so that with a frontend that does not wait the event of the flip in
  progress names the refused one (`displif.h:846`); a refused flip leaves `mFlipPending` set and
  `~Connector` waits for nothing; `init()` that fails late leaves a CRTC in use and not on the
  list (`drm/Connector.hpp:71`).
- `BuffersStorage.cpp`: a create request whose directory cannot be written leaves its
  buffer; repeated, it succeeds with the pages of a buffer that is thrown away
  (`displif.h:497`); a second create with a live cookie is answered with success, which
  `displif.h:476` calls an error; a directory named by two requests is mapped twice.
- An empty protocol A report is taken for a contact (`DevInput.cpp`); with protocol A a
  contact that came down before the callbacks were stored can stay behind; the contacts of a
  cancelled Wayland touch stay down (`kbdif.h:352`).
- The lock order of `SeatDevice` and `SurfaceManager` can deadlock.
- `SeatTouch.cpp:120`: with contacts on several surfaces the ups and motions of all go to the surface
  touched last; a chain of directory pages that ends early gives fewer references and no error
  (`PgDirSharedBuffer.cpp:47`).
- `FrameBuffer.cpp`: detaching the buffer that is shown, once its release was handled, leaves
  `Surface::mBuffer` dangling; a buffer that goes after its surface has a dangling `mSurface`.
- `Connector.hpp:133`: a ring's round trip hangs as long as no further event comes when the
  dispatch thread handles its `done` while the ring waits in the read.
- `Display.cpp:636`: the dispatch thread ends the process only where `poll()` throws or a
  dispatch fails; when the loss just makes the descriptor readable it spins.
- `Display.cpp:370`: callbacks of a frontend that binds before the seat announces the device are
  dropped; `SeatDevice` objects of a re-plugged device keep an inert proxy (`Seat.cpp:94`).
- `Display.cpp:519`: when the first read of the connection brings a part of the globals only, the
  one round trip waits for the rest to be announced and not for what they answer: the display
  refuses zero copy or shared memory whose device or formats it has not heard of yet.
- `Seat.cpp:43-46`, `149-151`: touch, pointer and keyboard outlive the wl_seat they were made from.
  The protocol allows a buffer to outlive its pool or its parameters, and the kernel a mapping its
  descriptor and a prime descriptor its dumb buffer: these are the other pairs listed as `early`.
- `Edid.cpp`: the size in millimetres is pixels times 100 / 254, which is 64.5 dots per inch
  and not the 100 of `Edid.hpp:33`; clocks above 655.35 MHz are cut.
- `DevInput.cpp`: `SYN_DROPPED` is taken for the end of a frame (265), a reader logs a read error
  and ends, and its device says nothing more (129), the slots' state at opening is not read (308); raw positions are not
  scaled, and an automatic repeat is a second press (`kbdif.h:293`).
- `InputBackend.cpp:249`: the absolute pointer is requested in the backend's path, while
  `kbdif.h:128` puts it in the frontend's; an id without a colon makes the bind fail.
- `WlInput.hpp:27`: of two frontends with one connector the first to go takes the other's
  callbacks with it.
- `drm/Display.cpp:84` keeps the descriptor when the constructor throws, and the toplevel of
  `ShellSurface.cpp` is never destroyed, although its xdg_surface is (line 99); `DrmFdGuard` does not close descriptor 0; `release()`
  of a surface whose constructor failed clears through a null proxy.
- `main.cpp:280` closes the log file before destructors write to it; the ring's log is
  destroyed before its devices, which still write to it (`InputBackend.hpp:76`): `CallsReachLiveRings`
  allows a call then from a device that is still to be deleted, and no other.
- `WaylandZCopy.cpp:62` lets `createDumb()` through before the device is authenticated;
  `Dumb.cpp:153` copies the buffer at once when the sizes agree, although the strides may not.

## Not modelled, and why

- The xenstore nodes of a display frontend, the command line, the dispatch table of
  requests and their status codes: sequential glue around the operations that are modelled.
- The four-argument `createDisplayBuffer()` (`Display.cpp:166`), which only `test.cpp` calls.
- What is data only: the copies of pixels and their strides, pixel formats, the layout of
  planes, names and log messages.
- The probing of DRM devices for zero copy (`udev`): what it holds is in `Resources`,
  what it finds is the environment's.
- More than one seat, and interfaces that appear or vanish after the start.
- The mock backend and `test.cpp`.

## Plan

What was planned first is done. Left, in this order:

1. A composition of command handler, storage and connector: a page flip of a frame
   buffer that is detached, and a frontend that unbinds under it.
2. The seat as a whole: one `SeatRouting` per device, with devices that come and go.
