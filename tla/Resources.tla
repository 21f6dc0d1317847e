----------------------------- MODULE Resources -----------------------------
(***************************************************************************)
(* What the classes of the backend take and give back, in the order of the  *)
(* code: X_init and X_release are the functions of class X, and X its       *)
(* constructor and destructor with the members and bases they imply.  Own-  *)
(* ership runs the tables.                                                  *)
(***************************************************************************)
EXTENDS Steps

-----------------------------------------------------------------------------
(***************************************************************************)
(* The Wayland connection and the globals bound through it.                 *)
(***************************************************************************)
Globals == {"ivi application", "shell", "shm", "compositor", "seat", "drm", "kms", "dmabuf"}

WlDisplay_init ==
  Acquire("wl_display") \o Acquire("poll fd") \o Acquire("registry")
  \o Make("compositor") \o Make("shell") \o Make("shm") \o Make("ivi application")
  \o Make("seat") \o Make("drm") \o Make("kms") \o Make("dmabuf")
  \o Check("a compositor")
WlDisplay_release ==
  Drop("ivi application") \o Drop("shell") \o Drop("shm") \o Drop("compositor")
  \o Drop("seat") \o Drop("drm") \o Drop("kms") \o Drop("dmabuf")
  \o Free("registry") \o Free("wl_display")
WlDisplay_stop == Drop("dispatch thread")
WlDisplay_dtor == WlDisplay_stop \o WlDisplay_release
WlDisplay ==
  LET members == Drop("poll fd")
  IN  [Guarded(WlDisplay_init, WlDisplay_release, members) EXCEPT
         !.dtor = WlDisplay_dtor \o members,
         !.later = {"dispatch thread"}, !.back = WlDisplay_stop,
         !.needs = (Globals \cup {"registry", "dispatch thread"}) \X {"wl_display"}
                   \cup Globals \X {"registry"}
                   \cup {"dispatch thread"} \X (Globals \cup {"poll fd"})]

Compositor_init == Acquire("wl_compositor")
Compositor_release == Free("wl_compositor")
Compositor == Guarded(Compositor_init, Compositor_release, <<>>)

Shell_init == Acquire("xdg_wm_base") \o Check("listener")
Shell_release == Free("xdg_wm_base")
Shell == Guarded(Shell_init, Shell_release, <<>>)

IviApplication_init == Acquire("ivi_application")
IviApplication_release == Free("ivi_application")
IviApplication == Guarded(IviApplication_init, IviApplication_release, <<>>)

SharedMemory_init == Acquire("wl_shm") \o Check("listener")
SharedMemory_release == Free("wl_shm")
SharedMemory == Guarded(SharedMemory_init, SharedMemory_release, <<>>)

Seat_init == Acquire("wl_seat") \o Check("listener")
Seat_release == Free("wl_seat")
\* The devices are members: they go after the wl_seat they were made from.
Seat == [Guarded(Seat_init, Seat_release,
                 Drop("touch") \o Drop("pointer") \o Drop("keyboard"))
           EXCEPT !.later = {"keyboard", "pointer", "touch"},
                  !.needs = {"keyboard", "pointer", "touch"} \X {"wl_seat"},
                  !.early = {"keyboard", "pointer", "touch"} \X {"wl_seat"}]

\* The devices of the seat: SeatDevice subscribes them to the surface manager.
SeatTouch_init == Keep("subscription") \o Acquire("wl_touch") \o Check("listener")
SeatTouch_release == Free("wl_touch")
SeatTouch == Guarded(SeatTouch_init, SeatTouch_release, Drop("subscription"))

SeatPointer_init == Keep("subscription") \o Acquire("wl_pointer") \o Check("listener")
SeatPointer_release == Free("wl_pointer")
SeatPointer == Guarded(SeatPointer_init, SeatPointer_release, Drop("subscription"))

SeatKeyboard_init == Keep("subscription") \o Acquire("wl_keyboard") \o Check("listener")
SeatKeyboard_release == Free("wl_keyboard")
SeatKeyboard == Guarded(SeatKeyboard_init, SeatKeyboard_release, Drop("subscription"))

\* The zero copy globals: the device is opened when the compositor names it.
WaylandDrm_init == Acquire("wl_drm") \o Check("listener")
WaylandDrm_release == Free("wl_drm")
WaylandDrm == [Guarded(WaylandDrm_init, WaylandDrm_release, Drop("drm device"))
                 EXCEPT !.later = {"drm device"}]

WaylandKms_init == Acquire("wl_kms") \o Check("listener")
WaylandKms_release == Free("wl_kms")
WaylandKms == [Guarded(WaylandKms_init, WaylandKms_release, Drop("drm device"))
                 EXCEPT !.later = {"drm device"}]

\* Here the constructor opens it, and authenticates.
WaylandLinuxDmabuf_init ==
  Check("version") \o Acquire("zwp_linux_dmabuf") \o Check("listener")
  \o Acquire("drm device") \o Check("magic")
WaylandLinuxDmabuf_release == Free("zwp_linux_dmabuf")
WaylandLinuxDmabuf ==
  Guarded(WaylandLinuxDmabuf_init, WaylandLinuxDmabuf_release, Drop("drm device"))

-----------------------------------------------------------------------------
(***************************************************************************)
(* Surfaces, their roles, and the connectors that keep them.                *)
(***************************************************************************)
Surface_init == Acquire("wl_surface") \o Acquire("frame thread")
Surface_release == Drop("frame thread") \o Free("wl_callback") \o Free("wl_surface")
WlSurface == [Guarded(Surface_init, Surface_release, <<>>) EXCEPT
                !.later = {"wl_callback"},
                !.needs = {"frame thread", "wl_callback"} \X {"wl_surface"}]

ShellSurface_init == Keep("surface") \o Acquire("xdg_surface") \o Check("listener")
\* The toplevel role object has no destructor call anywhere, and the xdg_surface
\* goes although its role object is there.
ShellSurface_setTopLevel == {"xdg_toplevel"}
ShellSurface_release == Free("xdg_surface")
ShellSurface == [Guarded(ShellSurface_init, ShellSurface_release, Drop("surface")) EXCEPT
                   !.later = ShellSurface_setTopLevel, !.leaks = ShellSurface_setTopLevel,
                   !.needs = {<<"xdg_surface", "surface">>, <<"xdg_toplevel", "xdg_surface">>},
                   !.early = {<<"xdg_toplevel", "xdg_surface">>}]

IviSurface_init == Keep("surface") \o Acquire("ivi_surface")
IviSurface_release == Free("ivi_surface")
IviSurface == [Guarded(IviSurface_init, IviSurface_release, Drop("surface")) EXCEPT
                 !.needs = {<<"ivi_surface", "surface">>}]

\* init() makes the role surface and the surface; ~Connector() calls the base's
\* release() when the role's members are already destroyed.
ShellConnector_release == Drop("shell surface") \o Drop("surface")
ShellConnector ==
  [Plain(Keep("compositor") \o Keep("shell"), <<>>,
         Drop("shell surface") \o Drop("shell") \o Drop("surface") \o Drop("compositor"))
     EXCEPT !.later = {"shell surface", "surface"}, !.back = ShellConnector_release,
            !.needs = {"shell surface"} \X {"shell", "surface"}
                      \cup {<<"surface", "compositor">>}]

IviConnector_release == Drop("ivi surface") \o Drop("surface")
IviConnector ==
  [Plain(Keep("compositor") \o Keep("ivi application"), <<>>,
         Drop("ivi surface") \o Drop("ivi application") \o Drop("surface") \o Drop("compositor"))
     EXCEPT !.later = {"ivi surface", "surface"}, !.back = IviConnector_release,
            !.needs = {"ivi surface"} \X {"ivi application", "surface"}
                      \cup {<<"surface", "compositor">>}]

-----------------------------------------------------------------------------
(***************************************************************************)
(* Wayland buffers and the file behind a shared one.                        *)
(***************************************************************************)
SharedFile_createTmpFile == Check("XDG_RUNTIME_DIR") \o Acquire("fd") \o Check("truncate")
SharedFile_init == SharedFile_createTmpFile \o Acquire("mapping") \o Try("grant mapping")
SharedFile_release == Free("fd") \o Free("mapping")
\* A mapping outlives its descriptor, as mmap() allows.
SharedFile == [Guarded(SharedFile_init, SharedFile_release, Drop("grant mapping")) EXCEPT
                 !.needs = {<<"mapping", "fd">>}, !.early = {<<"mapping", "fd">>}]

\* ~WlBuffer, and the members it keeps.
WlBuffer_dtor == Free("wl_buffer") \o Drop("display buffer")
WlBuffer_ctor == Keep("display buffer")
WlBuffer_setListener == Check("a buffer") \o Check("listener")

\* Mutant: the pool is destroyed and its pointer kept.
SharedBuffer_init_KeepsPool ==
  Acquire("pool") \o Acquire("wl_buffer") \o WlBuffer_setListener \o Free("pool")
SharedBuffer_init ==
  Acquire("pool") \o Acquire("wl_buffer") \o WlBuffer_setListener \o Drop("pool")
SharedBuffer_release == Free("pool")
\* A wl_buffer outlives its pool, as the protocol allows.
SharedBuffer == [Guarded(WlBuffer_ctor \o SharedBuffer_init, SharedBuffer_release, WlBuffer_dtor)
                   EXCEPT !.needs = {<<"wl_buffer", "display buffer">>, <<"wl_buffer", "pool">>},
                          !.early = {<<"wl_buffer", "pool">>}]

KmsBuffer == [Plain(WlBuffer_ctor \o Acquire("wl_buffer") \o WlBuffer_setListener,
                    <<>>, WlBuffer_dtor)
                EXCEPT !.needs = {<<"wl_buffer", "display buffer">>}]

DrmBuffer == [Plain(WlBuffer_ctor \o Check("name") \o Acquire("wl_buffer") \o WlBuffer_setListener,
                    <<>>, WlBuffer_dtor)
                EXCEPT !.needs = {<<"wl_buffer", "display buffer">>}]

\* Mutant: the result is tested before the parameters are destroyed.
LinuxDmabufBuffer_ChecksFirst ==
  [Plain(WlBuffer_ctor \o Acquire("params") \o Make("wl_buffer") \o Check("created")
           \o Drop("params") \o WlBuffer_setListener, <<>>, WlBuffer_dtor)
     EXCEPT !.needs = {<<"wl_buffer", "display buffer">>, <<"wl_buffer", "params">>},
            !.early = {<<"wl_buffer", "params">>}]
LinuxDmabufBuffer ==
  [Plain(WlBuffer_ctor \o Acquire("params") \o Make("wl_buffer") \o Drop("params")
           \o Check("created") \o WlBuffer_setListener, <<>>, WlBuffer_dtor)
     EXCEPT !.needs = {<<"wl_buffer", "display buffer">>, <<"wl_buffer", "params">>},
            !.early = {<<"wl_buffer", "params">>}]

-----------------------------------------------------------------------------
(***************************************************************************)
(* The DRM card, its frame buffers and the library's data.                  *)
(***************************************************************************)
\* No try block here: what a later step throws leaves the card open.
DrmDisplay_ctor ==
  Check("detected") \o Acquire("drm fd") \o Acquire("poll fd")
  \o Check("dumb buffers") \o Check("connector ids")
DrmDisplay_stop == Drop("event thread")
DrmDisplay_dtor == DrmDisplay_stop \o Free("drm fd")
DrmDisplay ==
  [Plain(DrmDisplay_ctor, DrmDisplay_dtor, Drop("poll fd")) EXCEPT
     !.later = {"event thread"}, !.back = DrmDisplay_stop, !.lost = {"drm fd"},
     !.needs = {"event thread"} \X {"drm fd", "poll fd"}]

DrmFrameBuffer_init == Keep("display buffer") \o Acquire("frame buffer id")
DrmFrameBuffer_release == Free("frame buffer id")
DrmFrameBuffer ==
  [Guarded(DrmFrameBuffer_init, DrmFrameBuffer_release, Drop("display buffer")) EXCEPT
     !.needs = {<<"frame buffer id", "display buffer">>}]

ModeResource == Plain(Acquire("drmModeRes"), Free("drmModeRes"), <<>>)
ModeConnector == Plain(Acquire("drmModeConnector"), Free("drmModeConnector"), <<>>)
ModeEncoder == Plain(Acquire("drmModeEncoder"), Free("drmModeEncoder"), <<>>)

\* The guards of two functions: an early return unwinds like a throw.
isDrmDevice ==
  LET guards == Drop("drmModeRes") \o Free("fd")
  IN  [Plain(Check("device node") \o Acquire("fd") \o Acquire("drmModeRes") \o Check("heads"),
             <<>>, guards) EXCEPT !.needs = {<<"drmModeRes", "fd">>}]
detectDrmDevice ==
  LET guards == Drop("udev_device") \o Drop("udev_enumerate") \o Drop("udev")
  IN  [Plain(Acquire("udev") \o Acquire("udev_enumerate") \o Check("scan") \o Make("udev_device"),
             <<>>, guards)
         EXCEPT !.needs = {<<"udev_enumerate", "udev">>, <<"udev_device", "udev">>}]

-----------------------------------------------------------------------------
(***************************************************************************)
(* Dumb buffers.                                                            *)
(***************************************************************************)
createDumb == Acquire("dumb")
mapDumb == Check("map") \o Acquire("mapping")
DumbDrm_init == Try("grant mapping") \o createDumb \o mapDumb
\* Mutant: the buffer is destroyed under its mapping.
DumbDrm_release_Destroys == Free("dumb") \o Free("mapping")
DumbDrm_release == Free("mapping") \o Free("dumb")
DumbDrm == [Guarded(DumbDrm_init, DumbDrm_release, Drop("grant mapping")) EXCEPT
              !.needs = {<<"mapping", "dumb">>}]

\* The frontend's pages as a descriptor; ~DumbZCopyFront waits until every
\* import of it is released, or for cBufZCopyWaitHandleToMs.
DumbZCopyFront_dtor == Drop("dmabuf of grants")
DumbZCopyFront == Plain(Acquire("dmabuf of grants"), <<>>, DumbZCopyFront_dtor)

\* Imported to the card: the import is closed before that wait.
DumbZCopyFrontDrm_dtor == Free("gem handle")
DumbZCopyFrontDrm ==
  [Plain(Acquire("dmabuf of grants") \o Acquire("gem handle"),
         DumbZCopyFrontDrm_dtor, DumbZCopyFront_dtor) EXCEPT
     !.needs = {<<"gem handle", "dmabuf of grants">>}]

getBufDrmFd == Acquire("prime fd")
getGrantRefs == Acquire("grants of dmabuf")
DumbZCopyBack_init == createDumb \o getBufDrmFd \o getGrantRefs
\* The descriptor keeps the buffer it was exported from, as the kernel allows.
DumbZCopyBack_release == Drop("grants of dmabuf") \o Free("dumb") \o Free("prime fd")
DumbZCopyBack == [Guarded(DumbZCopyBack_init, DumbZCopyBack_release, <<>>) EXCEPT
                    !.needs = {<<"grants of dmabuf", "prime fd">>, <<"prime fd", "dumb">>},
                    !.early = {<<"prime fd", "dumb">>}]

-----------------------------------------------------------------------------
(***************************************************************************)
(* Input devices, and the program.                                          *)
(***************************************************************************)
DevInput_init == Acquire("input fd") \o Check("not grabbed") \o Acquire("poll fd")
DevInput_release == Free("input fd")
DevInput_stop == Drop("reader thread")
\* The constructors of the three specializations start the thread.
DevInput_start == Acquire("reader thread")
DevInputBase_dtor == DevInput_stop \o DevInput_release
DevInput ==
  LET members == Drop("poll fd")
  IN  [Plain(DevInput_init \o DevInput_start, <<>>, DevInputBase_dtor \o members) EXCEPT
         !.needs = {"reader thread"} \X {"input fd", "poll fd"}]

\* main(): an exception and the end of the scope destroy alike.
main ==
  [Plain(Acquire("display") \o Acquire("display backend") \o Check("start")
           \o Acquire("input backend") \o Check("start"),
         <<>>, Drop("input backend") \o Drop("display backend") \o Drop("display")) EXCEPT
     !.needs = {"display backend", "input backend"} \X {"display"}]

CodeTable ==
  [WlDisplay |-> WlDisplay, Compositor |-> Compositor, Shell |-> Shell,
   IviApplication |-> IviApplication, SharedMemory |-> SharedMemory, Seat |-> Seat,
   SeatTouch |-> SeatTouch, SeatPointer |-> SeatPointer, SeatKeyboard |-> SeatKeyboard,
   WaylandDrm |-> WaylandDrm, WaylandKms |-> WaylandKms,
   WaylandLinuxDmabuf |-> WaylandLinuxDmabuf, WlSurface |-> WlSurface,
   ShellSurface |-> ShellSurface, IviSurface |-> IviSurface,
   ShellConnector |-> ShellConnector, IviConnector |-> IviConnector,
   SharedFile |-> SharedFile, SharedBuffer |-> SharedBuffer, KmsBuffer |-> KmsBuffer,
   DrmBuffer |-> DrmBuffer, LinuxDmabufBuffer |-> LinuxDmabufBuffer,
   DrmDisplay |-> DrmDisplay, DrmFrameBuffer |-> DrmFrameBuffer,
   ModeResource |-> ModeResource, ModeConnector |-> ModeConnector,
   ModeEncoder |-> ModeEncoder, isDrmDevice |-> isDrmDevice,
   detectDrmDevice |-> detectDrmDevice, DumbDrm |-> DumbDrm,
   DumbZCopyFront |-> DumbZCopyFront, DumbZCopyFrontDrm |-> DumbZCopyFrontDrm,
   DumbZCopyBack |-> DumbZCopyBack, DevInput |-> DevInput, main |-> main]
=============================================================================
