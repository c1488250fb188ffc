------------------------------- MODULE Frame -------------------------------
(***************************************************************************)
(* The hooks of d3d9.rs that the window and the screenshots meet in.       *)
(* CreateDevice ends the rendering context and restyles the device window  *)
(* before it calls the runtime, and answers with the window mapped again;  *)
(* Reset ends the context; Present takes the deferred capture.             *)
(***************************************************************************)
EXTENDS Window, Screenshot

frameVars == <<winVars, shotVars>>

FrameTypeOK == WindowTypeOK /\ ShotTypeOK

FrameInit == WindowInit /\ ShotInit

\* hook_create_device up to the runtime's CreateDeviceEx
AsksForDevice(h) == RestyleDeviceWindow(h) /\ OnDeviceCreating

\* It succeeds: the game gets a device, recorded before its window is shown.
GetsDevice(d) == EndCreation(TRUE) /\ RecordDevice(d)

\* It fails, or succeeds without a device.
CreationFailed == EndCreation(FALSE) /\ UNCHANGED shotVars

\* hook_reset, hook_present and the save functions
DeviceCall ==
    /\ ~creating
    /\ \/ \E ok \in BOOLEAN : OnPreReset(ok)
       \/ OnPrePresent
       \/ \E p \in Path : SaveLive(p) \/ SaveDeferred(p)
    /\ UNCHANGED winVars

\* The process dies; a later session, perhaps configured anew, finds files.
Restart ==
    /\ policy' \in Policy
    /\ alive' = {} /\ look' = [h \in Hwnd |-> NoLook]
    /\ suffixes' = [h \in Hwnd |-> 0]
    /\ main' = NoWindow /\ styled' = NoWindow /\ titled' = NoWindow
    /\ bound' = TRUE /\ creating' = FALSE /\ device' = NoDevice
    /\ mapped' = {} /\ popups' = {} /\ exempt' = {}
    /\ recorded' = None /\ pinned' = None /\ pending' = None /\ context' = TRUE
    /\ job' = NoJob
    /\ UNCHANGED files

FrameNext ==
    \/ /\ ~Saving
       /\ \/ WindowOthers /\ UNCHANGED shotVars
          \/ \E h \in Hwnd \cup {NoWindow} : AsksForDevice(h)
          \/ \E d \in Device : GetsDevice(d)
          \/ CreationFailed
          \/ DeviceCall
    \/ WriteStep /\ UNCHANGED winVars
    \/ Restart

FrameSpec == FrameInit /\ [][FrameNext]_frameVars

-----------------------------------------------------------------------------
(* Properties                                                              *)

\* Between two creations of a device exactly those windows are on screen that
\* the game or a successful creation put there: the hiding for a frame change
\* is always undone, and a creation that fails shows nothing.
MappedAsFound == ~creating => \A h \in alive : Visible(h) <=> h \in mapped

\* What the configuration promises of a window: the band, and unless it is one
\* that the game made for fullscreen or manages itself, frame and geometry.
InForce(h, l) ==
    /\ policy.on_top => l.topmost
    /\ ~policy.defer /\ h \notin popups =>
          /\ l.style = FrameStyle[policy.frame] \cup {"CLIP"}
          /\ l.size = "cfg"
          /\ policy.placed => l.place = "cfg"

\* When the game gets its device, the policy is in force on its window, however
\* it came by, through the hook or past it, and requests to close the game go
\* to it or, if the handle recorded earlier was recycled, to a living child.
\* Its title carries the suffix of neopatch once at most.
PolicyInForce ==
    [][creating /\ ~creating' /\ pinned' # None /\ TopLevel(device.hwnd) =>
          /\ main' \in alive /\ suffixes'[device.hwnd] <= 1
          /\ device.hwnd \notin exempt => InForce(device.hwnd, look'[device.hwnd])]_frameVars

\* A deferred capture shows a frame of the context it was asked for in, never
\* one of a later device or of the same device after a Reset.
CaptureBelongs == Saving => job.own

\* A screenshot file is whole or not there, whatever step of writing it fails
\* and wherever the process dies, also on top of what earlier sessions left.
DestinationWhole == \A p \in Path : dest[p] # "torn"
=============================================================================
