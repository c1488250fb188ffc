------------------------------- MODULE PadInput -------------------------------
(***************************************************************************)
(* The D-pad of a controller as directions (input.rs), behind the          *)
(* dinput8.dll that a game loads in the system's place (dinput8.rs).       *)
(*                                                                         *)
(* An interface handed out by DirectInput8Create gets its CreateDevice     *)
(* hooked, a device created through that hook its GetDeviceState, each in  *)
(* the vtable that all objects of a kind share; a visit of a vtable, which *)
(* HookSlots takes apart, may be refused.  A joystick state that is read   *)
(* through the hook has its axes replaced by where the hat points.         *)
(***************************************************************************)
EXTENDS Integers

CONSTANTS
    Interface,  \* the vtables of IDirectInput8 objects
    Device,     \* the vtables of IDirectInputDevice8 objects
    Hat,        \* what a driver reports of the hat, some natural numbers
    Stick       \* what it reports of an axis

VARIABLES
    dpad,      \* [input] dpad: whether a callback is registered
    real,      \* REAL: unresolved, found or missing
    handed,    \* interfaces the game has
    created,   \* devices the game has
    hooked,    \* vtables whose slot leads to us
    asked,     \* interfaces the game asked for by one of the two ids
    refused,   \* vtables the last visit could not hook
    entitled,  \* devices created through an asked interface that was not refused
    read       \* the last state that was read: what the driver says, what the
               \* game got, and whether the hat was due to steer

games == <<handed, created>>
vars == <<dpad, real, games, hooked, asked, refused, entitled, read>>

-----------------------------------------------------------------------------
(* The hat                                                                 *)

Full == 36000

\* The ends of an axis, i32::MIN and i32::MAX
Low == -2147483647 - 1
High == 2147483647

\* Faulty variant: a diagonal is up or down, never sideways too.
ConvertStrict(pov, x, y) ==
    IF pov >= Full THEN <<x, y>>
    ELSE <<IF 22500 < pov /\ pov < 31500 THEN Low
           ELSE IF 4500 < pov /\ pov < 13500 THEN High ELSE 0,
           IF pov <= 4500 \/ pov >= 31500 THEN Low
           ELSE IF 13500 <= pov /\ pov <= 22500 THEN High ELSE 0>>

\* convert_pov: hundredths of a degree from up, clockwise; a hat at rest
\* leaves the stick alone.
Convert(pov, x, y) ==
    IF pov >= Full THEN <<x, y>>
    ELSE <<IF 22500 <= pov /\ pov <= 31500 THEN Low
           ELSE IF 4500 <= pov /\ pov <= 13500 THEN High ELSE 0,
           IF pov <= 4500 \/ pov >= 31500 THEN Low
           ELSE IF 13500 <= pov /\ pov <= 22500 THEN High ELSE 0>>

-----------------------------------------------------------------------------

Format == {"joystick", "keyboard"}
Axes == (Stick \cup {Low, 0, High}) \X (Stick \cup {Low, 0, High})
NoRead == [format |-> "keyboard", due |-> FALSE, pov |-> Full,
           axes |-> <<0, 0>>, got |-> <<0, 0>>]

TypeOK ==
    /\ dpad \in BOOLEAN /\ real \in {"unresolved", "found", "missing"}
    /\ handed \subseteq Interface /\ created \subseteq Device
    /\ hooked \subseteq Interface \cup Device
    /\ asked \subseteq Interface /\ refused \subseteq Interface \cup Device
    /\ entitled \subseteq Device
    /\ read \in [format : Format, due : BOOLEAN, pov : Hat \cup {Full},
                 axes : Axes, got : Axes]

Init ==
    /\ dpad \in BOOLEAN /\ real = "unresolved"
    /\ handed = {} /\ created = {} /\ hooked = {}
    /\ asked = {} /\ refused = {} /\ entitled = {}
    /\ read = NoRead

\* A visit of a vtable: its slot leads to us, or stays what it was.
Visit(v) ==
    \/ hooked' = hooked \cup {v} /\ refused' = refused \ {v}
    \/ v \notin hooked /\ hooked' = hooked /\ refused' = refused \cup {v}

\* Faulty variant: only the interface the older games ask for.
CreatedAnsiOnly(i, iid) ==
    IF iid = "A" /\ dpad THEN Visit(i) ELSE UNCHANGED <<hooked, refused>>

\* The callback runs for both interface ids.
OnCreated(i, iid) ==
    IF iid \in {"A", "W"} /\ dpad THEN Visit(i) ELSE UNCHANGED <<hooked, refused>>

\* forward: the real export is looked for once.
DirectInput8Create(i, iid) ==
    /\ real' \in IF real = "unresolved" THEN {"found", "missing"} ELSE {real}
    /\ \/ /\ real' = "found"
          /\ handed' = handed \cup {i}
          /\ asked' = IF iid \in {"A", "W"} THEN asked \cup {i} ELSE asked
          /\ OnCreated(i, iid)
       \/ UNCHANGED <<handed, asked, hooked, refused>>
    /\ UNCHANGED <<dpad, created, entitled, read>>

\* The device's vtable is visited once the real function has created it.
HookDiCreateDevice(i, d) ==
    /\ i \in handed
    /\ created' = created \cup {d}
    /\ IF i \in hooked THEN Visit(d) ELSE UNCHANGED <<hooked, refused>>
    /\ entitled' = IF dpad /\ i \in asked \ refused
                   THEN entitled \cup {d} ELSE entitled
    /\ UNCHANGED <<dpad, real, handed, asked, read>>

\* convert_pov_in_state, on the two joystick formats
HookGetDeviceState(d, format, pov, x, y) ==
    /\ d \in created
    /\ read' = [format |-> format, due |-> d \in entitled \ refused,
                pov |-> pov, axes |-> <<x, y>>,
                got |-> IF d \in hooked /\ format = "joystick"
                        THEN Convert(pov, x, y) ELSE <<x, y>>]
    /\ UNCHANGED <<dpad, real, games, hooked, asked, refused, entitled>>

Next ==
    \/ \E i \in Interface, iid \in {"A", "W", "other"} : DirectInput8Create(i, iid)
    \/ \E i \in Interface, d \in Device : HookDiCreateDevice(i, d)
    \/ \E d \in Device, f \in Format, p \in Hat, x, y \in Stick :
        HookGetDeviceState(d, f, p, x, y)

Spec == Init /\ [][Next]_vars

-----------------------------------------------------------------------------
(* Properties                                                              *)

\* A direction is within 45 degrees of the hat, either way round.
Near(pov, direction) ==
    LET turn == (pov - direction) % Full IN turn <= 4500 \/ turn >= Full - 4500

Axis(pov, low, high) ==
    IF Near(pov, low) THEN Low ELSE IF Near(pov, high) THEN High ELSE 0

\* Every device the game got through an interface it asked for has its joystick
\* states read with the hat for a stick, whichever interface, format or device
\* came before; what is no joystick or a hat at rest is passed on
\* (hook_get_device_state, convert_pov).
HatSteers ==
    IF read.due /\ read.format = "joystick" /\ read.pov < Full
    THEN read.got = <<Axis(read.pov, 27000, 9000), Axis(read.pov, 0, 18000)>>
    ELSE read.format = "keyboard" \/ read.pov >= Full => read.got = read.axes
=============================================================================
