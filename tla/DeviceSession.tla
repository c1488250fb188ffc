---------------------------- MODULE DeviceSession ----------------------------
(***************************************************************************)
(* How neopatch tells the game's IDirect3D9Ex and device from every other  *)
(* object in the process (session.rs, thread.rs, and the hooks of d3d9.rs  *)
(* that record into it).  The vtables that the hooks live in are shared by *)
(* all objects, so a hook compares the object it was called on with a      *)
(* mirror, the recorded address; what keeps that address from meaning      *)
(* another object is a pin, one COM reference that neopatch owns.          *)
(*                                                                         *)
(* Addresses are memory: an object dies with its last reference and the    *)
(* allocator may give its address to a foreign object, such as an          *)
(* overlay's device.  The thread that first creates an IDirect3D9Ex is the *)
(* render thread; a step is what it does between two points where other    *)
(* threads can see a difference, so that recording takes several.          *)
(***************************************************************************)
EXTENDS Integers

CONSTANTS
    Addr9,     \* addresses where an IDirect3D9Ex may lie
    AddrDev,   \* addresses where a device may lie
    Thread,    \* threads of the game
    Null       \* the null pointer, no thread

Addr == Addr9 \cup AddrDev
Slot == {"d3d9", "device"}
AddrOf == [d3d9 |-> Addr9, device |-> AddrDev]

ASSUME NullAssumption == Null \notin Addr \cup Thread
ASSUME AddrAssumption == Addr9 \cap AddrDev = {}

VARIABLES
    owner,     \* whose object lies at an address: the game's or a foreign one
    held,      \* whether its creator still has a reference on it
    ours,      \* references that neopatch has on it
    tid,       \* MAIN_TID
    pin,       \* D3D9_PIN, DEVICE_PIN
    mirror,    \* D3D9_MIRROR, DEVICE_MIRROR
    pc,        \* where the render thread is
    new,       \* record: the slot and the object being recorded
    prev,      \* record: the pin that it replaces
    current,   \* the device that the game created last through our hook
    prereleased \* whether the game had let go of the recorded device before
                \* the last creation was answered

vars == <<owner, held, ours, tid, pin, mirror, pc, new, prev, current,
          prereleased>>
heap == <<owner, held, ours>>
locals == <<new, prev>>

\* neopatch never has more than one reference on an object.
TypeOK ==
    /\ owner \in [Addr -> {"free", "game", "foreign"}]
    /\ held \in [Addr -> BOOLEAN]
    /\ ours \in [Addr -> 0..1]
    /\ tid \in Thread \cup {Null}
    /\ pin \in [Slot -> Addr \cup {Null}] /\ mirror \in [Slot -> Addr \cup {Null}]
    /\ \A k \in Slot : {pin[k], mirror[k]} \subseteq AddrOf[k] \cup {Null}
    /\ pc \in {"idle", "creating", "pin", "publish", "unpin"}
    /\ new \in [slot : Slot, obj : Addr \cup {Null}]
    /\ {new.obj, prev} \subseteq AddrOf[new.slot] \cup {Null}
    /\ current \in AddrDev \cup {Null} /\ prereleased \in BOOLEAN

Init ==
    /\ owner = [a \in Addr |-> "free"]
    /\ held = [a \in Addr |-> FALSE]
    /\ ours = [a \in Addr |-> 0]
    /\ tid = Null
    /\ pin = [k \in Slot |-> Null] /\ mirror = [k \in Slot |-> Null]
    /\ pc = "idle" /\ new = [slot |-> "device", obj |-> Null] /\ prev = Null
    /\ current = Null /\ prereleased = FALSE

-----------------------------------------------------------------------------
(* COM objects                                                             *)

\* Whose objects are left once the references are what they are.
Kept(h, n) ==
    [a \in Addr |-> IF h[a] \/ n[a] > 0 THEN owner[a] ELSE "free"]

Created(a, who) ==
    /\ owner[a] = "free"
    /\ owner' = [owner EXCEPT ![a] = who]
    /\ held' = [held EXCEPT ![a] = TRUE]
    /\ ours' = ours

\* unpin: the Release of a reference that we own.
Unpinned(a) ==
    /\ ours' = [ours EXCEPT ![a] = @ - 1]
    /\ owner' = Kept(held, ours')
    /\ held' = held

\* Its creator gives an object back.  The object of a hook that is recording
\* is in use: it has not been handed out yet, or its Reset has not returned.
Release(a) ==
    /\ held[a] /\ ~(pc \in {"pin", "publish", "unpin"} /\ a = new.obj)
    /\ held' = [held EXCEPT ![a] = FALSE]
    /\ owner' = Kept(held', ours)
    /\ prereleased' = (prereleased \/ (pc = "creating" /\ a = mirror["device"]))
    /\ UNCHANGED <<ours, tid, pin, mirror, pc, locals, current>>

\* An overlay, or the game off the render thread, creates an object.
CreateForeign(a) ==
    /\ Created(a, "foreign")
    /\ UNCHANGED <<tid, pin, mirror, pc, locals, current, prereleased>>

-----------------------------------------------------------------------------
(* The gates                                                               *)

Matched(k, this) == this # Null /\ this = mirror[k]

Gate(k, this, t) == Matched(k, this) /\ t = tid

-----------------------------------------------------------------------------
(* record                                                                  *)

StartRecording(k, a) ==
    pc' = "pin" /\ new' = [slot |-> k, obj |-> a] /\ prev' = Null

\* The owned reference dropped where pin hands it over with into_raw.
PinDropsItsReference ==
    /\ pc = "pin"
    /\ IF pin[new.slot] = new.obj
       THEN pc' = "idle" /\ UNCHANGED <<pin, prev>>
       ELSE /\ prev' = Null
            /\ pin' = [pin EXCEPT ![new.slot] = new.obj]
            /\ pc' = "publish"
    /\ UNCHANGED <<heap, tid, mirror, new, current, prereleased>>

Pin ==
    /\ pc = "pin"
    /\ IF pin[new.slot] = new.obj
       THEN pc' = "idle" /\ UNCHANGED <<ours, pin, prev>>
       ELSE /\ ours' = [ours EXCEPT ![new.obj] = @ + 1]
            /\ prev' = pin[new.slot]
            /\ pin' = [pin EXCEPT ![new.slot] = new.obj]
            /\ pc' = "publish"
    /\ UNCHANGED <<owner, held, tid, mirror, new, current, prereleased>>

Publish ==
    /\ pc = "publish"
    /\ mirror' = [mirror EXCEPT ![new.slot] = new.obj]
    /\ pc' = IF prev = Null THEN "idle" ELSE "unpin"
    /\ UNCHANGED <<heap, tid, pin, locals, current, prereleased>>

Unpin ==
    /\ pc = "unpin"
    /\ Unpinned(prev)
    /\ pc' = "idle"
    /\ UNCHANGED <<tid, pin, mirror, locals, current, prereleased>>

-----------------------------------------------------------------------------
(* The hooks                                                               *)

\* Direct3DCreate9, on the thread that claims or has claimed to render.  Off
\* it, the object is left alone and is a foreign one.
CreateD3d9(t, a) ==
    /\ pc = "idle" /\ tid \in {Null, t}
    /\ Created(a, "game")
    /\ tid' = t
    /\ StartRecording("d3d9", a)
    /\ UNCHANGED <<pin, mirror, current, prereleased>>

\* The pin read with get where take empties it.
BeginCreateDeviceKeepingPin(t, this) ==
    /\ pc = "idle" /\ held[this] /\ Gate("d3d9", this, t)
    /\ pc' = "creating"
    /\ IF pin["device"] = Null \/ ours[pin["device"]] = 0 THEN UNCHANGED heap
       ELSE Unpinned(pin["device"])
    /\ prereleased' = (mirror["device"] # Null /\ ~held[mirror["device"]])
    /\ UNCHANGED <<tid, pin, mirror, locals, current>>

\* The mirror forgotten together with the pin.
BeginCreateDeviceForgetting(t, this) ==
    /\ pc = "idle" /\ held[this] /\ Gate("d3d9", this, t)
    /\ pc' = "creating"
    /\ pin' = [pin EXCEPT !["device"] = Null]
    /\ mirror' = [mirror EXCEPT !["device"] = Null]
    /\ IF pin["device"] = Null THEN UNCHANGED heap
       ELSE Unpinned(pin["device"])
    /\ prereleased' = (mirror["device"] # Null /\ ~held[mirror["device"]])
    /\ UNCHANGED <<tid, locals, current>>

\* hook_create_device up to the runtime's CreateDeviceEx: device_creating
\* gives the outgoing device's pin back and leaves the mirror.
BeginCreateDevice(t, this) ==
    /\ pc = "idle" /\ held[this] /\ Gate("d3d9", this, t)
    /\ pc' = "creating"
    /\ pin' = [pin EXCEPT !["device"] = Null]
    /\ IF pin["device"] = Null THEN UNCHANGED heap
       ELSE Unpinned(pin["device"])
    /\ prereleased' = (mirror["device"] # Null /\ ~held[mirror["device"]])
    /\ UNCHANGED <<tid, mirror, locals, current>>

DeviceCreated(a) ==
    /\ pc = "creating"
    /\ Created(a, "game")
    /\ current' = a
    /\ StartRecording("device", a)
    /\ UNCHANGED <<tid, pin, mirror, prereleased>>

CreationFails ==
    /\ pc = "creating"
    /\ pc' = "idle"
    /\ UNCHANGED <<heap, tid, pin, mirror, locals, current, prereleased>>

\* hook_reset on the render thread, for whichever object it took for the
\* game's, after the reset has succeeded.  A reset that fails, or that does
\* not pass the gate, changes nothing here.
ResetSucceeds(t, this) ==
    /\ pc = "idle" /\ held[this] /\ Gate("device", this, t)
    /\ StartRecording("device", this)
    /\ UNCHANGED <<heap, tid, pin, mirror, current, prereleased>>

Recording == Pin \/ Publish \/ Unpin

Next ==
    \/ Recording
    \/ \E a \in Addr : Release(a) \/ CreateForeign(a)
    \/ \E t \in Thread, a \in Addr9 :
          CreateD3d9(t, a) \/ BeginCreateDevice(t, a)
    \/ \E a \in AddrDev : DeviceCreated(a)
    \/ CreationFails
    \/ \E t \in Thread, a \in AddrDev : ResetSucceeds(t, a)

Spec == Init /\ [][Next]_vars

-----------------------------------------------------------------------------
(* Properties                                                              *)

\* Every reference that we own is a pin, and every pin one reference, but for
\* the old pin that record still has to give back: no reference leaks over any
\* number of replacements, resets and refused creations, and none is given
\* back twice.
Pinned(a) == \E k \in Slot : pin[k] = a
PinsCounted ==
    \A a \in Addr :
        ours[a] = (IF Pinned(a) THEN 1 ELSE 0)
                  + (IF pc \in {"publish", "unpin"} /\ prev = a THEN 1 ELSE 0)

\* A pinned object is alive, whatever its creator has released.
PinnedLives == \A k \in Slot : pin[k] # Null => owner[pin[k]] # "free"

\* At every point where another thread may run a hook, the recorded address
\* is kept alive by us, but for a device that has been unpinned for its
\* replacement; and the interface is never unpinned.
MirrorsAreKept ==
    \A k \in Slot :
        mirror[k] # Null =>
            \/ ours[mirror[k]] > 0
            \/ k = "device" /\ (pin["device"] = Null \/ pc = "publish")

\* A recorded address does not change hands: that of the interface never, not
\* even while record replaces it, that of the device while it is the pin.
NotRecycled ==
    [][\A k \in Slot :
          /\ mirror[k] # Null /\ mirror'[k] = mirror[k]
          /\ k = "d3d9" \/ (pin[k] = mirror[k] /\ pin'[k] = pin[k])
          => owner'[mirror[k]] = owner[mirror[k]]]_vars

\* A game that holds its device has it recognized, also after a replacement
\* was refused or while one is being created.
GameDeviceRecognized ==
    current # Null /\ held[current] /\ owner[current] = "game"
    /\ ~(pc \in {"pin", "publish"} /\ new.obj = current)
    => Matched("device", current)

\* What device_creating says of the address it leaves recorded: there is "a
\* window in which the mirror can dangle if the game had pre-released its
\* device", and no other.
DanglesOnlyIfPrereleased ==
    pc = "idle" /\ mirror["device"] # Null /\ owner[mirror["device"]] # "game"
    => prereleased
=============================================================================
