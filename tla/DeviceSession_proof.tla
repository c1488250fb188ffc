------------------------- MODULE DeviceSession_proof -------------------------
(***************************************************************************)
(* Proofs about what a device goes through, for any addresses, threads,    *)
(* windows and files: its session (DeviceSession), and its window and its  *)
(* screenshots (Frame).                                                    *)
(*                                                                         *)
(* The properties of the session are not inductive by themselves: what     *)
(* makes them so is where a slot stands at each step of record, that is,   *)
(* which of pin, mirror, new and prev agree (Recording below).  Of the     *)
(* windows one has to know besides what the hooks remember of them by      *)
(* handle (WinInv), of the screenshots what a step of the writing found    *)
(* (ShotInv).                                                              *)
(***************************************************************************)
EXTENDS DeviceSession, Frame, TLAPS

\* An address is free when nobody has a reference on what lay there.
Alive == \A a \in Addr : (owner[a] = "free") = (~held[a] /\ ours[a] = 0)

\* A slot with a pin has published it, but for the moment between the two.
SlotsAgree ==
    /\ \A k \in Slot : pin[k] # Null => \/ mirror[k] = pin[k]
                                        \/ pc = "publish" /\ k = new.slot
    /\ pin["d3d9"] = Null => mirror["d3d9"] = Null
    /\ pc = "creating" => pin["device"] = Null

\* Where record stands.
AtPin ==
    pc = "pin" => /\ new.obj # Null /\ held[new.obj] /\ prev = Null
                  /\ pin[new.slot] = new.obj => mirror[new.slot] = new.obj
                  /\ new.slot = "device" =>
                        /\ pin["device"] \in {Null, new.obj}
                        /\ new.obj \in {current, mirror["device"]}
AtPublish ==
    pc = "publish" => /\ new.obj # Null /\ pin[new.slot] = new.obj
                      /\ prev # new.obj
                      /\ new.slot = "d3d9" => mirror["d3d9"] = prev
                      /\ new.slot = "device" =>
                            /\ prev = Null
                            /\ new.obj \in {current, mirror["device"]}
AtUnpin ==
    pc = "unpin" => /\ new.obj # Null /\ pin[new.slot] = new.obj
                    /\ prev # new.obj /\ prev # Null
                    /\ mirror[new.slot] = new.obj
                    /\ new.slot = "d3d9"
RecordShape == AtPin /\ AtPublish /\ AtUnpin

IInv == /\ TypeOK /\ Alive /\ SlotsAgree /\ RecordShape
        /\ PinsCounted /\ GameDeviceRecognized

LEMMA StepRelease == ASSUME IInv, NEW a \in Addr, Release(a) PROVE IInv'
<1> USE NullAssumption, AddrAssumption DEF IInv, Release, Addr, Slot, AddrOf, heap, locals
<1>1. TypeOK' BY DEF TypeOK, PinsCounted, Pinned, SlotsAgree, RecordShape, AtPin, AtPublish, AtUnpin, Kept
<1>2. Alive' BY DEF TypeOK, Alive, PinsCounted, Pinned, RecordShape, AtPin, AtPublish, AtUnpin, Kept
<1>3. SlotsAgree' BY DEF TypeOK, SlotsAgree, Alive, RecordShape, AtPin, AtPublish, AtUnpin
<1>4. RecordShape' BY DEF TypeOK, SlotsAgree, Alive, RecordShape, AtPin, AtPublish, AtUnpin
<1>5. PinsCounted' BY DEF TypeOK, PinsCounted, Pinned, SlotsAgree, Alive, RecordShape, AtPin, AtPublish, AtUnpin
<1>6. GameDeviceRecognized' BY DEF TypeOK, GameDeviceRecognized, Matched, Alive, SlotsAgree, RecordShape, AtPin, AtPublish, AtUnpin, Kept
<1> QED BY <1>1, <1>2, <1>3, <1>4, <1>5, <1>6

LEMMA StepCreateForeign == ASSUME IInv, NEW a \in Addr, CreateForeign(a) PROVE IInv'
<1> USE NullAssumption, AddrAssumption DEF IInv, CreateForeign, Created, Addr, Slot, AddrOf, heap, locals
<1>1. TypeOK' BY DEF TypeOK, PinsCounted, Pinned, SlotsAgree, RecordShape, AtPin, AtPublish, AtUnpin
<1>2. Alive' BY DEF TypeOK, Alive, PinsCounted, Pinned, RecordShape, AtPin, AtPublish, AtUnpin
<1>3. SlotsAgree' BY DEF TypeOK, SlotsAgree, Alive, RecordShape, AtPin, AtPublish, AtUnpin
<1>4. RecordShape' BY DEF TypeOK, SlotsAgree, Alive, RecordShape, AtPin, AtPublish, AtUnpin
<1>5. PinsCounted' BY DEF TypeOK, PinsCounted, Pinned, SlotsAgree, Alive, RecordShape, AtPin, AtPublish, AtUnpin
<1>6. GameDeviceRecognized' BY DEF TypeOK, GameDeviceRecognized, Matched, Alive, SlotsAgree, RecordShape, AtPin, AtPublish, AtUnpin
<1> QED BY <1>1, <1>2, <1>3, <1>4, <1>5, <1>6

LEMMA StepCreateD3d9 == ASSUME IInv, NEW t \in Thread, NEW a \in Addr9, CreateD3d9(t, a) PROVE IInv'
<1> USE NullAssumption, AddrAssumption DEF IInv, CreateD3d9, Created, StartRecording, Addr, Slot, AddrOf, heap, locals
<1>1. TypeOK' BY DEF TypeOK, PinsCounted, Pinned, SlotsAgree, RecordShape, AtPin, AtPublish, AtUnpin
<1>2. Alive' BY DEF TypeOK, Alive, PinsCounted, Pinned, RecordShape, AtPin, AtPublish, AtUnpin
<1>3. SlotsAgree' BY DEF TypeOK, SlotsAgree, Alive, RecordShape, AtPin, AtPublish, AtUnpin
<1>4. RecordShape' BY DEF TypeOK, SlotsAgree, Alive, RecordShape, AtPin, AtPublish, AtUnpin
<1>5. PinsCounted' BY DEF TypeOK, PinsCounted, Pinned, SlotsAgree, Alive, RecordShape, AtPin, AtPublish, AtUnpin
<1>6. GameDeviceRecognized' BY DEF TypeOK, GameDeviceRecognized, Matched, Alive, SlotsAgree, RecordShape, AtPin, AtPublish, AtUnpin
<1> QED BY <1>1, <1>2, <1>3, <1>4, <1>5, <1>6

LEMMA StepBeginCreateDevice == ASSUME IInv, NEW t \in Thread, NEW a \in Addr9, BeginCreateDevice(t, a) PROVE IInv'
<1> USE NullAssumption, AddrAssumption DEF IInv, BeginCreateDevice, Unpinned, Gate, Matched, Addr, Slot, AddrOf, heap, locals
<1>1. TypeOK' BY DEF TypeOK, PinsCounted, Pinned, SlotsAgree, RecordShape, AtPin, AtPublish, AtUnpin, Kept
<1>2. Alive' BY DEF TypeOK, Alive, PinsCounted, Pinned, RecordShape, AtPin, AtPublish, AtUnpin, Kept
<1>3. SlotsAgree' BY DEF TypeOK, SlotsAgree, Alive, RecordShape, AtPin, AtPublish, AtUnpin
<1>4. RecordShape' BY DEF TypeOK, SlotsAgree, Alive, RecordShape, AtPin, AtPublish, AtUnpin
<1>5. PinsCounted' BY DEF TypeOK, PinsCounted, Pinned, SlotsAgree, Alive, RecordShape, AtPin, AtPublish, AtUnpin
<1>6. GameDeviceRecognized' BY DEF TypeOK, GameDeviceRecognized, Matched, Alive, SlotsAgree, RecordShape, AtPin, AtPublish, AtUnpin, Kept
<1> QED BY <1>1, <1>2, <1>3, <1>4, <1>5, <1>6

LEMMA StepDeviceCreated == ASSUME IInv, NEW a \in AddrDev, DeviceCreated(a) PROVE IInv'
<1> USE NullAssumption, AddrAssumption DEF IInv, DeviceCreated, Created, StartRecording, Addr, Slot, AddrOf, heap, locals
<1>1. TypeOK' BY DEF TypeOK, PinsCounted, Pinned, SlotsAgree, RecordShape, AtPin, AtPublish, AtUnpin
<1>2. Alive' BY DEF TypeOK, Alive, PinsCounted, Pinned, RecordShape, AtPin, AtPublish, AtUnpin
<1>3. SlotsAgree' BY DEF TypeOK, SlotsAgree, Alive, RecordShape, AtPin, AtPublish, AtUnpin
<1>4. RecordShape' BY DEF TypeOK, SlotsAgree, Alive, RecordShape, AtPin, AtPublish, AtUnpin
<1>5. PinsCounted' BY DEF TypeOK, PinsCounted, Pinned, SlotsAgree, Alive, RecordShape, AtPin, AtPublish, AtUnpin
<1>6. GameDeviceRecognized' BY DEF TypeOK, GameDeviceRecognized, Matched, Alive, SlotsAgree, RecordShape, AtPin, AtPublish, AtUnpin
<1> QED BY <1>1, <1>2, <1>3, <1>4, <1>5, <1>6

LEMMA StepCreationFails == ASSUME IInv, CreationFails PROVE IInv'
<1> USE NullAssumption, AddrAssumption DEF IInv, CreationFails, Addr, Slot, AddrOf, heap, locals
<1>1. TypeOK' BY DEF TypeOK, PinsCounted, Pinned, SlotsAgree, RecordShape, AtPin, AtPublish, AtUnpin
<1>2. Alive' BY DEF TypeOK, Alive, PinsCounted, Pinned, RecordShape, AtPin, AtPublish, AtUnpin
<1>3. SlotsAgree' BY DEF TypeOK, SlotsAgree, Alive, RecordShape, AtPin, AtPublish, AtUnpin
<1>4. RecordShape' BY DEF TypeOK, SlotsAgree, Alive, RecordShape, AtPin, AtPublish, AtUnpin
<1>5. PinsCounted' BY DEF TypeOK, PinsCounted, Pinned, SlotsAgree, Alive, RecordShape, AtPin, AtPublish, AtUnpin
<1>6. GameDeviceRecognized' BY DEF TypeOK, GameDeviceRecognized, Matched, Alive, SlotsAgree, RecordShape, AtPin, AtPublish, AtUnpin
<1> QED BY <1>1, <1>2, <1>3, <1>4, <1>5, <1>6

LEMMA StepResetSucceeds == ASSUME IInv, NEW t \in Thread, NEW a \in AddrDev, ResetSucceeds(t, a) PROVE IInv'
<1> USE NullAssumption, AddrAssumption DEF IInv, ResetSucceeds, Gate, Matched, StartRecording, Addr, Slot, AddrOf, heap, locals
<1>1. TypeOK' BY DEF TypeOK, PinsCounted, Pinned, SlotsAgree, RecordShape, AtPin, AtPublish, AtUnpin
<1>2. Alive' BY DEF TypeOK, Alive, PinsCounted, Pinned, RecordShape, AtPin, AtPublish, AtUnpin
<1>3. SlotsAgree' BY DEF TypeOK, SlotsAgree, Alive, RecordShape, AtPin, AtPublish, AtUnpin
<1>4. RecordShape' BY DEF TypeOK, SlotsAgree, Alive, RecordShape, AtPin, AtPublish, AtUnpin
<1>5. PinsCounted' BY DEF TypeOK, PinsCounted, Pinned, SlotsAgree, Alive, RecordShape, AtPin, AtPublish, AtUnpin
<1>6. GameDeviceRecognized' BY DEF TypeOK, GameDeviceRecognized, Matched, Alive, SlotsAgree, RecordShape, AtPin, AtPublish, AtUnpin
<1> QED BY <1>1, <1>2, <1>3, <1>4, <1>5, <1>6

LEMMA StepPin == ASSUME IInv, Pin PROVE IInv'
<1> USE NullAssumption, AddrAssumption DEF IInv, Pin, Addr, Slot, AddrOf, heap, locals
<1>1. TypeOK' BY DEF TypeOK, PinsCounted, Pinned, SlotsAgree, RecordShape, AtPin, AtPublish, AtUnpin
<1>2. Alive' BY DEF TypeOK, Alive, PinsCounted, Pinned, RecordShape, AtPin, AtPublish, AtUnpin
<1>3. SlotsAgree' BY DEF TypeOK, SlotsAgree, Alive, RecordShape, AtPin, AtPublish, AtUnpin
<1>4. RecordShape' BY DEF TypeOK, SlotsAgree, Alive, RecordShape, AtPin, AtPublish, AtUnpin
<1>5. PinsCounted' BY DEF TypeOK, PinsCounted, Pinned, SlotsAgree, Alive, RecordShape, AtPin, AtPublish, AtUnpin
<1>6. GameDeviceRecognized' BY DEF TypeOK, GameDeviceRecognized, Matched, Alive, SlotsAgree, RecordShape, AtPin, AtPublish, AtUnpin
<1> QED BY <1>1, <1>2, <1>3, <1>4, <1>5, <1>6

LEMMA StepPublish == ASSUME IInv, Publish PROVE IInv'
<1> USE NullAssumption, AddrAssumption DEF IInv, Publish, Addr, Slot, AddrOf, heap, locals
<1>1. TypeOK' BY DEF TypeOK, PinsCounted, Pinned, SlotsAgree, RecordShape, AtPin, AtPublish, AtUnpin
<1>2. Alive' BY DEF TypeOK, Alive, PinsCounted, Pinned, RecordShape, AtPin, AtPublish, AtUnpin
<1>3. SlotsAgree' BY DEF TypeOK, SlotsAgree, Alive, RecordShape, AtPin, AtPublish, AtUnpin
<1>4. RecordShape' BY DEF TypeOK, SlotsAgree, Alive, RecordShape, AtPin, AtPublish, AtUnpin
<1>5. PinsCounted' BY DEF TypeOK, PinsCounted, Pinned, SlotsAgree, Alive, RecordShape, AtPin, AtPublish, AtUnpin
<1>6. GameDeviceRecognized' BY DEF TypeOK, GameDeviceRecognized, Matched, Alive, SlotsAgree, RecordShape, AtPin, AtPublish, AtUnpin
<1> QED BY <1>1, <1>2, <1>3, <1>4, <1>5, <1>6

LEMMA StepUnpin == ASSUME IInv, Unpin PROVE IInv'
<1> USE NullAssumption, AddrAssumption DEF IInv, Unpin, Unpinned, Addr, Slot, AddrOf, heap, locals
<1>1. TypeOK' BY DEF TypeOK, PinsCounted, Pinned, SlotsAgree, RecordShape, AtPin, AtPublish, AtUnpin, Kept
<1>2. Alive' BY DEF TypeOK, Alive, PinsCounted, Pinned, RecordShape, AtPin, AtPublish, AtUnpin, Kept
<1>3. SlotsAgree' BY DEF TypeOK, SlotsAgree, Alive, RecordShape, AtPin, AtPublish, AtUnpin
<1>4. RecordShape' BY DEF TypeOK, SlotsAgree, Alive, RecordShape, AtPin, AtPublish, AtUnpin
<1>5. PinsCounted' BY DEF TypeOK, PinsCounted, Pinned, SlotsAgree, Alive, RecordShape, AtPin, AtPublish, AtUnpin
<1>6. GameDeviceRecognized' BY DEF TypeOK, GameDeviceRecognized, Matched, Alive, SlotsAgree, RecordShape, AtPin, AtPublish, AtUnpin, Kept
<1> QED BY <1>1, <1>2, <1>3, <1>4, <1>5, <1>6

LEMMA InitIInv == Init => IInv
<1> SUFFICES ASSUME Init PROVE IInv
    OBVIOUS
<1>1. TypeOK
  <2>1. /\ owner \in [Addr -> {"free", "game", "foreign"}]
        /\ held \in [Addr -> BOOLEAN]
        /\ ours \in [Addr -> 0..1]
        BY DEF Init
  <2>2. /\ pin \in [Slot -> Addr \cup {Null}]
        /\ mirror \in [Slot -> Addr \cup {Null}]
        /\ \A k \in Slot : {pin[k], mirror[k]} \subseteq AddrOf[k] \cup {Null}
        BY DEF Init
  <2>3. /\ new \in [slot : Slot, obj : Addr \cup {Null}]
        /\ {new.obj, prev} \subseteq AddrOf[new.slot] \cup {Null}
        BY DEF Init, Slot
  <2>4. /\ tid \in Thread \cup {Null}
        /\ pc \in {"idle", "creating", "pin", "publish", "unpin"}
        /\ current \in AddrDev \cup {Null} /\ prereleased \in BOOLEAN
        BY DEF Init
  <2> QED BY <2>1, <2>2, <2>3, <2>4 DEF TypeOK
<1>2. Alive /\ SlotsAgree /\ RecordShape
      BY DEF Init, Alive, SlotsAgree, RecordShape, AtPin, AtPublish, AtUnpin, Slot
<1>3. PinsCounted
      BY NullAssumption DEF Init, PinsCounted, Pinned, Slot, Addr
<1>4. GameDeviceRecognized
      BY DEF Init, GameDeviceRecognized
<1> QED BY <1>1, <1>2, <1>3, <1>4 DEF IInv

LEMMA StepIInv == IInv /\ [Next]_vars => IInv'
<1> SUFFICES ASSUME IInv, [Next]_vars PROVE IInv'
    OBVIOUS
<1>1. CASE Recording
      BY <1>1, StepPin, StepPublish, StepUnpin DEF Recording
<1>2. CASE \E a \in Addr : Release(a) \/ CreateForeign(a)
      BY <1>2, StepRelease, StepCreateForeign
<1>3. CASE \E t \in Thread, a \in Addr9 : CreateD3d9(t, a) \/ BeginCreateDevice(t, a)
      BY <1>3, StepCreateD3d9, StepBeginCreateDevice
<1>4. CASE \E a \in AddrDev : DeviceCreated(a)
      BY <1>4, StepDeviceCreated
<1>5. CASE CreationFails
      BY <1>5, StepCreationFails
<1>6. CASE \E t \in Thread, a \in AddrDev : ResetSucceeds(t, a)
      BY <1>6, StepResetSucceeds
<1>7. CASE UNCHANGED vars
      BY <1>7 DEF vars, IInv, TypeOK, Alive, SlotsAgree, RecordShape, AtPin,
                  AtPublish, AtUnpin, PinsCounted, Pinned, GameDeviceRecognized,
                  Matched
<1> QED BY <1>1, <1>2, <1>3, <1>4, <1>5, <1>6, <1>7 DEF Next

THEOREM Invariance == Spec => []IInv
BY InitIInv, StepIInv, PTL DEF Spec

\* neopatch never owns more than one reference on an object, and the slots
\* hold addresses of their own kind.
THEOREM TypeCorrect == Spec => []TypeOK
<1>1. IInv => TypeOK
      BY DEF IInv
<1> QED BY <1>1, Invariance, PTL

\* Our references are the pins, and the one that record is about to return.
THEOREM PinsBalance == Spec => []PinsCounted
<1>1. IInv => PinsCounted
      BY DEF IInv
<1> QED BY <1>1, Invariance, PTL

\* The game's own device passes the gate from the moment it is recorded until
\* the game lets go of it, whatever creations were refused in between.
THEOREM OwnDeviceMatches == Spec => []GameDeviceRecognized
<1>1. IInv => GameDeviceRecognized
      BY DEF IInv
<1> QED BY <1>1, Invariance, PTL

\* A pin keeps its object alive against everything that its creator does.
THEOREM PinsKeepAlive == Spec => []PinnedLives
<1>1. ASSUME IInv, NEW k \in Slot, pin[k] # Null
      PROVE owner[pin[k]] # "free"
  <2>1. pin[k] \in Addr
        BY <1>1 DEF IInv, TypeOK
  <2>2. ours[pin[k]] # 0
        BY <1>1, <2>1 DEF IInv, TypeOK, PinsCounted, Pinned
  <2> QED BY <1>1, <2>1, <2>2 DEF IInv, Alive
<1>2. IInv => PinnedLives
      BY <1>1 DEF PinnedLives
<1> QED BY <1>2, Invariance, PTL

LEMMA KeptWhileRecorded ==
    ASSUME IInv, NEW k \in Slot, mirror[k] # Null,
           ~(k = "device" /\ (pin["device"] = Null \/ pc = "publish"))
    PROVE  ours[mirror[k]] > 0
<1>1. mirror[k] \in Addr
      BY DEF IInv, TypeOK
<1>2. pin[k] # Null
      BY DEF IInv, SlotsAgree, Slot
<1>3. Pinned(mirror[k]) \/ (pc = "publish" /\ prev = mirror[k])
      BY <1>2 DEF IInv, SlotsAgree, RecordShape, AtPublish, Pinned, Slot
<1> QED BY <1>1, <1>3 DEF IInv, TypeOK, PinsCounted

\* What a hook compares with is memory that we keep, but for a device whose
\* replacement has begun.
THEOREM RecordedIsKept == Spec => []MirrorsAreKept
<1>1. IInv => MirrorsAreKept
      BY KeptWhileRecorded DEF MirrorsAreKept
<1> QED BY <1>1, Invariance, PTL

LEMMA OwnedStays ==
    ASSUME IInv, [Next]_vars, NEW a \in Addr, ours[a] # 0, ours'[a] # 0
    PROVE  owner'[a] = owner[a]
<1>1. CASE owner' = owner
      BY <1>1
<1>2. CASE \E h : owner' = Kept(h, ours')
      BY <1>2, StepIInv DEF Kept, IInv, TypeOK
<1>3. CASE \E b \in Addr : \E who : Created(b, who)
      BY <1>3 DEF Created, IInv, TypeOK, Alive
<1> QED BY <1>1, <1>2, <1>3
        DEF Next, vars, heap, Recording, Pin, Publish, Unpin, Unpinned, Release,
            CreateForeign, CreateD3d9, BeginCreateDevice, DeviceCreated,
            CreationFails, ResetSucceeds, Addr

\* The allocator cannot hand a recorded address to another object: that of the
\* interface at any time, that of the device as long as it stays pinned.
THEOREM AddressesStay == Spec => NotRecycled
<1>1. ASSUME IInv, [Next]_vars, NEW k \in Slot,
             mirror[k] # Null, mirror'[k] = mirror[k],
             k = "d3d9" \/ (pin[k] = mirror[k] /\ pin'[k] = pin[k])
      PROVE owner'[mirror[k]] = owner[mirror[k]]
  <2>1. IInv'
        BY <1>1, StepIInv
  <2>2. mirror[k] \in Addr
        BY <1>1 DEF IInv, TypeOK
  <2>3. ours[mirror[k]] # 0
    <3>1. CASE k = "d3d9"
          BY <1>1, <2>2, <3>1, KeptWhileRecorded
    <3>2. CASE pin[k] = mirror[k]
          BY <1>1, <2>2, <3>2 DEF IInv, TypeOK, PinsCounted, Pinned
    <3> QED BY <1>1, <3>1, <3>2
  <2>4. ours'[mirror[k]] # 0
    <3>1. CASE k = "d3d9"
      <4>1. pin'[k] # Null
            BY <1>1, <2>1, <3>1 DEF IInv, SlotsAgree
      <4>2. Pinned(mirror[k])' \/ (pc' = "publish" /\ prev' = mirror[k])
            BY <1>1, <2>1, <3>1, <4>1
            DEF IInv, SlotsAgree, RecordShape, AtPublish, Pinned, Slot
      <4> QED BY <1>1, <2>1, <2>2, <4>2 DEF IInv, TypeOK, PinsCounted, Pinned
    <3>2. CASE pin[k] = mirror[k] /\ pin'[k] = pin[k]
          BY <1>1, <2>1, <2>2, <3>2 DEF IInv, TypeOK, PinsCounted, Pinned
    <3> QED BY <1>1, <3>1, <3>2
  <2> QED BY <1>1, <2>2, <2>3, <2>4, OwnedStays
<1>2. IInv /\ [Next]_vars
      => \A k \in Slot :
            /\ mirror[k] # Null /\ mirror'[k] = mirror[k]
            /\ k = "d3d9" \/ (pin[k] = mirror[k] /\ pin'[k] = pin[k])
            => owner'[mirror[k]] = owner[mirror[k]]
      BY <1>1
<1> QED BY <1>2, Invariance, PTL DEF Spec, NotRecycled

-----------------------------------------------------------------------------
(* Windows: their looks                                                    *)

\* A window keeps to the policy, but for being on screen; a popup of the game's
\* own keeps its frame and its place.
KeepsTo(p, l, popup) ==
    /\ p.on_top => l.topmost
    /\ ~p.defer /\ ~popup =>
          /\ l.style \cup {"VISIBLE"} = FrameStyle[p.frame] \cup {"CLIP"}
          /\ l.size = "cfg"
          /\ p.placed => l.place = "cfg"

\* The frames, and the bits that a policy is answerable for.
LEMMA FrameBits ==
    /\ \A f \in DOMAIN FrameStyle :
          /\ FrameStyle[f] \subseteq Bits /\ "VISIBLE" \in FrameStyle[f]
          /\ "CHILD" \notin FrameStyle[f] /\ "CLIP" \notin FrameStyle[f]
          /\ FrameStyle[f] \ {"VISIBLE"} \subseteq Mask
    /\ Mask = {"POPUP", "CAPTION", "BOXES", "THICK"}
  <1>1. DOMAIN FrameStyle = {"framed", "frameless", "borderless"}
    BY DEF FrameStyle
  <1>2. /\ FrameStyle["framed"] = {"CAPTION", "BOXES", "VISIBLE"}
        /\ FrameStyle["frameless"] = {"POPUP", "BOXES", "VISIBLE"}
        /\ FrameStyle["borderless"] = {"POPUP", "VISIBLE"}
    BY DEF FrameStyle
  <1>3. Mask = {"POPUP", "CAPTION", "BOXES", "THICK"}
    <2>1. UNION {FrameStyle[f] : f \in DOMAIN FrameStyle} =
              FrameStyle["framed"] \cup FrameStyle["frameless"] \cup FrameStyle["borderless"]
      BY <1>1
    <2> QED BY <1>2, <2>1 DEF Mask
  <1> QED BY <1>1, <1>2, <1>3 DEF Bits

\* What prep_main_window asks for.
LEMMA Prepared ==
    ASSUME policy \in PolicyType, NEW req \in Look
    PROVE  LET args == Prep(req) IN
           /\ args \in Look
           /\ args.topmost = (req.topmost \/ policy.on_top)
                \/ args.topmost = policy.on_top
           /\ policy.on_top => args.topmost
           /\ ~policy.defer /\ "POPUP" \notin req.style =>
                 /\ args.style = FrameStyle[policy.frame] /\ args.size = "cfg"
                 /\ args.place = IF policy.placed THEN "cfg" ELSE "default"
           /\ policy.defer \/ "POPUP" \in req.style => args.style = req.style
  <1>1. /\ policy.frame \in DOMAIN FrameStyle /\ policy.on_top \in BOOLEAN
        /\ policy.placed \in BOOLEAN /\ policy.defer \in BOOLEAN
    BY DEF PolicyType
  <1>2. FrameStyle[policy.frame] \subseteq Bits
    BY <1>1, FrameBits
  <1>3. CASE ~policy.defer /\ "POPUP" \notin req.style
    BY <1>1, <1>2, <1>3 DEF Prep, Look
  <1>4. CASE policy.defer \/ "POPUP" \in req.style
    <2>1. PICK t \in BOOLEAN : t = (req.topmost \/ policy.on_top)
      OBVIOUS
    <2>2. t \in BOOLEAN /\ Prep(req) = [req EXCEPT !.topmost = t]
      BY <1>4, <2>1 DEF Prep
    <2> QED BY <1>1, <1>4, <2>1, <2>2 DEF Look
  <1> QED BY <1>3, <1>4

LEMMA GameLooks ==
    /\ \A s \in GameStyle : s \subseteq Bits /\ "CHILD" \notin s
    /\ \A req \in GameLook : req \in Look /\ "CHILD" \notin req.style
    /\ Child \in Look /\ "CHILD" \in Child.style /\ "VISIBLE" \in Child.style
    /\ NoLook \in Look
  BY DEF GameStyle, GameLook, Look, Overlapped, Bits, Child, NoLook

\* What the system makes of it.
LEMMA MadeOf ==
    ASSUME NEW args \in Look
    PROVE  /\ Made(args) \in Look /\ Made(args).style = args.style \cup {"CLIP"}
           /\ Made(args).topmost = args.topmost /\ Made(args).size = args.size
           /\ args.place # "default" => Made(args).place = args.place
  <1>1. PICK p \in {"cfg", "other", "default"} :
            p = IF args.place = "default" THEN "other" ELSE args.place
    BY DEF Look
  <1>2. PICK s \in SUBSET Bits : s = args.style \cup {"CLIP"}
    BY DEF Look, Bits
  <1>3. Made(args) = [args EXCEPT !.style = s, !.place = p]
    BY <1>1, <1>2 DEF Made
  <1>4. p \in {"cfg", "other", "default"} /\ s \in SUBSET Bits
    BY <1>1, <1>2
  <1> QED BY <1>1, <1>2, <1>3, <1>4 DEF Look

\* A window that comes through the hook keeps to the policy.
LEMMA HookedKeepsTo ==
    ASSUME policy \in PolicyType, NEW req \in GameLook
    PROVE  LET l == Made(Prep(req)) IN
           /\ l \in Look /\ "CLIP" \in l.style /\ "CHILD" \notin l.style
           /\ KeepsTo(policy, l, "POPUP" \in req.style)
  <1>1. req \in Look /\ "CHILD" \notin req.style
    BY GameLooks
  <1>2. PICK args \in Look : args = Prep(req)
    BY <1>1, Prepared
  <1>3. /\ policy.on_top => args.topmost
        /\ ~policy.defer /\ "POPUP" \notin req.style =>
              /\ args.style = FrameStyle[policy.frame] /\ args.size = "cfg"
              /\ args.place = IF policy.placed THEN "cfg" ELSE "default"
        /\ policy.defer \/ "POPUP" \in req.style => args.style = req.style
    BY <1>1, <1>2, Prepared
  <1>4. PICK l \in Look : l = Made(args)
    BY <1>2, MadeOf
  <1>5. /\ l.style = args.style \cup {"CLIP"} /\ l.topmost = args.topmost
        /\ l.size = args.size
        /\ args.place # "default" => l.place = args.place
    BY <1>2, <1>4, MadeOf
  <1>6. policy.frame \in DOMAIN FrameStyle
    BY DEF PolicyType
  <1>7. "VISIBLE" \in FrameStyle[policy.frame] /\ "CHILD" \notin FrameStyle[policy.frame]
    BY <1>6, FrameBits
  <1>8. "CLIP" \in l.style /\ "CHILD" \notin l.style
    BY <1>1, <1>3, <1>5, <1>7
  <1>9. KeepsTo(policy, l, "POPUP" \in req.style)
    <2>1. policy.on_top => l.topmost
      BY <1>3, <1>5
    <2>2. ASSUME ~policy.defer, "POPUP" \notin req.style
          PROVE  /\ l.style \cup {"VISIBLE"} = FrameStyle[policy.frame] \cup {"CLIP"}
                 /\ l.size = "cfg"
                 /\ policy.placed => l.place = "cfg"
      <3>1. /\ args.style = FrameStyle[policy.frame] /\ args.size = "cfg"
            /\ args.place = IF policy.placed THEN "cfg" ELSE "default"
        BY <1>3, <2>2
      <3> QED BY <1>5, <1>7, <3>1
    <2> QED BY <2>1, <2>2 DEF KeepsTo
  <1> QED BY <1>2, <1>4, <1>8, <1>9

\* A window that is restyled for a device keeps to the policy, if the system
\* takes it, and is off screen only when its frame changes.
LEMMA RestyledKeepsTo ==
    ASSUME policy \in PolicyType, NEW h \in Hwnd, NEW ok \in BOOLEAN, look[h] \in Look,
           "CLIP" \in look[h].style, "CHILD" \notin look[h].style
    PROVE  LET l == Restyled(h, ok) IN
           /\ l \in Look /\ "CLIP" \in l.style /\ "CHILD" \notin l.style
           /\ "VISIBLE" \in l.style <=> Visible(h) /\ ~Hides(h)
           /\ ok => KeepsTo(policy, l, "POPUP" \in look[h].style)
  <1>1. PICK live \in Look : live = look[h]
    OBVIOUS
  <1>2. PICK args \in Look : args = Prep(live)
    BY <1>1, Prepared
  <1>3. /\ policy.on_top => args.topmost
        /\ ~policy.defer /\ "POPUP" \notin live.style =>
              /\ args.style = FrameStyle[policy.frame] /\ args.size = "cfg"
              /\ args.place = IF policy.placed THEN "cfg" ELSE "default"
        /\ policy.defer \/ "POPUP" \in live.style => args.style = live.style
    BY <1>1, <1>2, Prepared
  <1>4. PICK s : s = (live.style \ Mask) \cup (args.style \cap Mask)
    OBVIOUS
  <1>5. live.style \subseteq Bits /\ "CLIP" \in live.style /\ "CHILD" \notin live.style
        /\ args.style \subseteq Bits
    BY <1>1, <1>2 DEF Look
  <1>6. /\ s \subseteq Bits /\ "CLIP" \in s /\ "CHILD" \notin s
        /\ "VISIBLE" \in s <=> "VISIBLE" \in live.style
        /\ s = (live.style \cap {"VISIBLE", "CLIP"}) \cup (args.style \cap Mask)
    BY <1>4, <1>5, FrameBits DEF Bits
  <1>7. ~policy.defer /\ "POPUP" \notin live.style =>
            s \cup {"VISIBLE"} = FrameStyle[policy.frame] \cup {"CLIP"}
    <2> SUFFICES ASSUME ~policy.defer, "POPUP" \notin live.style
                 PROVE  s \cup {"VISIBLE"} = FrameStyle[policy.frame] \cup {"CLIP"}
      OBVIOUS
    <2>1. args.style = FrameStyle[policy.frame]
      BY <1>3
    <2>2. policy.frame \in DOMAIN FrameStyle
      BY DEF PolicyType
    <2>3. /\ "VISIBLE" \in FrameStyle[policy.frame]
          /\ FrameStyle[policy.frame] \ {"VISIBLE"} \subseteq Mask
      BY <2>2, FrameBits
    <2>4. FrameStyle[policy.frame] \cap Mask = FrameStyle[policy.frame] \ {"VISIBLE"}
      BY <2>3, FrameBits
    <2> QED BY <1>6, <2>1, <2>3, <2>4
  <1>8. PICK y \in SUBSET Bits : y = IF Hides(h) THEN s \ {"VISIBLE"} ELSE s
    BY <1>6
  <1>9. /\ "CLIP" \in y /\ "CHILD" \notin y
        /\ "VISIBLE" \in y <=> "VISIBLE" \in live.style /\ ~Hides(h)
        /\ y \cup {"VISIBLE"} = s \cup {"VISIBLE"}
    BY <1>6, <1>8
  <1>10. PICK p \in {"cfg", "other", "default"} :
            p = IF args.place = "default" THEN live.place ELSE args.place
    BY <1>1, <1>2 DEF Look
  <1>11. Planned(live) = [style |-> s, topmost |-> args.topmost, place |-> p, size |-> args.size]
    BY <1>2, <1>4, <1>10 DEF Planned
  <1>12. Restyled(h, ok) = IF ok THEN [style |-> y, topmost |-> args.topmost, place |-> p,
                                       size |-> args.size]
                           ELSE [live EXCEPT !.style = y]
    BY <1>1, <1>8, <1>11 DEF Restyled
  <1>13. CASE ok
    <2>1. PICK l : l = [style |-> y, topmost |-> args.topmost, place |-> p, size |-> args.size]
      OBVIOUS
    <2>2. /\ l.style = y /\ l.topmost = args.topmost /\ l.place = p /\ l.size = args.size
          /\ l \in Look
      BY <1>2, <1>8, <1>10, <2>1 DEF Look
    <2>3. KeepsTo(policy, l, "POPUP" \in live.style)
      BY <1>3, <1>7, <1>9, <1>10, <2>2 DEF KeepsTo
    <2>4. Restyled(h, ok) = l
      BY <1>12, <1>13, <2>1
    <2> QED BY <1>1, <1>9, <2>2, <2>3, <2>4 DEF Visible
  <1>14. CASE ~ok
    <2>1. PICK l : l = [live EXCEPT !.style = y]
      OBVIOUS
    <2>2. y \in SUBSET Bits /\ live \in Look
      BY <1>1, <1>8
    <2>3. l.style = y /\ l \in Look
      BY <2>1, <2>2 DEF Look
    <2>4. Restyled(h, ok) = l
      BY <1>12, <1>14, <2>1
    <2> QED BY <1>1, <1>9, <1>14, <2>3, <2>4 DEF Visible
  <1> QED BY <1>13, <1>14

-----------------------------------------------------------------------------
(* Windows: the invariant                                                  *)

WinKinds ==
    /\ policy \in PolicyType /\ alive \subseteq Hwnd
    /\ look \in [Hwnd -> Look] /\ suffixes \in [Hwnd -> Nat]
    /\ \A h \in alive : "CLIP" \in look[h].style

\* The game has one render window at a time.
OneTop == \A g, h : TopLevel(g) /\ TopLevel(h) => g = h

\* While a device is created, its window may be hidden for a restyle.
OnScreen ==
    /\ \A h \in alive :
          Visible(h) <=> h \in mapped /\ ~(creating /\ device.hidden /\ h = device.hwnd)
    /\ creating /\ device.hidden => device.hwnd \in alive /\ device.hwnd \in mapped

\* The suffix is on the title that is remembered to have it.
SuffixOnce ==
    \A h \in Hwnd : suffixes[h] = 0 \/ (suffixes[h] = 1 /\ titled = h /\ TopLevel(h))

\* A window that is remembered as styled keeps to the policy; one that is not
\* is a popup only if the game made it one.
StyledKeeps ==
    \A h \in Hwnd :
        /\ TopLevel(h) /\ styled = h /\ h \notin exempt => KeepsTo(policy, look[h], h \in popups)
        /\ TopLevel(h) /\ styled # h => ("POPUP" \in look[h].style => h \in popups)

\* A device is created on a window that is remembered, and there is a window
\* to close.
Claimed ==
    creating /\ TopLevel(device.hwnd) =>
        /\ main \in alive
        /\ styled = device.hwnd \/ device.hwnd \in exempt

WinInv == WinKinds /\ OneTop /\ OnScreen /\ SuffixOnce /\ StyledKeeps /\ Claimed

LEMMA WinStart ==
    ASSUME policy' \in Policy, alive' = {}, look' = [h \in Hwnd |-> NoLook],
           suffixes' = [h \in Hwnd |-> 0], creating' = FALSE
    PROVE  WinInv'
  BY PolicyAssumption, GameLooks DEF WinInv, WinKinds, OneTop, OnScreen, SuffixOnce,
     StyledKeeps, Claimed, TopLevel

LEMMA WinInit == WindowInit => WinInv
  BY PolicyAssumption, GameLooks DEF WindowInit, WinInv, WinKinds, OneTop, OnScreen,
     SuffixOnce, StyledKeeps, Claimed, TopLevel

-----------------------------------------------------------------------------
(* Windows: the game and other tools                                       *)

\* A new render window, through the hook or past it.
LEMMA CreateMainKeeps ==
    ASSUME WinInv, NEW h \in Hwnd, NEW req \in GameLook, CreateMain(h, req)
    PROVE  WinInv'
  <1>1. /\ ~creating /\ h \notin alive /\ alive' = alive \cup {h}
        /\ mapped' = IF Visible(h)' THEN mapped \cup {h} ELSE mapped \ {h}
        /\ UNCHANGED <<policy, creating, device>>
        /\ h \in popups' <=> "POPUP" \in req.style
        /\ \A g : ~TopLevel(g)
    BY DEF CreateMain, Mapped, MadePopup, TopLevel
  <1>2. PICK l : /\ look' = [look EXCEPT ![h] = l]
                 /\ l \in Look /\ "CLIP" \in l.style /\ "CHILD" \notin l.style
                 /\ \/ /\ styled' = styled /\ (styled = h => h \in exempt')
                       /\ "POPUP" \in l.style => "POPUP" \in req.style
                    \/ styled' = h /\ KeepsTo(policy, l, "POPUP" \in req.style)
    <2>1. CASE CreateUnhooked(h, req)
      <3>1. PICK l : l = Made(req)
        OBVIOUS
      <3>2. l \in Look /\ l.style = req.style \cup {"CLIP"} /\ "CHILD" \notin req.style
        BY <3>1, GameLooks, MadeOf
      <3> QED BY <2>1, <3>1, <3>2 DEF CreateUnhooked, claims
    <2>2. CASE \E readable \in BOOLEAN : CreateHooked(h, req, readable)
      BY <2>2, HookedKeepsTo DEF CreateHooked, WinInv, WinKinds
    <2> QED BY <2>1, <2>2 DEF CreateMain
  <1>3. PICK n : /\ suffixes' = [suffixes EXCEPT ![h] = n]
                 /\ n = 0 \/ (n = 1 /\ titled' = h)
    BY DEF CreateMain, CreateUnhooked, CreateHooked
  <1>4. /\ look' \in [Hwnd -> Look] /\ look'[h] = l /\ \A g \in Hwnd : g # h => look'[g] = look[g]
        /\ suffixes' \in [Hwnd -> Nat] /\ suffixes'[h] = n
        /\ \A g \in Hwnd : g # h => suffixes'[g] = suffixes[g]
    BY <1>2, <1>3 DEF WinInv, WinKinds
  <1>5. WinKinds'
    BY <1>1, <1>2, <1>4 DEF WinInv, WinKinds
  <1>6. \A g : TopLevel(g)' <=> g = h
    BY <1>1, <1>2, <1>4 DEF TopLevel, WinInv, WinKinds
  <1>7. OneTop'
    BY <1>6 DEF OneTop
  <1>8. OnScreen'
    BY <1>1, <1>4 DEF WinInv, WinKinds, OnScreen, Visible
  <1>9. SuffixOnce'
    BY <1>1, <1>3, <1>4, <1>6 DEF WinInv, SuffixOnce
  <1>10. StyledKeeps'
    <2> SUFFICES /\ styled' = h /\ h \notin exempt' =>
                        KeepsTo(policy, look'[h], h \in popups')
                 /\ styled' # h => ("POPUP" \in look'[h].style => h \in popups')
      BY <1>1, <1>6 DEF StyledKeeps, KeepsTo
    <2>1. CASE /\ styled' = styled /\ (styled = h => h \in exempt')
               /\ "POPUP" \in l.style => "POPUP" \in req.style
      BY <1>1, <1>4, <2>1
    <2>2. CASE styled' = h /\ KeepsTo(policy, l, "POPUP" \in req.style)
      BY <1>1, <1>4, <2>2 DEF KeepsTo
    <2> QED BY <1>2, <2>1, <2>2
  <1>11. Claimed'
    BY <1>1 DEF Claimed
  <1> QED BY <1>5, <1>7, <1>8, <1>9, <1>10, <1>11 DEF WinInv

LEMMA CreateChildKeeps ==
    ASSUME WinInv, NEW h \in Hwnd, CreateChild(h)
    PROVE  WinInv'
  <1>1. /\ ~creating /\ h \notin alive /\ alive' = alive \cup {h} /\ mapped' = mapped \cup {h}
        /\ UNCHANGED <<policy, main, styled, titled, creating, device, popups, exempt>>
    BY DEF CreateChild, claims
  <1>2. PICK l \in Look : /\ look' = [look EXCEPT ![h] = l]
                          /\ {"CLIP", "CHILD", "VISIBLE"} \subseteq l.style
    BY GameLooks, MadeOf DEF CreateChild
  <1>3. /\ look' \in [Hwnd -> Look] /\ look'[h] = l /\ \A g \in Hwnd : g # h => look'[g] = look[g]
        /\ suffixes' \in [Hwnd -> Nat] /\ suffixes'[h] = 0
        /\ \A g \in Hwnd : g # h => suffixes'[g] = suffixes[g]
    BY <1>2 DEF WinInv, WinKinds, CreateChild
  <1>4. WinKinds'
    BY <1>1, <1>2, <1>3 DEF WinInv, WinKinds
  <1>5. \A g : TopLevel(g)' <=> TopLevel(g)
    BY <1>1, <1>2, <1>3 DEF TopLevel, WinInv, WinKinds
  <1>6. OneTop'
    BY <1>5 DEF WinInv, OneTop
  <1>7. OnScreen'
    BY <1>1, <1>2, <1>3 DEF WinInv, WinKinds, OnScreen, Visible
  <1>8. SuffixOnce'
    BY <1>1, <1>3, <1>5 DEF WinInv, SuffixOnce
  <1>9. StyledKeeps'
    BY <1>1, <1>3, <1>5 DEF WinInv, StyledKeeps, TopLevel
  <1>10. Claimed'
    BY <1>1 DEF Claimed
  <1> QED BY <1>4, <1>6, <1>7, <1>8, <1>9, <1>10 DEF WinInv

LEMMA DestroyKeeps ==
    ASSUME WinInv, NEW h \in Hwnd, Destroy(h)
    PROVE  WinInv'
  <1>1. /\ ~creating /\ h \in alive /\ alive' \subseteq alive
        /\ alive' = IF TopLevel(h) THEN {} ELSE alive \ {h}
        /\ look' = [g \in Hwnd |-> IF g \in alive' THEN look[g] ELSE NoLook]
        /\ suffixes' = [g \in Hwnd |-> IF g \in alive' THEN suffixes[g] ELSE 0]
        /\ mapped' = mapped \cap alive' /\ exempt' = exempt \cap alive'
        /\ popups' = popups \cap alive'
        /\ UNCHANGED <<policy, main, styled, titled, creating, device>>
    BY DEF Destroy, claims
  <1>2. \A g \in alive' : look'[g] = look[g] /\ suffixes'[g] = suffixes[g]
    BY <1>1 DEF WinInv, WinKinds
  <1>3. WinKinds'
    BY <1>1, <1>2, GameLooks DEF WinInv, WinKinds
  <1>4. \A g : TopLevel(g)' <=> g \in alive' /\ TopLevel(g)
    BY <1>1, <1>2 DEF TopLevel
  <1>5. OneTop'
    BY <1>4 DEF WinInv, OneTop
  <1>6. OnScreen'
    BY <1>1, <1>2 DEF WinInv, OnScreen, Visible
  <1>7. SuffixOnce'
    BY <1>1, <1>2, <1>4 DEF WinInv, SuffixOnce
  <1>8. StyledKeeps'
    <2>1. \A g \in alive' : (g \in popups') = (g \in popups)
      BY <1>1
    <2> QED BY <1>1, <1>2, <1>4, <2>1 DEF WinInv, StyledKeeps, KeepsTo
  <1>9. Claimed'
    BY <1>1 DEF Claimed
  <1> QED BY <1>3, <1>5, <1>6, <1>7, <1>8, <1>9 DEF WinInv

LEMMA GameRestylesKeeps ==
    ASSUME WinInv, NEW h \in Hwnd, NEW style \in GameStyle, GameRestyles(h, style)
    PROVE  WinInv'
  <1>1. /\ TopLevel(h) /\ h \in alive
        /\ creating => ("VISIBLE" \in style <=> Visible(h))
        /\ exempt' = exempt \cup {h}
        /\ h \in popups' <=> "POPUP" \in style
        /\ \A g \in Hwnd : g # h => (g \in popups') = (g \in popups)
        /\ mapped' = IF creating THEN mapped
                     ELSE IF Visible(h)' THEN mapped \cup {h} ELSE mapped \ {h}
        /\ UNCHANGED <<policy, alive, suffixes, main, styled, titled, creating, device>>
    BY DEF GameRestyles, claims, TopLevel, Mapped, MadePopup
  <1>2. PICK l \in Look : /\ look' = [look EXCEPT ![h] = l]
                          /\ l.style = style \cup {"CLIP"}
    <2>1. style \subseteq Bits
      BY GameLooks
    <2>2. PICK y \in SUBSET Bits : y = style \cup {"CLIP"}
      BY <2>1 DEF Bits
    <2>3. PICK live \in Look : live = look[h]
      BY DEF WinInv, WinKinds
    <2>4. PICK l : l = [live EXCEPT !.style = y, !.size = "other"]
      OBVIOUS
    <2>5. y \in SUBSET Bits /\ live \in Look
      BY <2>2, <2>3
    <2>6. l \in Look /\ l.style = y
      BY <2>4, <2>5 DEF Look
    <2>7. look' = [look EXCEPT ![h] = l]
      BY <2>2, <2>3, <2>4 DEF GameRestyles, WinInv, WinKinds
    <2> QED BY <2>2, <2>6, <2>7
  <1>3. look' \in [Hwnd -> Look] /\ look'[h] = l /\ \A g \in Hwnd : g # h => look'[g] = look[g]
    BY <1>2 DEF WinInv, WinKinds
  <1>4. WinKinds'
    BY <1>1, <1>2, <1>3 DEF WinInv, WinKinds
  <1>5. \A g : TopLevel(g)' <=> TopLevel(g)
    <2>1. "CHILD" \notin l.style
      BY <1>2, GameLooks
    <2> QED BY <1>1, <1>3, <2>1 DEF WinInv, WinKinds, TopLevel
  <1>6. OneTop'
    BY <1>5 DEF WinInv, OneTop
  <1>7. OnScreen'
    <2>1. Visible(h)' <=> "VISIBLE" \in style
      BY <1>2, <1>3 DEF Visible
    <2>2. \A g \in alive : g # h => (Visible(g)' <=> Visible(g))
      BY <1>3 DEF WinInv, WinKinds, Visible
    <2> QED BY <1>1, <2>1, <2>2 DEF WinInv, OnScreen
  <1>8. SuffixOnce'
    BY <1>1, <1>5 DEF WinInv, SuffixOnce
  <1>9. StyledKeeps'
    BY <1>1, <1>2, <1>3, <1>5 DEF WinInv, OneTop, StyledKeeps, KeepsTo
  <1>10. Claimed'
    BY <1>1, <1>5 DEF WinInv, Claimed
  <1> QED BY <1>4, <1>6, <1>7, <1>8, <1>9, <1>10 DEF WinInv

\* What leaves the windows alone.
LEMMA SameWindows ==
    ASSUME WinInv, UNCHANGED <<policy, alive, look, suffixes, main, styled, titled,
                               creating, device, mapped, popups, exempt>>
    PROVE  WinInv'
  BY DEF WinInv, WinKinds, OneTop, OnScreen, SuffixOnce, StyledKeeps, Claimed, TopLevel,
         Visible, KeepsTo

LEMMA WindowOthersKeep == ASSUME WinInv, WindowOthers PROVE WinInv'
  <1>1. CASE Rebind
    BY <1>1, SameWindows DEF Rebind, claims
  <1> QED BY <1>1, CreateMainKeeps, CreateChildKeeps, DestroyKeeps, GameRestylesKeeps
          DEF WindowOthers

-----------------------------------------------------------------------------
(* Windows: the creation of a device                                       *)

\* A window that is not a render window is left alone.
LEMMA OtherDeviceWindow ==
    ASSUME WinInv, NEW h, RestyleDeviceWindow(h), ~TopLevel(h)
    PROVE  WinInv'
  <1>1. /\ ~creating /\ creating' /\ device' = [hwnd |-> h, hidden |-> FALSE]
        /\ UNCHANGED <<policy, alive, look, suffixes, main, styled, titled, mapped, popups,
                       exempt>>
    BY DEF RestyleDeviceWindow, claims
  <1>2. device'.hwnd = h /\ device'.hidden = FALSE
    BY <1>1
  <1>3. \A g : TopLevel(g)' <=> TopLevel(g)
    BY <1>1 DEF TopLevel
  <1> QED BY <1>1, <1>2, <1>3 DEF WinInv, WinKinds, OneTop, OnScreen, SuffixOnce,
             StyledKeeps, Claimed, Visible

\* The render window gets its suffix and the policy, unless it has them.
LEMMA RestyleKeeps ==
    ASSUME WinInv, NEW h, RestyleDeviceWindow(h), TopLevel(h)
    PROVE  WinInv'
  <1>1. /\ ~creating /\ creating' /\ h \in alive /\ h \in Hwnd
        /\ UNCHANGED <<policy, alive, mapped, popups>>
        /\ Record(h) /\ Suffix(h) /\ Restyle(h)
    BY DEF RestyleDeviceWindow, TopLevel, WinInv, WinKinds
  <1>2. PICK l \in Look, hidden \in BOOLEAN :
            /\ look' = [look EXCEPT ![h] = l]
            /\ "CLIP" \in l.style /\ "CHILD" \notin l.style
            /\ device' = [hwnd |-> h, hidden |-> hidden]
            /\ "VISIBLE" \in l.style <=> Visible(h) /\ ~hidden
            /\ hidden => Visible(h)
            /\ styled' = h \/ h \in exempt'
            /\ styled' = h /\ h \notin exempt' => KeepsTo(policy, l, h \in popups)
            /\ styled' # h => ("POPUP" \in l.style => h \in popups)
    <2>1. PICK live \in Look : live = look[h]
      BY <1>1 DEF WinInv, WinKinds
    <2>2. "CLIP" \in live.style /\ "CHILD" \notin live.style
      BY <1>1, <2>1 DEF WinInv, WinKinds, TopLevel
    <2>3. look = [look EXCEPT ![h] = live]
      BY <1>1, <2>1 DEF WinInv, WinKinds
    <2>4. CASE /\ styled = h /\ UNCHANGED <<look, styled, exempt>>
               /\ device' = [hwnd |-> h, hidden |-> FALSE]
      BY <1>1, <2>1, <2>2, <2>3, <2>4 DEF WinInv, StyledKeeps, Visible
    <2>5. CASE /\ UNCHANGED <<look, styled>> /\ exempt' = exempt \cup {h}
               /\ device' = [hwnd |-> h, hidden |-> FALSE]
      BY <1>1, <2>1, <2>2, <2>3, <2>5 DEF WinInv, StyledKeeps, Visible
    <2>6. ASSUME NEW ok \in BOOLEAN, styled # h, look' = [look EXCEPT ![h] = Restyled(h, ok)],
                 styled' = h, exempt' = IF ok THEN exempt \ {h} ELSE exempt \cup {h},
                 device' = [hwnd |-> h, hidden |-> Hides(h)]
          PROVE  \E m \in Look, hides \in BOOLEAN :
                    /\ look' = [look EXCEPT ![h] = m]
                    /\ "CLIP" \in m.style /\ "CHILD" \notin m.style
                    /\ device' = [hwnd |-> h, hidden |-> hides]
                    /\ "VISIBLE" \in m.style <=> Visible(h) /\ ~hides
                    /\ hides => Visible(h)
                    /\ styled' = h \/ h \in exempt'
                    /\ styled' = h /\ h \notin exempt' => KeepsTo(policy, m, h \in popups)
                    /\ styled' # h => ("POPUP" \in m.style => h \in popups)
      <3>1. PICK hides \in BOOLEAN : hides = Hides(h) /\ (hides => Visible(h))
        BY DEF Hides
      <3>2. PICK m : m = Restyled(h, ok)
        OBVIOUS
      <3>3. /\ m \in Look /\ "CLIP" \in m.style /\ "CHILD" \notin m.style
            /\ "VISIBLE" \in m.style <=> Visible(h) /\ ~Hides(h)
            /\ ok => KeepsTo(policy, m, "POPUP" \in look[h].style)
        BY <1>1, <2>1, <2>2, <3>2, RestyledKeepsTo DEF WinInv, WinKinds
      <3>4. h \notin exempt' => ok
        BY <2>6
      <3>5. "POPUP" \in look[h].style => h \in popups
        BY <1>1, <2>6 DEF WinInv, StyledKeeps
      <3>6. ok => KeepsTo(policy, m, h \in popups)
        BY <3>3, <3>5 DEF KeepsTo
      <3> QED BY <2>6, <3>1, <3>2, <3>3, <3>4, <3>6
    <2> QED BY <1>1, <2>4, <2>5, <2>6 DEF Restyle
  <1>3. /\ look' \in [Hwnd -> Look] /\ look'[h] = l /\ \A g \in Hwnd : g # h => look'[g] = look[g]
        /\ device'.hwnd = h /\ device'.hidden = hidden
    BY <1>1, <1>2 DEF WinInv, WinKinds
  <1>4. \A g : TopLevel(g) <=> g = h
    BY DEF WinInv, OneTop
  <1>5. \A g : TopLevel(g)' <=> g = h
    BY <1>1, <1>2, <1>3, <1>4 DEF TopLevel, WinInv, WinKinds
  <1>6. /\ suffixes' \in [Hwnd -> Nat] /\ \A g \in Hwnd : g # h => suffixes'[g] = suffixes[g]
        /\ suffixes'[h] = 0 \/ (suffixes'[h] = 1 /\ titled' = h)
    <2>1. CASE titled = h /\ UNCHANGED <<suffixes, titled>>
      BY <1>1, <2>1 DEF WinInv, WinKinds, SuffixOnce
    <2>2. CASE /\ titled # h /\ titled' = h
               /\ \E readable \in BOOLEAN :
                    suffixes' = IF readable THEN [suffixes EXCEPT ![h] = @ + 1] ELSE suffixes
      <3>1. suffixes[h] = 0
        BY <1>1, <2>2 DEF WinInv, SuffixOnce
      <3> QED BY <1>1, <2>2, <3>1 DEF WinInv, WinKinds
    <2> QED BY <1>1, <2>1, <2>2 DEF Suffix
  <1>7. WinKinds'
    BY <1>1, <1>2, <1>3, <1>6 DEF WinInv, WinKinds
  <1>8. OneTop'
    BY <1>5 DEF OneTop
  <1>9. OnScreen'
    <2>1. Visible(h)' <=> Visible(h) /\ ~hidden
      BY <1>2, <1>3 DEF Visible
    <2>2. \A g \in alive : g # h => (Visible(g)' <=> Visible(g))
      BY <1>3 DEF WinInv, WinKinds, Visible
    <2>3. Visible(h) <=> h \in mapped
      BY <1>1 DEF WinInv, OnScreen
    <2> QED BY <1>1, <1>2, <1>3, <2>1, <2>2, <2>3 DEF WinInv, OnScreen
  <1>10. SuffixOnce'
    BY <1>4, <1>5, <1>6 DEF WinInv, SuffixOnce
  <1>11. StyledKeeps'
    BY <1>1, <1>2, <1>3, <1>5 DEF StyledKeeps, KeepsTo
  <1>12. main' \in alive
    BY <1>1 DEF Record
  <1>13. Claimed'
    BY <1>1, <1>2, <1>3, <1>12 DEF Claimed
  <1> QED BY <1>7, <1>8, <1>9, <1>10, <1>11, <1>13 DEF WinInv

\* The window is shown when its creation has ended.
LEMMA ShowShows ==
    ASSUME WinInv, Show
    PROVE  /\ look' \in [Hwnd -> Look]
           /\ \A h \in Hwnd :
                /\ look'[h].style = look[h].style \cup
                      (IF h = device.hwnd /\ h \in alive THEN {"VISIBLE"} ELSE {})
                /\ look'[h].topmost = look[h].topmost
                /\ look'[h].place = look[h].place /\ look'[h].size = look[h].size
  <1>1. ASSUME NEW live \in Look
        PROVE  LET l == [live EXCEPT !.style = @ \cup {"VISIBLE"}] IN
               /\ l \in Look /\ l.style = live.style \cup {"VISIBLE"}
               /\ l.topmost = live.topmost /\ l.place = live.place /\ l.size = live.size
    <2>1. PICK y \in SUBSET Bits : y = live.style \cup {"VISIBLE"}
      BY DEF Look, Bits
    <2>2. y \in SUBSET Bits
      BY <2>1
    <2>3. PICK l : l = [live EXCEPT !.style = y]
      OBVIOUS
    <2>4. /\ l \in Look /\ l.style = y /\ l.topmost = live.topmost /\ l.place = live.place
          /\ l.size = live.size
      BY <2>2, <2>3 DEF Look
    <2>5. l = [live EXCEPT !.style = @ \cup {"VISIBLE"}]
      BY <2>1, <2>3
    <2> QED BY <2>1, <2>4, <2>5
  <1>2. \A h \in Hwnd : look[h] \in Look
    BY DEF WinInv, WinKinds
  <1>3. ASSUME NEW h \in Hwnd
        PROVE  /\ look'[h] \in Look
               /\ look'[h].style = look[h].style \cup
                     (IF h = device.hwnd /\ h \in alive THEN {"VISIBLE"} ELSE {})
               /\ look'[h].topmost = look[h].topmost
               /\ look'[h].place = look[h].place /\ look'[h].size = look[h].size
    <2>1. PICK live \in Look : live = look[h]
      BY <1>2
    <2>2. CASE h = device.hwnd /\ h \in alive
      <3>1. PICK l : l = [live EXCEPT !.style = @ \cup {"VISIBLE"}]
        OBVIOUS
      <3>2. look'[h] = l
        BY <2>1, <2>2, <3>1 DEF Show
      <3>3. /\ l \in Look /\ l.style = live.style \cup {"VISIBLE"}
            /\ l.topmost = live.topmost /\ l.place = live.place /\ l.size = live.size
        BY <1>1, <3>1
      <3> QED BY <2>1, <2>2, <3>2, <3>3
    <2>3. CASE ~(h = device.hwnd /\ h \in alive)
      <3>1. look'[h] = live
        BY <2>1, <2>3 DEF Show
      <3> QED BY <2>1, <2>3, <3>1
    <2> QED BY <2>2, <2>3
  <1>4. look' \in [Hwnd -> Look]
    BY <1>3 DEF Show
  <1> QED BY <1>3, <1>4

LEMMA EndCreationKeeps ==
    ASSUME WinInv, NEW ok \in BOOLEAN, EndCreation(ok)
    PROVE  WinInv'
  <1>1. /\ creating /\ ~creating'
        /\ mapped' = IF ok THEN mapped \cup ({device.hwnd} \cap Hwnd) ELSE mapped
        /\ UNCHANGED <<policy, alive, suffixes, main, styled, titled, popups, exempt>>
        /\ Show \/ (~ok /\ ~device.hidden /\ look' = look)
        /\ Show => ok \/ device.hidden \/ look' = look
    BY DEF EndCreation, Restore, claims
  <1>2. CASE Show
    <2>1. /\ look' \in [Hwnd -> Look]
          /\ \A h \in Hwnd :
                /\ look'[h].style = look[h].style \cup
                      (IF h = device.hwnd /\ h \in alive THEN {"VISIBLE"} ELSE {})
                /\ look'[h].topmost = look[h].topmost
                /\ look'[h].place = look[h].place /\ look'[h].size = look[h].size
      BY <1>2, ShowShows
    <2>2. alive \subseteq Hwnd
      BY DEF WinInv, WinKinds
    <2>3. \A g : TopLevel(g)' <=> TopLevel(g)
      BY <1>1, <2>1, <2>2 DEF TopLevel
    <2>4. \A g \in alive : Visible(g)' <=> Visible(g) \/ g = device.hwnd
      BY <2>1, <2>2 DEF Visible
    <2>5. WinKinds'
      BY <1>1, <2>1, <2>2 DEF WinInv, WinKinds
    <2>6. OneTop'
      BY <2>3 DEF WinInv, OneTop
    <2>7. OnScreen'
      <3>1. CASE ok
        BY <1>1, <2>2, <2>4, <3>1 DEF WinInv, OnScreen
      <3>2. CASE ~ok /\ device.hidden
        BY <1>1, <2>4, <3>2 DEF WinInv, OnScreen
      <3>3. CASE ~ok /\ ~device.hidden
        <4>1. \A g \in alive : Visible(g)' <=> Visible(g)
          BY <1>1, <1>2, <3>3 DEF Visible
        <4> QED BY <1>1, <3>3, <4>1 DEF WinInv, OnScreen
      <3> QED BY <3>1, <3>2, <3>3
    <2>8. SuffixOnce'
      BY <1>1, <2>3 DEF WinInv, SuffixOnce
    <2>9. StyledKeeps'
      <3> SUFFICES ASSUME NEW h \in Hwnd, TopLevel(h)'
                   PROVE  /\ styled = h /\ h \notin exempt =>
                                 KeepsTo(policy, look'[h], h \in popups)
                          /\ styled # h => ("POPUP" \in look'[h].style => h \in popups)
        BY <1>1 DEF StyledKeeps, KeepsTo
      <3>1. /\ styled = h /\ h \notin exempt => KeepsTo(policy, look[h], h \in popups)
            /\ styled # h => ("POPUP" \in look[h].style => h \in popups)
        BY <2>3 DEF WinInv, StyledKeeps
      <3>2. /\ look'[h].style \cup {"VISIBLE"} = look[h].style \cup {"VISIBLE"}
            /\ "POPUP" \in look'[h].style <=> "POPUP" \in look[h].style
            /\ look'[h].topmost = look[h].topmost
            /\ look'[h].place = look[h].place /\ look'[h].size = look[h].size
        BY <2>1
      <3> QED BY <1>1, <3>1, <3>2 DEF KeepsTo
    <2>10. Claimed'
      BY <1>1 DEF Claimed
    <2> QED BY <2>5, <2>6, <2>7, <2>8, <2>9, <2>10 DEF WinInv
  <1>3. CASE ~ok /\ ~device.hidden /\ look' = look
    BY <1>1, <1>3 DEF WinInv, WinKinds, OneTop, OnScreen, SuffixOnce, StyledKeeps, Claimed,
       TopLevel, Visible, KeepsTo
  <1> QED BY <1>1, <1>2, <1>3

-----------------------------------------------------------------------------
(* Screenshots                                                             *)

ShotKinds ==
    /\ job \in [path : Path \cup {None}, pc : Step, own : BOOLEAN]
    /\ Saving => job.path \in Path
    /\ dest \in [Path -> File] /\ tmp \in [Path -> File]

\* What is stashed is stashed for a context that still exists.
StashBelongs == pending # None => pending \in Path /\ context = TRUE

\* The image is moved when it is whole.
MovesWhole == job.pc = "move" => tmp[job.path] = "whole"

ShotInv ==
    ShotKinds /\ StashBelongs /\ job.own = TRUE /\ MovesWhole /\ DestinationWhole

LEMMA NoJobKind ==
    /\ NoJob \in [path : Path \cup {None}, pc : Step, own : BOOLEAN]
    /\ NoJob.pc = "idle" /\ NoJob.own = TRUE
  BY DEF NoJob, Step

LEMMA ShotMemoryKeeps ==
    ASSUME dest \in [Path -> File], tmp \in [Path -> File], DestinationWhole,
           ShotMemoryInit
    PROVE  ShotInv
  BY NoJobKind DEF ShotMemoryInit, ShotInv, ShotKinds, StashBelongs, MovesWhole, Saving

LEMMA ShotStarts == ShotInit => ShotInv
  <1> SUFFICES ASSUME ShotInit PROVE ShotInv
    OBVIOUS
  <1>1. dest \in [Path -> File] /\ tmp \in [Path -> File] /\ DestinationWhole
    BY DEF ShotInit, File, DestinationWhole
  <1> QED BY <1>1, ShotMemoryKeeps DEF ShotInit

\* A save begins, or fails before it wrote anything.
LEMMA CaptureKeeps ==
    ASSUME ShotInv, ~Saving, NEW p \in Path, Capture(p, TRUE), files' = files,
           StashBelongs'
    PROVE  ShotInv'
  <1>1. CASE job' = job
    BY <1>1 DEF ShotInv, ShotKinds, MovesWhole, DestinationWhole, Saving, files
  <1>2. CASE job' = [path |-> p, pc |-> "delete", own |-> TRUE]
    BY <1>2 DEF ShotInv, ShotKinds, MovesWhole, DestinationWhole, Saving, files, Step
  <1> QED BY <1>1, <1>2 DEF Capture

\* The calls that reach a device.
LEMMA DeviceCallKeeps ==
    ASSUME ShotInv, ~Saving, DeviceCall
    PROVE  ShotInv'
  <1>1. ASSUME NEW ok \in BOOLEAN, OnPreReset(ok) PROVE ShotInv'
    BY <1>1 DEF OnPreReset, DropPending, files, ShotInv, ShotKinds, StashBelongs, MovesWhole,
       DestinationWhole, Saving
  <1>2. CASE OnPrePresent
    <2>1. pending \in Path /\ Capture(pending, TRUE) /\ pending' = None /\ files' = files
      BY <1>2 DEF OnPrePresent, ShotInv, StashBelongs
    <2>2. StashBelongs'
      BY <2>1 DEF StashBelongs
    <2>3. PICK p \in Path : p = pending
      BY <2>1
    <2>4. p \in Path /\ Capture(p, TRUE)
      BY <2>1, <2>3
    <2> QED BY <2>1, <2>2, <2>4, CaptureKeeps
  <1>3. ASSUME NEW p \in Path, SaveLive(p) PROVE ShotInv'
    BY <1>3, CaptureKeeps DEF SaveLive, ShotInv, StashBelongs
  <1>4. ASSUME NEW p \in Path, SaveDeferred(p) PROVE ShotInv'
    BY <1>4 DEF SaveDeferred, files, ShotInv, ShotKinds, StashBelongs, MovesWhole,
       DestinationWhole, Saving
  <1> QED BY <1>1, <1>2, <1>3, <1>4 DEF DeviceCall

\* The job goes on to its next step, or is done.
LEMMA GotoKeeps ==
    ASSUME ShotKinds, job.own = TRUE, NEW next \in Step, Goto(next)
    PROVE  /\ job' \in [path : Path \cup {None}, pc : Step, own : BOOLEAN]
           /\ job'.pc = next /\ job'.own = TRUE
           /\ next # "idle" => job'.path = job.path
  <1>1. CASE next = "idle"
    BY <1>1, NoJobKind DEF Goto
  <1>2. CASE next # "idle"
    BY <1>2 DEF Goto, ShotKinds
  <1> QED BY <1>1, <1>2

\* A step of the writing, whatever fails.
LEMMA WriteStepKeeps == ASSUME ShotInv, WriteStep PROVE ShotInv'
  <1>1. /\ ShotKinds /\ job.own = TRUE /\ UNCHANGED <<pending, context>>
        /\ dest \in [Path -> File] /\ tmp \in [Path -> File]
        /\ {"idle", "create", "write", "move", "discard"} \subseteq Step
        /\ {"absent", "torn", "whole"} = File
    BY DEF WriteStep, ShotInv, ShotKinds, Step, File
  <1>2. Saving /\ job.path \in Path
    BY <1>1 DEF WriteStep, DeleteLeftover, CreateTmp, WriteTmp, MoveTmp, Discard, Saving, ShotKinds
  <1>3. PICK p \in Path : p = job.path
    BY <1>2
  <1>4. ASSUME NEW next \in Step, Goto(next), dest' \in [Path -> File], tmp' \in [Path -> File],
               DestinationWhole', next = "move" => tmp'[p] = "whole"
        PROVE  ShotInv'
    <2>1. /\ job' \in [path : Path \cup {None}, pc : Step, own : BOOLEAN]
          /\ job'.pc = next /\ job'.own = TRUE
          /\ next # "idle" => job'.path = p
      BY <1>1, <1>3, <1>4, GotoKeeps
    <2>2. StashBelongs'
      BY <1>1 DEF ShotInv, StashBelongs
    <2> QED BY <1>3, <1>4, <2>1, <2>2 DEF ShotInv, ShotKinds, MovesWhole, Saving
  <1>5. ASSUME dest' = dest, tmp' \in [Path -> File], NEW next \in Step, Goto(next),
               next = "move" => tmp'[p] = "whole"
        PROVE  ShotInv'
    BY <1>1, <1>4, <1>5 DEF ShotInv, DestinationWhole
  <1>6. CASE DeleteLeftover
    BY <1>1, <1>5, <1>6 DEF DeleteLeftover, Deleted
  <1>7. CASE CreateTmp
    BY <1>1, <1>5, <1>7 DEF CreateTmp
  <1>8. CASE WriteTmp
    <2>1. CASE tmp' = [tmp EXCEPT ![p] = "whole"] /\ Goto("move") /\ dest' = dest
      <3>1. tmp' \in [Path -> File] /\ tmp'[p] = "whole"
        BY <1>1, <2>1
      <3> QED BY <1>1, <1>5, <2>1, <3>1
    <2>2. CASE tmp' = tmp /\ Goto("discard") /\ dest' = dest
      BY <1>1, <1>5, <2>2
    <2> QED BY <1>3, <1>8, <2>1, <2>2 DEF WriteTmp
  <1>9. CASE MoveTmp
    <2>1. CASE /\ dest' = [dest EXCEPT ![p] = tmp[p]] /\ tmp' = [tmp EXCEPT ![p] = "absent"]
               /\ Goto("idle")
      <3>1. tmp[p] = "whole"
        BY <1>3, <1>9 DEF MoveTmp, ShotInv, MovesWhole
      <3>2. /\ dest' \in [Path -> File] /\ tmp' \in [Path -> File]
            /\ \A q \in Path : dest'[q] = IF q = p THEN "whole" ELSE dest[q]
        BY <1>1, <2>1, <3>1
      <3>3. DestinationWhole'
        BY <3>2 DEF ShotInv, DestinationWhole
      <3> QED BY <1>1, <1>4, <2>1, <3>2, <3>3
    <2>2. CASE UNCHANGED files /\ Goto("discard")
      BY <1>1, <1>5, <2>2 DEF files
    <2> QED BY <1>3, <1>9, <2>1, <2>2 DEF MoveTmp
  <1>10. CASE Discard
    BY <1>1, <1>5, <1>10 DEF Discard, Deleted
  <1> QED BY <1>6, <1>7, <1>8, <1>9, <1>10 DEF WriteStep

-----------------------------------------------------------------------------
(* Windows and screenshots together                                        *)

\* No device is pinned while one is created.
NonePinned == creating => pinned = None

FrameInv == WinInv /\ ShotInv /\ NonePinned

LEMMA FrameStarts == FrameInit => FrameInv
  BY WinInit, ShotStarts DEF FrameInit, FrameInv, NonePinned, WindowInit

LEMMA BeginCreateKeeps ==
    ASSUME FrameInv, NEW h, AsksForDevice(h)
    PROVE  FrameInv'
  <1>1. WinInv'
    BY OtherDeviceWindow, RestyleKeeps DEF AsksForDevice, FrameInv
  <1>2. ShotInv' /\ pinned' = None
    BY DEF AsksForDevice, OnDeviceCreating, DropPending, files, FrameInv, ShotInv,
       ShotKinds, StashBelongs, MovesWhole, DestinationWhole, Saving
  <1> QED BY <1>1, <1>2 DEF FrameInv, NonePinned

LEMMA EndCreateKeeps ==
    ASSUME FrameInv, CreationFailed \/ \E d \in Device : GetsDevice(d)
    PROVE  FrameInv'
  <1>1. (\E ok \in BOOLEAN : EndCreation(ok)) /\ UNCHANGED <<pending, context, job, files>>
    BY DEF CreationFailed, GetsDevice, RecordDevice, shotVars, files
  <1>2. WinInv' /\ ~creating'
    BY <1>1, EndCreationKeeps DEF FrameInv, EndCreation
  <1>3. ShotInv'
    BY <1>1 DEF files, FrameInv, ShotInv, ShotKinds, StashBelongs, MovesWhole,
       DestinationWhole, Saving
  <1> QED BY <1>2, <1>3 DEF FrameInv, NonePinned

LEMMA RestartKeeps == ASSUME FrameInv, Restart PROVE FrameInv'
  <1>1. WinInv'
    BY WinStart DEF Restart
  <1>2. ShotInv'
    BY NoJobKind DEF Restart, files, FrameInv, ShotInv, ShotKinds, StashBelongs, MovesWhole,
       DestinationWhole, Saving
  <1> QED BY <1>1, <1>2 DEF FrameInv, NonePinned, Restart

LEMMA FrameStep == FrameInv /\ [FrameNext]_frameVars => FrameInv'
  <1> SUFFICES ASSUME FrameInv, [FrameNext]_frameVars PROVE FrameInv'
    OBVIOUS
  <1>1. CASE UNCHANGED winVars /\ ShotInv' /\ (creating => pinned' = pinned)
    <2>1. WinInv'
      BY <1>1, SameWindows DEF FrameInv, winVars, claims
    <2> QED BY <1>1, <2>1 DEF FrameInv, NonePinned, winVars
  <1>2. CASE UNCHANGED shotVars /\ WinInv' /\ creating' = creating
    <2>1. ShotInv'
      BY <1>2 DEF shotVars, FrameInv, ShotInv, ShotKinds, StashBelongs, MovesWhole,
         DestinationWhole, Saving
    <2> QED BY <1>2, <2>1 DEF FrameInv, NonePinned, shotVars
  <1>3. CASE ~Saving /\ WindowOthers /\ UNCHANGED shotVars
    <2>1. creating' = creating
      BY <1>3 DEF WindowOthers, Destroy, CreateChild, CreateMain, GameRestyles, Rebind
    <2> QED BY <1>2, <1>3, <2>1, WindowOthersKeep DEF FrameInv
  <1>4. CASE ~Saving /\ \E h \in Hwnd \cup {NoWindow} : AsksForDevice(h)
    BY <1>4, BeginCreateKeeps
  <1>5. CASE CreationFailed \/ \E d \in Device : GetsDevice(d)
    BY <1>5, EndCreateKeeps
  <1>6. CASE ~Saving /\ DeviceCall
    <2>1. ShotInv' /\ ~creating /\ UNCHANGED winVars
      BY <1>6, DeviceCallKeeps DEF FrameInv, DeviceCall
    <2> QED BY <1>1, <2>1
  <1>7. CASE WriteStep /\ UNCHANGED winVars
    <2>1. ShotInv' /\ pinned' = pinned
      BY <1>7, WriteStepKeeps DEF FrameInv, WriteStep
    <2> QED BY <1>1, <1>7, <2>1
  <1>8. CASE Restart
    BY <1>8, RestartKeeps
  <1>9. CASE UNCHANGED frameVars
    <2>1. UNCHANGED winVars /\ UNCHANGED shotVars
      BY <1>9 DEF frameVars
    <2>2. WinInv' /\ creating' = creating
      BY <2>1, SameWindows DEF FrameInv, winVars, claims
    <2> QED BY <1>2, <2>1, <2>2
  <1> QED BY <1>3, <1>4, <1>5, <1>6, <1>7, <1>8, <1>9 DEF FrameNext

LEMMA FrameHolds == FrameSpec => []FrameInv
  BY FrameStarts, FrameStep, PTL DEF FrameSpec

\* For any windows, policies, devices and files: between two creations exactly
\* those windows are on screen that the game or a device put there (window.rs,
\* DeviceWindow::reveal, DeviceWindow::restore).
THEOREM WindowsMappedAsFound == FrameSpec => []MappedAsFound
  <1>1. FrameInv => MappedAsFound
    BY DEF FrameInv, WinInv, OnScreen, MappedAsFound
  <1> QED BY <1>1, FrameHolds, PTL

\* No capture shows a context other than the one that it was asked for in
\* (screenshot.rs, on_device_creating, on_pre_reset, on_pre_present).
THEOREM CapturesBelong == FrameSpec => []CaptureBelongs
  <1>1. FrameInv => CaptureBelongs
    BY DEF FrameInv, ShotInv, CaptureBelongs
  <1> QED BY <1>1, FrameHolds, PTL

\* The player's screenshots are whole, also after a crash between any two
\* steps (screenshot.rs, write_atomic).
THEOREM ScreenshotsAreWhole == FrameSpec => []DestinationWhole
  <1>1. FrameInv => DestinationWhole
    BY DEF FrameInv, ShotInv
  <1> QED BY <1>1, FrameHolds, PTL

\* A device is only ever handed over with the policy in force on its window
\* (window.rs, restyle_device_window; d3d9.rs, hook_create_device).
THEOREM PolicyIsInForce == FrameSpec => PolicyInForce
  <1>1. ASSUME FrameInv, FrameNext, creating, ~creating', pinned' # None, TopLevel(device.hwnd)
        PROVE  /\ main' \in alive /\ suffixes'[device.hwnd] <= 1
               /\ device.hwnd \notin exempt => InForce(device.hwnd, look'[device.hwnd])
    <2>1. EndCreation(TRUE)
      BY <1>1 DEF FrameNext, WindowOthers, Destroy, CreateChild, CreateMain, GameRestyles, Rebind,
         AsksForDevice, RestyleDeviceWindow, GetsDevice, CreationFailed,
         DeviceCall, Restart, shotVars, winVars, FrameInv, NonePinned
    <2>2. /\ Show /\ UNCHANGED <<policy, alive, suffixes, main>>
      BY <2>1 DEF EndCreation, claims
    <2>3. PICK h \in Hwnd : h = device.hwnd /\ h \in alive
      BY <1>1 DEF TopLevel, FrameInv, WinInv, WinKinds
    <2>4. main' \in alive /\ (h \notin exempt => styled = h)
      BY <1>1, <2>2, <2>3 DEF FrameInv, WinInv, Claimed
    <2>5. suffixes'[h] <= 1
      BY <1>1, <2>2, <2>3 DEF FrameInv, WinInv, SuffixOnce
    <2>6. ASSUME h \notin exempt PROVE InForce(h, look'[h])
      <3>1. KeepsTo(policy, look[h], h \in popups)
        BY <1>1, <2>3, <2>4, <2>6 DEF FrameInv, WinInv, StyledKeeps
      <3>2. /\ look'[h].style = look[h].style \cup {"VISIBLE"}
            /\ look'[h].topmost = look[h].topmost
            /\ look'[h].place = look[h].place /\ look'[h].size = look[h].size
        BY <1>1, <2>2, <2>3, ShowShows DEF FrameInv
      <3> QED BY <3>1, <3>2 DEF KeepsTo, InForce
    <2> QED BY <2>3, <2>4, <2>5, <2>6
  <1>2. FrameInv /\ [FrameNext]_frameVars =>
          [creating /\ ~creating' /\ pinned' # None /\ TopLevel(device.hwnd) =>
              /\ main' \in alive /\ suffixes'[device.hwnd] <= 1
              /\ device.hwnd \notin exempt => InForce(device.hwnd, look'[device.hwnd])]_frameVars
    BY <1>1
  <1> QED BY <1>2, FrameHolds, PTL DEF FrameSpec, PolicyInForce
=============================================================================
