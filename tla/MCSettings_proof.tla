---------------------------- MODULE MCSettings_proof ---------------------------
(***************************************************************************)
(* The settings, for every set of values and every bound, and files of any *)
(* length.  Three arguments, one for each way of starting a game:          *)
(*                                                                         *)
(* The pin implements VanillaCfg.  The invariant says why the mapping      *)
(* works: a pin is only ever armed next to an accepted copy whose          *)
(* frameskip is 0, so that putting it back gives the copy that the game    *)
(* would have, and it is not armed before the read.                        *)
(*                                                                         *)
(* The oldest games keep their player's settings because the pin is taken  *)
(* from a copy that nothing has touched, and because every change of the   *)
(* copy between then and the write is either an override, which the pin    *)
(* undoes, or the player's.  What the four crates share is shown to be one *)
(* and the same step, so that each step is argued once.                    *)
(*                                                                         *)
(* A startup dialog is answered with what neopatch.ini says.  Line by line *)
(* what is known of the file is what its last readable line says, and when *)
(* the hook has answered, the game's memory says that and no more of its   *)
(* last start.                                                             *)
(***************************************************************************)
EXTENDS MCSettings, Sequences, WellFoundedInduction, TLAPS

-----------------------------------------------------------------------------
(* The pin: the invariant                                                  *)

\* What a pin stands for.
Armed ==
    /\ phase \in {"off", "starting"} => pin = 0
    /\ pin # 0 => image.kind = "good"

\* The inductive invariant.
IInv == TypeOK /\ PinStandsForZero /\ Armed

-----------------------------------------------------------------------------
(* Images                                                                  *)

\* There is room for a frameskip.
LEMMA BoundPositive == Bound \in Nat /\ 0 \in 0..Bound /\ 0 < Bound
  BY BoundAssumption

\* A copy is its fields.
LEMMA ImageFields ==
    ASSUME NEW r \in Image
    PROVE  /\ r.kind \in {"good", "bad", "old"} /\ r.frameskip \in 0..Bound
           /\ r = [kind |-> r.kind, frameskip |-> r.frameskip, others |-> r.others]
  BY DEF Image, Vanilla!Image

\* The copies that the game makes up.
LEMMA FixedImages ==
    /\ Vanilla!Defaults \in Image /\ Vanilla!Defaults.frameskip = 0
    /\ Vanilla!Defaults.kind = "good"
    /\ Torn \in Image /\ Torn.frameskip = 0 /\ Torn.kind = "old"
  BY BoundPositive, ValueAssumption DEF Vanilla!Defaults, Torn, Vanilla!Torn, Image, Vanilla!Image

\* Setting the frameskip and setting it again, and setting it to what it is.
LEMMA SetFrameskip ==
    ASSUME NEW r \in Image, NEW n \in 0..Bound, NEW m \in 0..Bound
    PROVE  /\ [r EXCEPT !.frameskip = n] \in Image
           /\ [r EXCEPT !.frameskip = n].frameskip = n
           /\ [r EXCEPT !.frameskip = n].kind = r.kind
           /\ [[r EXCEPT !.frameskip = n] EXCEPT !.frameskip = m] = [r EXCEPT !.frameskip = m]
           /\ [r EXCEPT !.frameskip = r.frameskip] = r
  BY DEF Image, Vanilla!Image

\* Without a pin the copy is seen as it is.
LEMMA SeenAsIs ==
    ASSUME NEW r \in Image
    PROVE  (IF r.frameskip = 0 THEN [r EXCEPT !.frameskip = 0] ELSE r) = r
  BY SetFrameskip, BoundPositive

\* A pin is a frameskip.
LEMMA PinRange == ASSUME TypeOK PROVE pin \in 0..Bound /\ pin < Bound /\ pin \in Nat
  BY BoundPositive DEF TypeOK

-----------------------------------------------------------------------------
(* The invariant                                                           *)

\* Nothing is pinned at first.
LEMMA InitInv == Init => IInv
  <1> SUFFICES ASSUME Init PROVE IInv
    OBVIOUS
  <1>1. 0 \in 0..(Bound - 1)
    BY BoundPositive
  <1>2. TypeOK
    BY <1>1, FixedImages DEF Init, TypeOK
  <1>3. QED
    BY <1>2 DEF Init, IInv, PinStandsForZero, Armed

\* An image is forced only when it is accepted and its frameskip is not 0.
LEMMA ForcesFacts ==
    ASSUME NEW r \in Image, NEW identity, Forces(r, identity)
    PROVE  /\ identity = "cfg" /\ cfg /\ "read" \in hooks
           /\ r.kind = "good" /\ r.frameskip \in 1..(Bound - 1)
  BY ImageFields, BoundPositive DEF Forces, Verdict

\* The hooks come in pairs once the cfg is known, so that what the hook of
\* ReadFile arms, the hook of WriteFile puts back.
HooksPaired == cfg => hooks = {"read", "write"}

\* A read of the cfg.
LEMMA HookReadKeeps ==
    ASSUME IInv, HooksPaired, NEW identity, HookRead(identity)
    PROVE  IInv' /\ Vanilla!Read
  <1>1. /\ file \in Image /\ phase = "starting" /\ phase' = "loaded" /\ pin = 0
        /\ UNCHANGED <<file, hooks, cfg>>
    BY DEF HookRead, IInv, TypeOK, Armed
  <1>2. CASE Forces(file, identity)
    <2>1. /\ file.kind = "good" /\ file.frameskip \in 1..(Bound - 1) /\ cfg
          /\ file.frameskip \in 0..Bound /\ 0 \in 0..Bound
          /\ "write" \in hooks
      BY <1>1, <1>2, ForcesFacts, ImageFields, BoundPositive DEF HooksPaired
    <2>2. image' = [file EXCEPT !.frameskip = 0] /\ pin' = file.frameskip
      BY <1>1, <1>2 DEF HookRead, PinnedBy
    <2>3. image' \in Image /\ image'.frameskip = 0 /\ image'.kind = "good"
      BY <1>1, <2>1, <2>2, SetFrameskip
    <2>4. IInv'
      BY <1>1, <2>1, <2>2, <2>3 DEF IInv, TypeOK, PinStandsForZero, Armed
    <2>5. Unpinned' = [[file EXCEPT !.frameskip = 0] EXCEPT !.frameskip = file.frameskip]
      BY <2>2, <2>3 DEF Unpinned
    <2>6. Unpinned' = file
      BY <1>1, <2>1, <2>5, SetFrameskip
    <2>7. QED
      BY <1>1, <2>4, <2>6 DEF Vanilla!Read
  <1>3. CASE ~Forces(file, identity)
    <2>1. image' = file /\ pin' = 0
      BY <1>1, <1>3 DEF HookRead, PinnedBy
    <2>2. IInv'
      BY <1>1, <2>1, BoundPositive DEF IInv, TypeOK, PinStandsForZero, Armed
    <2>3. Unpinned' = file
      BY <1>1, <2>1, SeenAsIs DEF Unpinned
    <2>4. QED
      BY <1>1, <2>2, <2>3 DEF Vanilla!Read
  <1>4. QED
    BY <1>2, <1>3

\* A file that is not named the cfg changes nothing.
LEMMA HookReadOtherStutters ==
    ASSUME NEW other \in Image, NEW identity, HookReadOther(other, identity)
    PROVE  UNCHANGED vars
  <1>1. ~Forces(other, identity)
    BY DEF HookReadOther, Forces
  <1>2. QED
    BY <1>1 DEF HookReadOther, PinnedBy, vars

\* A write of the cfg.
LEMMA HookWriteKeeps ==
    ASSUME IInv, NEW identity, HookWrite(identity)
    PROVE  IInv' /\ \E written \in {Unpinned, file, Torn} : Vanilla!Write(written)
  <1>1. /\ image \in Image /\ file \in Image /\ pin \in 0..Bound /\ phase = "running"
        /\ phase' = "written" /\ UNCHANGED <<image, hooks, cfg, pin>>
        /\ identity # "other" /\ file' \in {Restored(identity), file, Torn}
    BY PinRange DEF HookWrite, IInv, TypeOK
  <1>2. Restored(identity) = Unpinned
    <2>1. CASE pin = 0
      BY <1>1, <2>1, SeenAsIs DEF Restored, Unpinned
    <2>2. CASE pin # 0
      BY <1>1, <2>2 DEF Restored, Unpinned, IInv, PinStandsForZero
    <2>3. QED
      BY <2>1, <2>2
  <1>3. Unpinned \in Image
    BY <1>1, SetFrameskip DEF Unpinned
  <1>4. file' \in Image
    BY <1>1, <1>2, <1>3, FixedImages
  <1>5. IInv'
    BY <1>1, <1>4 DEF IInv, TypeOK, PinStandsForZero, Armed
  <1>6. Unpinned' = Unpinned
    BY <1>1 DEF Unpinned
  <1>7. Vanilla!Write(file')
    BY <1>1, <1>6 DEF Vanilla!Write
  <1>8. QED
    BY <1>1, <1>2, <1>5, <1>7

-----------------------------------------------------------------------------
(* The steps without a hook                                                *)

\* A launch pins nothing yet.
LEMMA InstallKeeps == ASSUME IInv, Install PROVE IInv' /\ Vanilla!Start
  <1>1. /\ phase = "off" /\ phase' = "starting" /\ pin = 0 /\ pin' = 0
        /\ image' = Vanilla!Defaults /\ file' = file
        /\ hooks' \subseteq {"read", "write"} /\ cfg' \in BOOLEAN
    BY DEF Install, IInv, Armed
  <1>2. IInv'
    BY <1>1, FixedImages DEF IInv, TypeOK, PinStandsForZero, Armed
  <1>3. Unpinned' = Vanilla!Defaults
    BY <1>1, FixedImages, SeenAsIs DEF Unpinned
  <1>4. QED
    BY <1>1, <1>2, <1>3 DEF Vanilla!Start

\* A read that fails leaves nothing to pin.
LEMMA ReadFailsKeeps == ASSUME IInv, ReadFails PROVE IInv' /\ Vanilla!ReadFails
  <1>1. /\ phase = "starting" /\ phase' = "loaded" /\ pin = 0
        /\ image' = Torn /\ UNCHANGED <<file, hooks, cfg, pin>>
    BY DEF ReadFails, IInv, Armed
  <1>2. IInv'
    BY <1>1, FixedImages DEF IInv, TypeOK, PinStandsForZero, Armed
  <1>3. Unpinned' = Torn
    BY <1>1, FixedImages, SeenAsIs DEF Unpinned
  <1>4. QED
    BY <1>1, <1>2, <1>3 DEF Vanilla!ReadFails, Torn

\* The game's verdict is the same with and without the pin.
LEMMA ValidateKeeps == ASSUME IInv, Validate PROVE IInv' /\ Vanilla!Validate
  <1>1. /\ phase = "loaded" /\ phase' = "running" /\ image \in Image
        /\ UNCHANGED <<file, hooks, cfg, pin>>
        /\ image' = IF Vanilla!Accepts(image) THEN image ELSE Vanilla!Defaults
    BY DEF Validate, IInv, TypeOK
  <1>2. CASE pin = 0
    <2>1. Unpinned = image
      BY <1>1, <1>2, SeenAsIs DEF Unpinned
    <2>2. image' \in Image
      BY <1>1, FixedImages
    <2>3. Unpinned' = image'
      BY <1>1, <1>2, <2>2, SeenAsIs DEF Unpinned
    <2>4. IInv'
      BY <1>1, <1>2, <2>2 DEF IInv, TypeOK, PinStandsForZero, Armed
    <2>5. QED
      BY <1>1, <2>1, <2>3, <2>4 DEF Vanilla!Validate
  <1>3. CASE pin # 0
    <2>1. /\ image.frameskip = 0 /\ image.kind = "good"
          /\ pin \in 0..Bound /\ pin < Bound
      BY <1>1, <1>3, PinRange DEF IInv, PinStandsForZero, Armed
    <2>2. Vanilla!Accepts(image)
      BY <2>1, BoundPositive DEF Vanilla!Accepts
    <2>3. image' = image
      BY <1>1, <2>2
    <2>4. Unpinned = [image EXCEPT !.frameskip = pin] /\ Unpinned' = Unpinned
      BY <1>1, <2>1, <2>3 DEF Unpinned
    <2>5. Vanilla!Accepts(Unpinned)
      BY <1>1, <2>1, <2>4, SetFrameskip DEF Vanilla!Accepts
    <2>6. IInv'
      BY <1>1, <2>3 DEF IInv, TypeOK, PinStandsForZero, Armed
    <2>7. QED
      BY <1>1, <2>4, <2>5, <2>6 DEF Vanilla!Validate
  <1>4. QED
    BY <1>2, <1>3

\* Another option changed leaves the frameskip to the pin.
LEMMA SetOptionKeeps == ASSUME IInv, SetOption PROVE IInv' /\ Vanilla!SetOption
  <1>1. PICK v \in Value : image' = [image EXCEPT !.others = v]
    BY DEF SetOption
  <1>2. /\ phase = "running" /\ image \in Image /\ pin \in 0..Bound
        /\ UNCHANGED <<file, phase, hooks, cfg, pin>>
    BY PinRange DEF SetOption, IInv, TypeOK
  <1>3. /\ image' \in Image /\ image'.frameskip = image.frameskip
        /\ image'.kind = image.kind
    BY <1>1, <1>2 DEF Image, Vanilla!Image
  <1>4. IInv'
    BY <1>2, <1>3 DEF IInv, TypeOK, PinStandsForZero, Armed
  <1>5. Unpinned' = [Unpinned EXCEPT !.others = v]
    <2>1. CASE image.frameskip = 0
      <3>1. Unpinned = [image EXCEPT !.frameskip = pin]
        BY <2>1 DEF Unpinned
      <3>2. Unpinned' = [[image EXCEPT !.others = v] EXCEPT !.frameskip = pin]
        BY <1>1, <1>2, <1>3, <2>1 DEF Unpinned
      <3>3. QED
        BY <1>2, <3>1, <3>2 DEF Image, Vanilla!Image
    <2>2. CASE image.frameskip # 0
      BY <1>1, <1>2, <1>3, <2>2 DEF Unpinned
    <2>3. QED
      BY <2>1, <2>2
  <1>6. QED
    BY <1>2, <1>4, <1>5 DEF Vanilla!SetOption

\* The end takes the pin along.
LEMMA EndKeeps == ASSUME IInv, End PROVE IInv' /\ Vanilla!End
  <1>1. /\ phase # "off" /\ phase' = "off" /\ image' = Vanilla!Defaults
        /\ hooks' = {} /\ cfg' = FALSE /\ pin' = 0 /\ file' = file
    BY DEF End
  <1>2. IInv'
    <2>1. 0 \in 0..(Bound - 1)
      BY BoundPositive
    <2>2. TypeOK'
      BY <1>1, <2>1, FixedImages DEF IInv, TypeOK
    <2>3. QED
      BY <1>1, <2>2 DEF IInv, PinStandsForZero, Armed
  <1>3. Unpinned' = Vanilla!Defaults
    BY <1>1, FixedImages, SeenAsIs DEF Unpinned
  <1>4. QED
    BY <1>1, <1>2, <1>3 DEF Vanilla!End

\* Between two starts custom.exe writes the file only.
LEMMA CustomExeKeeps == ASSUME IInv, CustomExe PROVE IInv' /\ Vanilla!CustomExe
  <1>1. file' \in Image /\ UNCHANGED <<phase, image, hooks, cfg, pin>>
    BY DEF CustomExe, Vanilla!Accepted, Image
  <1>2. IInv'
    BY <1>1 DEF IInv, TypeOK, PinStandsForZero, Armed
  <1>3. Unpinned' = Unpinned
    BY <1>1 DEF Unpinned
  <1>4. QED
    BY <1>1, <1>2, <1>3 DEF CustomExe, Vanilla!CustomExe

-----------------------------------------------------------------------------
(* The theorems                                                            *)

\* Every step keeps the invariant and is a step of VanillaCfg or none.
LEMMA Step ==
    ASSUME IInv, HooksPaired, [Next]_vars
    PROVE  IInv' /\ HooksPaired' /\ [Vanilla!Next]_(Vanilla!vars)
  <1> USE DEF Vanilla!Next
  <1>1. CASE Install
    BY <1>1, InstallKeeps DEF Install, HooksPaired
  <1>2. ASSUME NEW identity \in Identity, HookRead(identity)
        PROVE  IInv' /\ HooksPaired' /\ Vanilla!Next
    BY <1>2, HookReadKeeps DEF HookRead, HooksPaired
  <1>3. ASSUME NEW identity \in Identity, HookWrite(identity)
        PROVE  IInv' /\ HooksPaired' /\ Vanilla!Next
    <2>1. IInv' /\ \E written \in {Unpinned, file, Torn} : Vanilla!Write(written)
      BY <1>3, HookWriteKeeps
    <2>2. HooksPaired'
      BY <1>3 DEF HookWrite, HooksPaired
    <2>3. QED
      BY <2>1, <2>2 DEF Torn
  <1>4. ASSUME NEW identity \in Identity, NEW other \in Image,
               HookReadOther(other, identity)
        PROVE  UNCHANGED vars
    BY <1>4, HookReadOtherStutters
  <1>5. CASE ReadFails
    BY <1>5, ReadFailsKeeps DEF ReadFails, HooksPaired
  <1>6. CASE Validate
    BY <1>6, ValidateKeeps DEF Validate, HooksPaired
  <1>7. CASE SetOption
    BY <1>7, SetOptionKeeps DEF SetOption, HooksPaired
  <1>8. CASE End
    BY <1>8, EndKeeps DEF End, HooksPaired
  <1>9. CASE CustomExe
    BY <1>9, CustomExeKeeps DEF CustomExe, HooksPaired
  <1>10. CASE UNCHANGED vars
    BY <1>10 DEF vars, IInv, TypeOK, PinStandsForZero, Armed, HooksPaired, Unpinned,
                 Vanilla!vars
  <1>11. QED
    BY <1>1, <1>2, <1>3, <1>4, <1>5, <1>6, <1>7, <1>8, <1>9, <1>10 DEF Next

\* A behaviour of the runs is one of the pin.
LEMMA RunsPin == MCSpec => Spec
  <1>1. MCInit => Init
    BY DEF MCInit
  <1>2. [MCNext]_<<vars, family, ovars, dvars>> => [Next]_vars
    BY DEF MCNext
  <1> QED BY <1>1, <1>2, PTL DEF MCSpec, Spec

\* The invariant holds, and the hooks come in pairs.
LEMMA Invariance == Spec => [](IInv /\ HooksPaired)
  <1>1. Init => HooksPaired
    BY DEF Init, HooksPaired
  <1>2. QED
    BY InitInv, <1>1, Step, PTL DEF Spec

\* Every image keeps its shape, and a pin is a value that the loader accepts
\* (cfg_pin.rs, force_frameskip).
THEOREM TypeCorrect == Spec => []TypeOK
  BY Invariance, PTL DEF IInv

\* A pin is armed only beside a copy that holds 0, with the hook in place that
\* puts it back (cfg_pin.rs, install, force_frameskip).
THEOREM ArmedBesideZero == Spec => []PinStandsForZero
  BY Invariance, PTL DEF IInv

\* Seen through the pin, the game and its cfg file behave as without neopatch
\* (cfg_pin.rs, hook_read_file, hook_write_file).
THEOREM ImplementsVanilla == Spec => BehavesAsVanilla
  <1>1. Init => Vanilla!Init
    <2> SUFFICES ASSUME Init PROVE Vanilla!Init
      OBVIOUS
    <2>1. Unpinned = Vanilla!Defaults
      BY FixedImages, SeenAsIs DEF Init, Unpinned
    <2>2. QED
      BY <2>1 DEF Init, Image, Vanilla!Init
  <1>2. IInv /\ HooksPaired /\ [Next]_vars => [Vanilla!Next]_(Vanilla!vars)
    BY Step
  <1>3. QED
    BY Invariance, <1>1, <1>2, PTL DEF Spec, BehavesAsVanilla, Vanilla!Spec

-----------------------------------------------------------------------------
(* The oldest games: the invariant                                         *)

\* The game's copy of its cfg.  A frameskip of 0 is forced, whatever Skip is.
Copy == [windowed : BOOLEAN, color : {"16", "32", "auto"},
         force16 : BOOLEAN, frameskip : Skip \cup {0}]

\* What the variables hold.
OldKinds ==
    /\ ofile \in Copy /\ ocfg \in Copy /\ player \in Copy
    /\ mode \in BOOLEAN /\ toggled \in BOOLEAN

\* Before it is launched a game has no memory.
Fresh ==
    ophase = "off" =>
        pinned = {} /\ device = {} /\ ~toggled /\ observed = {} /\ polled = {}

\* The pin holds what the player had, and a device exists under a pin only.
PinTaken ==
    /\ ophase \in {"created", "frame", "present", "restart", "exit", "written"} => pinned # {}
    /\ \A p \in pinned :
          p = [windowed |-> player.windowed, forced |-> mode,
               force16 |-> player.force16, frameskip |-> player.frameskip]
    /\ pinned = {} => device = {}

\* The copy, with the overrides until it is written and as the player has it
\* before they are in place.
CopyOverridden ==
    /\ pinned = {} /\ ophase = "loaded" => ocfg = player
    /\ pinned # {} /\ ophase # "written" =>
          /\ ocfg.frameskip = 0 /\ ocfg.force16 = FALSE
          /\ ocfg.color = Old!Resolved(player.color)
          /\ toggled \/ ocfg.windowed = mode

\* A device is as configured, and th06 knows its format.
DeviceKnown ==
    /\ \A d \in device :
          /\ d.windowed = mode /\ d.color = "32"
          /\ game = "th06" /\ d.format # "unrecorded" => cached = d.format
    /\ ophase \in {"frame", "present"} => device # {}

\* A frame that is presented was drawn after its tick.
Drawn == ophase = "present" => drawn = tick

\* What the observer keeps is what was held, and the focus the game adds to a
\* shoot button held for long.
Keys ==
    /\ game = "th095" => observed = {}
    /\ \A k \in observed \ polled : k = "focus" /\ "shoot" \in observed /\ counter >= AutoAt

\* The inductive invariant.
OldInv ==
    OldKinds /\ Fresh /\ PinTaken /\ CopyOverridden /\ DeviceKnown /\ Drawn /\ Keys

-----------------------------------------------------------------------------
(* The oldest games: the steps                                             *)

\* The invariant holds before a game is launched.
LEMMA OldInit == Old!Init => OldInv
  BY DEF Old!Init, Old!Cfg, OldInv, OldKinds, Copy, Fresh, PinTaken, CopyOverridden,
         DeviceKnown, Drawn, Keys

\* Direct3DCreate8: the first one pins, each one overrides.
LEMMA OverrideKeeps == ASSUME OldInv, Old!Override PROVE OldInv'
  <1>1. /\ ophase = "loaded" /\ ophase' = "created"
        /\ ocfg' = [windowed |-> mode, color |-> Old!Resolved(ocfg.color),
                    force16 |-> FALSE, frameskip |-> 0]
        /\ UNCHANGED <<game, mode, ofile, device, cached, player, toggled, tick, drawn,
                       counter, observed, polled>>
    BY DEF Old!Override, Old!input
  <1>2. /\ ocfg.color \in {"16", "32", "auto"} /\ player.color \in {"16", "32", "auto"}
        /\ Old!Resolved(ocfg.color) = Old!Resolved(player.color)
        /\ Old!Resolved(ocfg.color) \in {"16", "32"}
    BY <1>1 DEF OldInv, OldKinds, Copy, CopyOverridden, Old!Resolved
  <1>3. OldKinds' /\ Fresh' /\ Drawn' /\ Keys'
    BY <1>1, <1>2 DEF OldInv, OldKinds, Copy, Fresh, Drawn, Keys
  <1>4. /\ pinned' # {}
        /\ \A p \in pinned' :
              p = [windowed |-> player.windowed, forced |-> mode,
                   force16 |-> player.force16, frameskip |-> player.frameskip]
    <2>1. CASE pinned = {}
      BY <1>1, <2>1 DEF Old!Override, Old!PinnedFirst, Old!Pin, OldInv, CopyOverridden
    <2>2. CASE pinned # {}
      BY <2>2 DEF Old!Override, Old!PinnedFirst, OldInv, PinTaken
    <2> QED BY <2>1, <2>2
  <1>5. PinTaken' /\ CopyOverridden'
    BY <1>1, <1>2, <1>4 DEF PinTaken, CopyOverridden
  <1>6. DeviceKnown'
    BY <1>1 DEF OldInv, DeviceKnown
  <1> QED BY <1>3, <1>5, <1>6 DEF OldInv

\* The mode that a pin forces.
LEMMA Reasserts ==
    ASSUME OldInv, pinned # {}
    PROVE  Old!Reasserted(ocfg) = [ocfg EXCEPT !.windowed = mode]
  <1>1. (CHOOSE p \in pinned : TRUE) \in pinned
    OBVIOUS
  <1>2. (CHOOSE p \in pinned : TRUE).forced = mode
    BY <1>1 DEF OldInv, PinTaken
  <1> QED BY <1>2 DEF Old!Reasserted

\* InitD3dRendering; the format is reconciled in th06.
LEMMA InitRenderingKeeps ==
    ASSUME OldInv, NEW reconciles \in BOOLEAN, Old!InitRendering(reconciles),
           game = "th06" => reconciles
    PROVE  OldInv'
  <1>1. /\ ophase \in {"created", "restart"} /\ ophase' \in {"frame", "exit"}
        /\ UNCHANGED <<game, mode, ofile, pinned, player, toggled, tick, drawn,
                       counter, observed, polled>>
        /\ ocfg' = Old!Reasserted(ocfg)
    BY DEF Old!InitRendering, Old!input
  <1>2. pinned # {} /\ ocfg' = [ocfg EXCEPT !.windowed = mode]
    BY <1>1, Reasserts DEF OldInv, PinTaken
  <1>3. /\ ocfg' \in Copy /\ ocfg'.windowed = mode /\ ocfg'.color = ocfg.color
        /\ ocfg'.frameskip = ocfg.frameskip /\ ocfg'.force16 = ocfg.force16
    BY <1>2 DEF OldInv, OldKinds, Copy
  <1>4. OldKinds' /\ Fresh' /\ Drawn' /\ Keys'
    BY <1>1, <1>3 DEF OldInv, OldKinds, Fresh, Drawn, Keys
  <1>5. PinTaken' /\ CopyOverridden'
    BY <1>1, <1>2, <1>3 DEF OldInv, PinTaken, CopyOverridden
  <1>6. DeviceKnown'
    <2>1. CASE ophase' = "exit" /\ device' = {}
      BY <2>1 DEF DeviceKnown
    <2>2. CASE /\ ophase' = "frame"
               /\ \E got \in {"asked", "substituted", "unrecorded"} :
                    /\ device' = {[windowed |-> mode, format |-> got, color |-> "32"]}
                    /\ cached' = IF reconciles /\ got # "unrecorded" THEN got ELSE "asked"
      BY <1>1, <2>2 DEF DeviceKnown
    <2> QED BY <1>1, <1>2, <1>3, <2>1, <2>2 DEF Old!InitRendering
  <1> QED BY <1>4, <1>5, <1>6 DEF OldInv

\* cfg_write_hook: what is written is what the player wants.
LEMMA WriteCfgWrites ==
    ASSUME OldInv, Old!WriteCfg
    PROVE  /\ ocfg' \in Copy
           /\ ocfg'.frameskip = player.frameskip /\ ocfg'.force16 = player.force16
           /\ ocfg'.color = Old!Resolved(player.color)
           /\ ocfg'.windowed = player.windowed \/ toggled
  <1>1. ophase = "exit" /\ pinned # {}
    BY DEF Old!WriteCfg, OldInv, PinTaken
  <1>2. PICK p : p = CHOOSE q \in pinned : TRUE
    OBVIOUS
  <1>3. /\ p.windowed = player.windowed /\ p.forced = mode /\ p.force16 = player.force16
        /\ p.frameskip = player.frameskip
    BY <1>1, <1>2 DEF OldInv, PinTaken
  <1>4. ocfg' = [ocfg EXCEPT !.windowed = IF @ = p.forced THEN p.windowed ELSE @,
                             !.force16 = @ \/ p.force16,
                             !.frameskip = IF @ = 0 THEN p.frameskip ELSE @]
    BY <1>1, <1>2 DEF Old!WriteCfg, Old!Restored
  <1>5. /\ ocfg.frameskip = 0 /\ ocfg.force16 = FALSE
        /\ ocfg.color = Old!Resolved(player.color)
        /\ toggled \/ ocfg.windowed = mode
    BY <1>1 DEF OldInv, CopyOverridden
  <1>6. ocfg \in Copy /\ player \in Copy
    BY DEF OldInv, OldKinds
  <1> QED BY <1>3, <1>4, <1>5, <1>6 DEF Copy

\* After the write the game has only its end to come.
LEMMA WriteCfgKeeps == ASSUME OldInv, Old!WriteCfg PROVE OldInv'
  <1>1. /\ ophase = "exit" /\ ophase' = "written" /\ ofile' \in {ocfg', ofile}
        /\ UNCHANGED <<game, mode, pinned, device, cached, player, toggled, tick, drawn,
                       counter, observed, polled>>
    BY DEF Old!WriteCfg, Old!input
  <1>2. OldKinds'
    BY <1>1, WriteCfgWrites DEF OldInv, OldKinds
  <1> QED BY <1>1, <1>2 DEF OldInv, Fresh, PinTaken, CopyOverridden, DeviceKnown, Drawn, Keys

\* A poll: the observer of a game that has one keeps the mask.
LEMMA PollKeeps ==
    ASSUME Keys, NEW observer \in BOOLEAN, Old!Poll(observer) \/ Old!NoPoll,
           observer <=> game # "th095", game' = game
    PROVE  Keys'
  <1>1. CASE Old!NoPoll
    BY <1>1 DEF Old!NoPoll, Keys
  <1>2. CASE Old!Poll(observer)
    <2>1. PICK down \in SUBSET Old!Key, mask \in SUBSET Old!Key, shared \in BOOLEAN :
              /\ Old!GetInput(down, shared, mask)
              /\ polled' = down
              /\ observed' = IF observer THEN mask ELSE observed
      BY <1>2 DEF Old!Poll
    <2>2. \A k \in mask \ down : k = "focus" /\ "shoot" \in mask /\ counter' >= AutoAt
      BY <2>1 DEF Old!GetInput
    <2> QED BY <2>1, <2>2 DEF Keys
  <1> QED BY <1>1, <1>2

\* One pass of a frame loop.
LEMMA FrameKeeps ==
    ASSUME OldInv, NEW observer \in BOOLEAN, observer <=> game # "th095",
           ophase = "frame", ophase' \in {"present", "exit", "restart"},
           ophase' = "present" => drawn' = tick',
           Old!Poll(observer) \/ Old!NoPoll, UNCHANGED <<game, Old!display>>
    PROVE  OldInv'
  <1>1. UNCHANGED <<game, mode, ofile, ocfg, pinned, device, cached, player, toggled>>
    BY DEF Old!display
  <1>2. Keys'
    BY <1>1, PollKeeps DEF OldInv
  <1> QED BY <1>1, <1>2 DEF OldInv, OldKinds, Fresh, PinTaken, CopyOverridden, DeviceKnown, Drawn

-----------------------------------------------------------------------------
(* The oldest games: their crates, and the game and the player             *)

\* The frame loop of each crate is such a pass.
LEMMA FrameShows ==
    ASSUME OldInv, NEW observer \in BOOLEAN, observer <=> game # "th095",
           \/ Old!Six!CalcThenDraw \/ Old!Seven!CalcThenDraw
           \/ Old!Eight!ObservedFrame \/ Old!NineHalf!GameFrame
    PROVE  OldInv'
  <1>1. /\ ophase = "frame" /\ ophase' \in {"present", "exit", "restart"}
        /\ UNCHANGED <<game, Old!display>>
    BY DEF Old!Six!CalcThenDraw, Old!Six!Frame, Old!Six!After, Old!Six!display, Old!display,
           Old!Seven!CalcThenDraw, Old!Seven!Frame, Old!Seven!After, Old!Seven!display,
           Old!Eight!ObservedFrame, Old!Eight!Frame, Old!Eight!After, Old!Eight!display,
           Old!NineHalf!GameFrame, Old!NineHalf!Frame, Old!NineHalf!After, Old!NineHalf!display
  <1>2. device # {}
    BY <1>1 DEF OldInv, DeviceKnown
  <1>3. ophase' = "present" => drawn' = tick'
    BY <1>2 DEF
           Old!Six!CalcThenDraw, Old!Six!Frame, Old!Six!After, Old!Six!DrawFrame, Old!Six!DrawAfter,
           Old!Seven!CalcThenDraw, Old!Seven!Frame, Old!Seven!After, Old!Seven!DrawFrame,
           Old!Seven!DrawAfter,
           Old!Eight!ObservedFrame, Old!Eight!Frame, Old!Eight!After, Old!Eight!DrawAfter,
           Old!NineHalf!GameFrame, Old!NineHalf!Frame, Old!NineHalf!After, Old!NineHalf!DrawAfter
  <1>4. Old!Poll(observer) \/ Old!NoPoll
    BY DEF Old!Poll, Old!NoPoll, Old!GetInput, Old!Key,
           Old!Six!CalcThenDraw, Old!Six!Playing, Old!Six!Frame, Old!Six!Poll, Old!Six!NoPoll,
           Old!Six!GetInput, Old!Six!Key,
           Old!Seven!CalcThenDraw, Old!Seven!Playing, Old!Seven!Frame, Old!Seven!Poll,
           Old!Seven!NoPoll, Old!Seven!GetInput, Old!Seven!Key,
           Old!Eight!ObservedFrame, Old!Eight!Playing, Old!Eight!Frame, Old!Eight!Poll,
           Old!Eight!NoPoll, Old!Eight!GetInput, Old!Eight!Key,
           Old!NineHalf!GameFrame, Old!NineHalf!Playing, Old!NineHalf!Frame, Old!NineHalf!Poll,
           Old!NineHalf!NoPoll, Old!NineHalf!GetInput, Old!NineHalf!Key
  <1> QED BY <1>1, <1>3, <1>4, FrameKeeps

\* The steps that the crates have in common are those of OldGame.
LEMMA CratesShare ==
    /\ \/ Old!Six!ApplyDisplayOverride \/ Old!Seven!ApplyDisplayOverride
       \/ Old!Eight!ApplyDisplayOverride \/ Old!NineHalf!ApplyDisplayOverride
       => Old!Override
    /\ Old!Six!InitD3dRenderingHook => game = "th06" /\ Old!InitRendering(TRUE)
    /\ \/ Old!Seven!InitD3dRenderingHook \/ Old!Eight!InitD3dRenderingHook
       \/ Old!NineHalf!InitD3dRenderingHook
       => game # "th06" /\ Old!InitRendering(FALSE)
    /\ \/ Old!Six!CfgWriteHook \/ Old!Seven!CfgWriteHook
       \/ Old!Eight!CfgWriteHook \/ Old!NineHalf!CfgWriteHook
       => Old!WriteCfg
  <1>1. \/ Old!Six!ApplyDisplayOverride \/ Old!Seven!ApplyDisplayOverride
        \/ Old!Eight!ApplyDisplayOverride \/ Old!NineHalf!ApplyDisplayOverride
        => Old!Override
    BY DEF Old!Override, Old!PinnedFirst, Old!Pin, Old!Resolved, Old!input,
           Old!Six!ApplyDisplayOverride, Old!Seven!ApplyDisplayOverride,
           Old!Eight!ApplyDisplayOverride, Old!NineHalf!ApplyDisplayOverride, Old!Six!Override,
           Old!Seven!Override, Old!Eight!Override, Old!NineHalf!Override, Old!Six!PinnedFirst,
           Old!Seven!PinnedFirst, Old!Eight!PinnedFirst, Old!NineHalf!PinnedFirst, Old!Six!Pin,
           Old!Seven!Pin, Old!Eight!Pin, Old!NineHalf!Pin, Old!Six!Resolved, Old!Seven!Resolved,
           Old!Eight!Resolved, Old!NineHalf!Resolved, Old!Six!input, Old!Seven!input,
           Old!Eight!input, Old!NineHalf!input
  <1>2. /\ Old!Six!InitD3dRenderingHook => game = "th06" /\ Old!InitRendering(TRUE)
        /\ \/ Old!Seven!InitD3dRenderingHook \/ Old!Eight!InitD3dRenderingHook
           \/ Old!NineHalf!InitD3dRenderingHook
           => game # "th06" /\ Old!InitRendering(FALSE)
    BY DEF Old!InitRendering, Old!Reasserted, Old!input,
           Old!Six!InitD3dRenderingHook, Old!Seven!InitD3dRenderingHook,
           Old!Eight!InitD3dRenderingHook, Old!NineHalf!InitD3dRenderingHook, Old!Six!Playing,
           Old!Seven!Playing, Old!Eight!Playing, Old!NineHalf!Playing, Old!Six!InitRendering,
           Old!Seven!InitRendering, Old!Eight!InitRendering, Old!NineHalf!InitRendering,
           Old!Six!Reasserted, Old!Seven!Reasserted, Old!Eight!Reasserted, Old!NineHalf!Reasserted,
           Old!Six!input, Old!Seven!input, Old!Eight!input, Old!NineHalf!input
  <1>3. \/ Old!Six!CfgWriteHook \/ Old!Seven!CfgWriteHook
        \/ Old!Eight!CfgWriteHook \/ Old!NineHalf!CfgWriteHook
        => Old!WriteCfg
    BY DEF Old!WriteCfg, Old!Restored, Old!input,
           Old!Six!CfgWriteHook, Old!Seven!CfgWriteHook, Old!Eight!CfgWriteHook,
           Old!NineHalf!CfgWriteHook, Old!Six!WriteCfg, Old!Seven!WriteCfg, Old!Eight!WriteCfg,
           Old!NineHalf!WriteCfg, Old!Six!Restored, Old!Seven!Restored, Old!Eight!Restored,
           Old!NineHalf!Restored, Old!Six!input, Old!Seven!input, Old!Eight!input,
           Old!NineHalf!input
  <1> QED BY <1>1, <1>2, <1>3

\* A game that starts reads its file.
LEMMA LaunchKeeps == ASSUME OldInv, Old!Launch PROVE OldInv'
  BY DEF Old!Launch, Old!input, OldInv, OldKinds, Fresh, PinTaken, CopyOverridden,
         DeviceKnown, Drawn, Keys

\* The player changes an option.
LEMMA SetOldOptionKeeps == ASSUME OldInv, Old!SetOption PROVE OldInv'
  <1>1. /\ ophase = "frame"
        /\ UNCHANGED <<game, ophase, mode, ofile, pinned, device, cached, tick, drawn,
                       counter, observed, polled>>
    BY DEF Old!SetOption, Old!input
  <1>2. ocfg \in Copy /\ player \in Copy /\ pinned # {}
    BY <1>1 DEF OldInv, OldKinds, PinTaken
  <1>3. CASE ocfg' = [ocfg EXCEPT !.windowed = ~@] /\ toggled' = TRUE /\ player' = player
    <2>1. /\ ocfg' \in Copy /\ ocfg'.color = ocfg.color
          /\ ocfg'.frameskip = ocfg.frameskip /\ ocfg'.force16 = ocfg.force16
      BY <1>2, <1>3 DEF Copy
    <2> QED BY <1>1, <1>2, <1>3, <2>1 DEF OldInv, OldKinds, Fresh, PinTaken, CopyOverridden,
                                         DeviceKnown, Drawn, Keys
  <1>4. ASSUME NEW c \in {"16", "32"}, ocfg' = [ocfg EXCEPT !.color = c],
               player' = [player EXCEPT !.color = c], toggled' = toggled
        PROVE  OldInv'
    <2>1. /\ ocfg' \in Copy /\ ocfg'.color = c /\ ocfg'.windowed = ocfg.windowed
          /\ ocfg'.frameskip = ocfg.frameskip /\ ocfg'.force16 = ocfg.force16
      BY <1>2, <1>4 DEF Copy
    <2>2. /\ player' \in Copy /\ player'.color = c /\ player'.windowed = player.windowed
          /\ player'.frameskip = player.frameskip /\ player'.force16 = player.force16
      BY <1>2, <1>4 DEF Copy
    <2>3. Old!Resolved(c) = c
      BY DEF Old!Resolved
    <2>4. OldKinds' /\ Fresh' /\ DeviceKnown' /\ Drawn' /\ Keys'
      BY <1>1, <1>4, <2>1, <2>2 DEF OldInv, OldKinds, Fresh, DeviceKnown, Drawn, Keys
    <2>5. PinTaken' /\ CopyOverridden'
      BY <1>1, <1>2, <1>4, <2>1, <2>2, <2>3 DEF OldInv, PinTaken, CopyOverridden
    <2> QED BY <2>4, <2>5 DEF OldInv
  <1> QED BY <1>3, <1>4 DEF Old!SetOption

\* The game and its player.
LEMMA OldExternalKeeps == ASSUME OldInv, Old!External PROVE OldInv'
  <1>1. CASE Old!Launch
    BY <1>1, LaunchKeeps
  <1>2. CASE Old!SetOption
    BY <1>2, SetOldOptionKeeps
  <1>3. CASE Old!CreateAgain \/ Old!Present \/ Old!ReplayStage
    BY <1>3 DEF Old!CreateAgain, Old!Present, Old!ReplayStage, Old!input, Old!display, OldInv,
                OldKinds, Fresh, PinTaken, CopyOverridden, DeviceKnown, Drawn, Keys
  <1>4. CASE Old!End
    BY <1>4 DEF Old!End, Old!Gone, OldInv, OldKinds, Fresh, PinTaken, CopyOverridden,
                DeviceKnown, Drawn, Keys
  <1>5. CASE Old!CustomExe
    BY <1>5 DEF Old!CustomExe, Old!Cfg, Old!input, OldInv, OldKinds, Copy, Fresh, PinTaken,
                CopyOverridden, DeviceKnown, Drawn, Keys
  <1> QED BY <1>1, <1>2, <1>3, <1>4, <1>5 DEF Old!External

\* Every step of an old game keeps the invariant.
LEMMA OldStep == OldInv /\ [Old!Next]_(Old!vars) => OldInv'
  <1> SUFFICES ASSUME OldInv, [Old!Next]_(Old!vars) PROVE OldInv'
    OBVIOUS
  <1>1. CASE UNCHANGED Old!vars
    BY <1>1 DEF Old!vars, Old!display, Old!input, OldInv, OldKinds, Fresh, PinTaken,
                CopyOverridden, DeviceKnown, Drawn, Keys
  <1>2. CASE Old!External
    BY <1>2, OldExternalKeeps
  <1>3. CASE Old!Override
    BY <1>3, OverrideKeeps
  <1>4. CASE game = "th06" /\ Old!InitRendering(TRUE)
    BY <1>4, InitRenderingKeeps
  <1>5. CASE game # "th06" /\ Old!InitRendering(FALSE)
    BY <1>5, InitRenderingKeeps
  <1>6. CASE Old!WriteCfg
    BY <1>6, WriteCfgKeeps
  <1>7. CASE \/ Old!Six!CalcThenDraw \/ Old!Seven!CalcThenDraw
             \/ Old!Eight!ObservedFrame \/ Old!NineHalf!GameFrame
    <2>1. PICK observer \in BOOLEAN : observer <=> game # "th095"
      OBVIOUS
    <2> QED BY <1>7, <2>1, FrameShows
  <1> QED BY <1>1, <1>2, <1>3, <1>4, <1>5, <1>6, <1>7, CratesShare
          DEF Old!Next, Old!Six!Next, Old!Seven!Next, Old!Eight!Next, Old!NineHalf!Next

-----------------------------------------------------------------------------
(* The oldest games: the theorems                                          *)

\* What the runs do with the oldest games, those games do.
LEMMA RunsOldGames == MCSpec => Old!Init /\ [][Old!Next]_(Old!vars)
  <1>1. MCInit => Old!Init
    BY DEF MCInit
  <1>2. [MCNext]_<<vars, family, ovars, dvars>> => [Old!Next]_(Old!vars)
    BY DEF MCNext, ovars, oinput, Old!vars, Old!display, Old!input
  <1> QED BY <1>1, <1>2, PTL DEF MCSpec

\* The invariant holds.
LEMMA OldGamesHold == MCSpec => []OldInv
  BY RunsOldGames, OldInit, OldStep, PTL

\* Every device is created in the configured mode with 32-bit colours, and th06
\* knows its format (patches.rs, init_d3d_rendering_hook).
THEOREM DevicesFollowConfig == MCSpec => []DeviceAsConfigured
  <1>1. OldInv => DeviceAsConfigured
    BY DEF OldInv, DeviceKnown, DeviceAsConfigured, Old!DeviceAsConfigured
  <1> QED BY <1>1, OldGamesHold, PTL

\* No frame trails the input by a tick (patches.rs, calc_then_draw_hook).
THEOREM FramesAreFresh == MCSpec => []FreshFrame
  <1>1. OldInv => FreshFrame
    BY DEF OldInv, Drawn, FreshFrame, Old!FreshFrame
  <1> QED BY <1>1, OldGamesHold, PTL

\* The keys that fast-forward a replay are held keys (state.rs, replay_keys).
THEOREM ReplayKeysAreHeld == MCSpec => []KeysArePressed
  <1>1. OldInv => KeysArePressed
    BY DEF OldInv, Keys, KeysArePressed, Old!KeysArePressed,
           Old!Six!ReplayKeys, Old!Seven!ReplayKeys, Old!Eight!ReplayKeys,
           Old!Six!HeldKeys, Old!Seven!HeldKeys, Old!Eight!HeldKeys
  <1> QED BY <1>1, OldGamesHold, PTL

\* The player's settings survive the overrides (patches.rs, cfg_write_hook).
THEOREM PlayersCfgIsWritten == MCSpec => WritesPlayersCfg
  <1>1. ASSUME OldInv, [Old!Next]_(Old!vars), ophase = "exit", ofile' # ofile
        PROVE  /\ ofile'.frameskip = player.frameskip
               /\ ofile'.force16 = player.force16
               /\ ofile'.color = Old!Resolved(player.color)
               /\ ofile'.windowed = player.windowed \/ toggled
    <2>1. CASE Old!WriteCfg
      <3>1. ofile' = ocfg'
        BY <1>1, <2>1 DEF Old!WriteCfg
      <3> QED BY <1>1, <2>1, <3>1, WriteCfgWrites
    <2>2. CASE \/ Old!Six!CalcThenDraw \/ Old!Seven!CalcThenDraw
               \/ Old!Eight!ObservedFrame \/ Old!NineHalf!GameFrame
      BY <1>1, <2>2 DEF Old!Six!CalcThenDraw, Old!Six!Frame, Old!Seven!CalcThenDraw,
         Old!Seven!Frame, Old!Eight!ObservedFrame, Old!Eight!Frame, Old!NineHalf!GameFrame,
         Old!NineHalf!Frame
    <2>3. CASE Old!Override \/ Old!InitRendering(TRUE) \/ Old!InitRendering(FALSE)
      BY <1>1, <2>3 DEF Old!Override, Old!InitRendering
    <2>4. CASE Old!External \/ UNCHANGED Old!vars
      BY <1>1, <2>4 DEF Old!External, Old!Launch, Old!CreateAgain, Old!Present, Old!SetOption,
         Old!ReplayStage, Old!End, Old!CustomExe, Old!vars, Old!display
    <2> QED BY <1>1, <2>1, <2>2, <2>3, <2>4, CratesShare
            DEF Old!Next, Old!Six!Next, Old!Seven!Next, Old!Eight!Next, Old!NineHalf!Next
  <1>2. OldInv /\ [Old!Next]_(Old!vars) =>
          [ophase = "exit" /\ ofile' # ofile =>
              /\ ofile'.frameskip = player.frameskip
              /\ ofile'.force16 = player.force16
              /\ ofile'.color = Old!Resolved(player.color)
              /\ ofile'.windowed = player.windowed \/ toggled]_(Old!vars)
    BY <1>1
  <1> QED BY <1>2, RunsOldGames, OldGamesHold, PTL DEF WritesPlayersCfg, Old!WritesPlayersCfg

-----------------------------------------------------------------------------
(* The startup dialog: neopatch.ini                                        *)

\* A set of natural numbers has a least element.
LEMMA LeastNatural ==
    ASSUME NEW S \in SUBSET Nat, S # {}
    PROVE  \E n \in S : \A m \in S : n <= m
  <1> DEFINE R == OpToRel(<, Nat)
  <1>1. IsWellFoundedOn(R, Nat)
    BY NatLessThanWellFounded
  <1>2. \A x, y \in Nat : <<y, x>> \in R <=> y < x
    BY DEF OpToRel
  <1> HIDE DEF R
  <1>3. PICK n \in S : \A m \in S : ~(<<m, n>> \in R)
    BY <1>1, WFMin
  <1>4. \A m \in S : ~(m < n)
    BY <1>2, <1>3
  <1> QED BY <1>4

\* What holds before the first line and goes on from each line to the next
\* holds after the last.
LEMMA LineByLine ==
    ASSUME NEW L \in Nat, NEW S, 0 \in S, \A n \in 0..L : n > 0 /\ n - 1 \in S => n \in S
    PROVE  \A n \in 0..L : n \in S
  <1> SUFFICES ASSUME NEW k \in 0..L, k \notin S PROVE FALSE
    OBVIOUS
  <1>1. PICK n \in {i \in 0..L : i \notin S} : \A m \in {i \in 0..L : i \notin S} : n <= m
    <2> DEFINE T == {i \in 0..L : i \notin S}
    <2>1. T \in SUBSET Nat /\ T # {}
      OBVIOUS
    <2> QED BY <2>1, LeastNatural
  <1>2. n > 0 /\ n - 1 \in 0..L
    BY <1>1
  <1>3. n - 1 \in S
    BY <1>1, <1>2
  <1> QED BY <1>1, <1>2, <1>3

\* The reading that ReadLines defines exists: one line more for each line.
IsReading(c, t, ls, N) ==
    c = [n \in 0..N |-> IF n = 0 THEN Dialog!Default
                        ELSE Dialog!ReadLine(t, c[n - 1], ls[n])]

LEMMA ReadingExists ==
    ASSUME NEW t, NEW ls, NEW N \in Nat
    PROVE  \E c : IsReading(c, t, ls, N)
  <1> DEFINE Reading(L) == \E c : IsReading(c, t, ls, L)
             S == {L \in Nat : Reading(L)}
  <1>1. Reading(0)
    <2> DEFINE c == [n \in 0..0 |-> Dialog!Default]
    <2>1. c = [n \in 0..0 |-> IF n = 0 THEN Dialog!Default
                              ELSE Dialog!ReadLine(t, c[n - 1], ls[n])]
      OBVIOUS
    <2> QED BY <2>1 DEF IsReading
  <1>2. ASSUME NEW L \in Nat, L > 0, Reading(L - 1)
        PROVE  Reading(L)
    <2>1. PICK b : b = [n \in 0..(L - 1) |-> IF n = 0 THEN Dialog!Default
                                             ELSE Dialog!ReadLine(t, b[n - 1], ls[n])]
      BY <1>2 DEF IsReading
    <2> DEFINE c == [n \in 0..L |-> IF n < L THEN b[n]
                                    ELSE Dialog!ReadLine(t, b[L - 1], ls[L])]
    <2>2. \A n \in 0..L : c[n] = IF n = 0 THEN Dialog!Default
                                 ELSE Dialog!ReadLine(t, c[n - 1], ls[n])
      <3> SUFFICES ASSUME NEW n \in 0..L
                   PROVE  c[n] = IF n = 0 THEN Dialog!Default
                                 ELSE Dialog!ReadLine(t, c[n - 1], ls[n])
        OBVIOUS
      <3>1. CASE n = 0
        BY <1>2, <2>1, <3>1
      <3>2. CASE n > 0
        <4>1. n - 1 \in 0..(L - 1) /\ c[n - 1] = b[n - 1]
          BY <3>2
        <4>2. CASE n < L
          BY <2>1, <3>2, <4>1, <4>2
        <4>3. CASE n = L
          BY <3>2, <4>1, <4>3
        <4> QED BY <4>2, <4>3
      <3> QED BY <3>1, <3>2
    <2>3. c = [n \in 0..L |-> IF n = 0 THEN Dialog!Default
                              ELSE Dialog!ReadLine(t, c[n - 1], ls[n])]
      BY <2>2
    <2> QED BY <2>3 DEF IsReading
  <1>3. 0 \in S /\ \A n \in 0..N : n > 0 /\ n - 1 \in S => n \in S
    <2> HIDE DEF Reading
    <2> QED BY <1>1, <1>2
  <1>4. N \in S
    <2> HIDE DEF S
    <2> QED BY <1>3, LineByLine
  <1> QED BY <1>4

\* ReadLines is what its recursive definition says.
LEMMA ReadLinesUnfolds ==
    ASSUME NEW t, NEW ls, Len(ls) \in Nat
    PROVE  \A n \in 0..Len(ls) :
              Dialog!ReadLines(t, ls)[n] =
                  IF n = 0 THEN Dialog!Default
                  ELSE Dialog!ReadLine(t, Dialog!ReadLines(t, ls)[n - 1], ls[n])
  <1>0. PICK N \in Nat : N = Len(ls)
    OBVIOUS
  <1>1. IsReading(CHOOSE c : IsReading(c, t, ls, N), t, ls, N)
    <2>1. \E c : IsReading(c, t, ls, N)
      BY <1>0, ReadingExists
    <2> QED BY <2>1, Zenon
  <1>2. IsReading(Dialog!ReadLines(t, ls), t, ls, N)
    BY <1>0, <1>1 DEF Dialog!ReadLines, IsReading
  <1> QED BY <1>0, <1>2 DEF IsReading

\* The lines up to n that say something, and what the last of them says.
Sayings(n, kind, readable) ==
    {i \in 1..n : lines[i].kind = kind /\ lines[i].text \in readable
                  /\ Dialog!Section(i) = "display"}
LastOf(S) == CHOOSE i \in S : \A k \in S : k <= i
SaidTo(n, kind, readable, default) ==
    LET at == Sayings(n, kind, readable)
    IN  IF at = {} THEN default ELSE lines[LastOf(at)].text

\* A line that is among them is the last of them.
LEMMA LastIsGreatest ==
    ASSUME NEW n \in Nat, NEW S \in SUBSET (1..n), n \in S
    PROVE  LastOf(S) = n
  <1>1. \A k \in S : k \in Nat /\ k <= n
    OBVIOUS
  <1>2. \A i \in S : (\A k \in S : k <= i) <=> i = n
    BY <1>1
  <1>3. PICK m : m = LastOf(S)
    OBVIOUS
  <1>4. m \in S /\ \A k \in S : k <= m
    BY <1>2, <1>3 DEF LastOf
  <1> QED BY <1>2, <1>3, <1>4

\* One line more.
LEMMA SaidNext ==
    ASSUME NEW n \in Nat, n > 0, NEW kind, NEW readable, NEW default
    PROVE  SaidTo(n, kind, readable, default) =
              IF lines[n].kind = kind /\ lines[n].text \in readable
                 /\ Dialog!Section(n) = "display"
              THEN lines[n].text ELSE SaidTo(n - 1, kind, readable, default)
  <1>1. CASE n \in Sayings(n, kind, readable)
    <2>1. LastOf(Sayings(n, kind, readable)) = n
      BY <1>1, LastIsGreatest DEF Sayings
    <2> QED BY <1>1, <2>1 DEF SaidTo, Sayings
  <1>2. CASE n \notin Sayings(n, kind, readable)
    <2>1. Sayings(n, kind, readable) = Sayings(n - 1, kind, readable)
      BY <1>2 DEF Sayings
    <2>2. ~(/\ lines[n].kind = kind /\ lines[n].text \in readable
            /\ Dialog!Section(n) = "display")
      BY <1>2 DEF Sayings
    <2>3. SaidTo(n, kind, readable, default) = SaidTo(n - 1, kind, readable, default)
      BY <2>1 DEF SaidTo
    <2> QED BY <2>2, <2>3
  <1> QED BY <1>1, <1>2

\* The section after one line more.
LEMMA SectionNext ==
    ASSUME NEW n \in Nat, n > 0
    PROVE  Dialog!Section(n) =
              IF lines[n].kind = "header" /\ lines[n].text # "broken"
              THEN lines[n].text ELSE Dialog!Section(n - 1)
  <1> DEFINE Heads(m) == {j \in 1..m : lines[j].kind = "header" /\ lines[j].text # "broken"}
  <1>1. \A m : Dialog!Section(m) =
                  IF Heads(m) = {} THEN "" ELSE lines[LastOf(Heads(m))].text
    BY DEF Dialog!Section, LastOf
  <1>2. CASE n \in Heads(n)
    <2>1. LastOf(Heads(n)) = n
      BY <1>2, LastIsGreatest
    <2> QED BY <1>1, <1>2, <2>1
  <1>3. CASE n \notin Heads(n)
    <2>1. Heads(n) = Heads(n - 1)
      BY <1>3
    <2>2. ~(lines[n].kind = "header" /\ lines[n].text # "broken")
      BY <1>3
    <2>3. Dialog!Section(n) = Dialog!Section(n - 1)
      <3> HIDE DEF Heads
      <3> QED BY <1>1, <2>1
    <2> QED BY <2>2, <2>3
  <1> QED BY <1>2, <1>3

\* What can be known of a file, and how a line changes it.
Settings == [section : {"", "display", "log"}, mode : Dialog!DisplayMode,
             display_mode : Dialog!DisplayModeExt, resolution : Dialog!Resolution]

\* A line changes one setting and leaves the others.
LEMMA SettingsChange ==
    ASSUME NEW c \in Settings, NEW v
    PROVE  /\ v \in {"display", "log"} =>
                LET d == [c EXCEPT !.section = v] IN
                /\ d \in Settings /\ d.section = v /\ d.mode = c.mode
                /\ d.display_mode = c.display_mode /\ d.resolution = c.resolution
           /\ v \in Dialog!DisplayMode =>
                LET d == [c EXCEPT !.mode = v] IN
                /\ d \in Settings /\ d.mode = v /\ d.section = c.section
                /\ d.display_mode = c.display_mode /\ d.resolution = c.resolution
           /\ v \in Dialog!DisplayModeExt =>
                LET d == [c EXCEPT !.display_mode = v] IN
                /\ d \in Settings /\ d.display_mode = v /\ d.section = c.section
                /\ d.mode = c.mode /\ d.resolution = c.resolution
           /\ v \in Dialog!Resolution =>
                LET d == [c EXCEPT !.resolution = v] IN
                /\ d \in Settings /\ d.resolution = v /\ d.section = c.section
                /\ d.mode = c.mode /\ d.display_mode = c.display_mode
  BY DEF Settings

\* What is known after n lines is what they say.
KnownAfter(c, n) ==
    /\ c \in Settings
    /\ c.section = Dialog!Section(n)
    /\ title \in Dialog!DispatchTitle =>
          c.display_mode = SaidTo(n, "mode", Dialog!DisplayModeExt, "Windowed")
    /\ title \notin Dialog!DispatchTitle =>
          c.mode = SaidTo(n, "mode", Dialog!DisplayMode, "Windowed")
    /\ title \notin Dialog!BoxTitle =>
          c.resolution = SaidTo(n, "resolution", Dialog!Resolution, "1280x960")

\* Before the first line the defaults are known.
LEMMA KnownAtFirst == KnownAfter(Dialog!Default, 0)
  <1>1. Dialog!Section(0) = ""
    BY DEF Dialog!Section
  <1>2. \A kind, readable, default : SaidTo(0, kind, readable, default) = default
    BY DEF SaidTo, Sayings
  <1> QED BY <1>1, <1>2 DEF KnownAfter, Settings, Dialog!Default,
          Dialog!DisplayMode, Dialog!DisplayModeExt, Dialog!Resolution

\* A line read is a line known.
LEMMA KnownNext ==
    ASSUME NEW n \in Nat, n > 0, NEW c, KnownAfter(c, n - 1), lines[n] \in Dialog!Line
    PROVE  KnownAfter(Dialog!ReadLine(title, c, lines[n]), n)
  <1>0. PICK l \in Dialog!Line : l = lines[n]
    OBVIOUS
  <1>1. PICK d : d = Dialog!ReadLine(title, c, l)
    OBVIOUS
  <1>2. c \in Settings
    BY DEF KnownAfter
  <1>3. CASE l.kind = "header"
    <2>1. \A readable, default :
              /\ SaidTo(n, "mode", readable, default) = SaidTo(n - 1, "mode", readable, default)
              /\ SaidTo(n, "resolution", readable, default) =
                    SaidTo(n - 1, "resolution", readable, default)
      BY <1>0, <1>3, SaidNext
    <2>2. CASE l.text = "broken"
      <3>1. d = c /\ Dialog!Section(n) = Dialog!Section(n - 1)
        BY <1>0, <1>1, <1>3, <2>2, SectionNext DEF Dialog!ReadLine
      <3> QED BY <1>0, <1>1, <2>1, <3>1 DEF KnownAfter
    <2>3. CASE l.text # "broken"
      <3>1. d = [c EXCEPT !.section = l.text] /\ Dialog!Section(n) = l.text
            /\ l.text \in {"display", "log"}
        BY <1>0, <1>1, <1>3, <2>3, SectionNext DEF Dialog!ReadLine, Dialog!Line
      <3>2. /\ d \in Settings /\ d.section = l.text /\ d.mode = c.mode
            /\ d.display_mode = c.display_mode /\ d.resolution = c.resolution
        BY <1>2, <3>1, SettingsChange
      <3>3. Dialog!Section(n) = l.text
        BY <3>1
      <3> QED BY <1>0, <1>1, <2>1, <3>2, <3>3 DEF KnownAfter
    <2> QED BY <2>2, <2>3
  <1>4. CASE l.kind # "header"
    <2>1. Dialog!Section(n) = c.section
      BY <1>0, <1>4, SectionNext DEF KnownAfter
    <2>2. CASE c.section # "display"
      <3>1. d = c
        BY <1>1, <1>4, <2>2 DEF Dialog!ReadLine
      <3>2. \A kind, readable, default :
                SaidTo(n, kind, readable, default) = SaidTo(n - 1, kind, readable, default)
        BY <2>1, <2>2, SaidNext
      <3> QED BY <1>0, <1>1, <2>1, <3>1, <3>2 DEF KnownAfter
    <2>3. CASE c.section = "display"
      <3>1. d = Dialog!Apply(title, c, l)
        BY <1>1, <1>4, <2>3 DEF Dialog!ReadLine
      <3>2. \A kind, readable, default :
                SaidTo(n, kind, readable, default) =
                    IF l.kind = kind /\ l.text \in readable THEN l.text
                    ELSE SaidTo(n - 1, kind, readable, default)
        BY <1>0, <2>1, <2>3, SaidNext
      <3>3. l.kind \in {"mode", "resolution"}
        BY <1>4 DEF Dialog!Line
      <3>4. Dialog!BoxTitle \cap Dialog!DispatchTitle = {}
        BY DEF Dialog!BoxTitle, Dialog!DispatchTitle
      <3>5. /\ d \in Settings /\ d.section = c.section
            /\ d.resolution = IF l.kind = "resolution" /\ title \notin Dialog!BoxTitle
                                 /\ l.text \in Dialog!Resolution
                              THEN l.text ELSE c.resolution
            /\ d.display_mode = IF l.kind = "mode" /\ title \in Dialog!DispatchTitle
                                   /\ l.text \in Dialog!DisplayModeExt
                                THEN l.text ELSE c.display_mode
            /\ d.mode = IF l.kind = "mode" /\ title \notin Dialog!DispatchTitle
                           /\ l.text \in Dialog!DisplayMode
                        THEN l.text ELSE c.mode
        <4>1. CASE l.kind = "resolution" /\ title \notin Dialog!BoxTitle
                   /\ l.text \in Dialog!Resolution
          <5>1. d = [c EXCEPT !.resolution = l.text]
            BY <3>1, <4>1 DEF Dialog!Apply
          <5>2. /\ d \in Settings /\ d.resolution = l.text /\ d.section = c.section
                /\ d.mode = c.mode /\ d.display_mode = c.display_mode
            BY <1>2, <4>1, <5>1, SettingsChange
          <5> QED BY <4>1, <5>2
        <4>2. CASE l.kind = "mode" /\ title \in Dialog!DispatchTitle
                   /\ l.text \in Dialog!DisplayModeExt
          <5>1. d = [c EXCEPT !.display_mode = l.text]
            BY <3>1, <4>2 DEF Dialog!Apply
          <5>2. /\ d \in Settings /\ d.display_mode = l.text /\ d.section = c.section
                /\ d.mode = c.mode /\ d.resolution = c.resolution
            BY <1>2, <4>2, <5>1, SettingsChange
          <5> QED BY <4>2, <5>2
        <4>3. CASE l.kind = "mode" /\ title \notin Dialog!DispatchTitle
                   /\ l.text \in Dialog!DisplayMode
          <5>1. d = [c EXCEPT !.mode = l.text]
            BY <3>1, <4>3 DEF Dialog!Apply, Dialog!ApplyDisplay
          <5>2. /\ d \in Settings /\ d.mode = l.text /\ d.section = c.section
                /\ d.display_mode = c.display_mode /\ d.resolution = c.resolution
            BY <1>2, <4>3, <5>1, SettingsChange
          <5> QED BY <4>3, <5>2
        <4>4. CASE ~(\/ l.kind = "resolution" /\ title \notin Dialog!BoxTitle
                         /\ l.text \in Dialog!Resolution
                     \/ l.kind = "mode" /\ title \in Dialog!DispatchTitle
                         /\ l.text \in Dialog!DisplayModeExt
                     \/ l.kind = "mode" /\ title \notin Dialog!DispatchTitle
                         /\ l.text \in Dialog!DisplayMode)
          <5>1. d = c
            BY <3>1, <4>4 DEF Dialog!Apply, Dialog!ApplyDisplay
          <5> QED BY <1>2, <4>4, <5>1
        <4> QED BY <4>1, <4>2, <4>3, <4>4
      <3>6. KnownAfter(d, n)
        BY <2>1, <3>2, <3>3, <3>5 DEF KnownAfter
      <3> QED BY <1>0, <1>1, <3>6
    <2> QED BY <2>2, <2>3
  <1> QED BY <1>3, <1>4

\* neopatch.ini, of any length.
IsFile == \E n \in Nat : lines \in [1..n -> Dialog!Line]

\* What the file says is what is read from it.
ReadAsSaid(c) ==
    /\ c \in Settings
    /\ title \in Dialog!DispatchTitle =>
          c.display_mode = Dialog!WantedMode /\ c.mode = Dialog!ToCore(Dialog!WantedMode)
    /\ title \notin Dialog!DispatchTitle => c.mode = Dialog!WantedMode
    /\ title \notin Dialog!BoxTitle =>
          c.resolution = Dialog!Said("resolution", Dialog!Resolution, "1280x960")

\* Parse knows what the file says.
LEMMA ParseSays ==
    ASSUME title \in Dialog!Title, IsFile
    PROVE  ReadAsSaid(Dialog!Parse(title, lines))
  <1>1. PICK N \in Nat : lines \in [1..N -> Dialog!Line]
    BY DEF IsFile
  <1>2. Len(lines) = N /\ DOMAIN lines = 1..N
    BY <1>1
  <1> DEFINE c == Dialog!ReadLines(title, lines)
             S == {n \in Nat : KnownAfter(c[n], n)}
  <1>3. \A n \in 0..N : c[n] = IF n = 0 THEN Dialog!Default
                               ELSE Dialog!ReadLine(title, c[n - 1], lines[n])
    BY <1>2, ReadLinesUnfolds
  <1>4. 0 \in S
    BY <1>3, KnownAtFirst
  <1>5. \A n \in 0..N : n > 0 /\ n - 1 \in S => n \in S
    <2> SUFFICES ASSUME NEW n \in 0..N, n > 0, n - 1 \in S PROVE n \in S
      OBVIOUS
    <2>1. lines[n] \in Dialog!Line /\ KnownAfter(c[n - 1], n - 1)
      BY <1>1
    <2>2. KnownAfter(Dialog!ReadLine(title, c[n - 1], lines[n]), n)
      BY <2>1, KnownNext
    <2> QED BY <1>3, <2>2
  <1>6. KnownAfter(c[N], N)
    <2> HIDE DEF S
    <2>1. N \in S
      BY <1>4, <1>5, LineByLine
    <2> QED BY <2>1 DEF S
  <1>7. \A kind, readable, default :
            SaidTo(N, kind, readable, default) = Dialog!Said(kind, readable, default)
    BY <1>2 DEF SaidTo, Sayings, LastOf, Dialog!Said
  <1>8. CASE title \in Dialog!DispatchTitle
    <2>1. Dialog!Parse(title, lines) =
              [c[N] EXCEPT !.mode = Dialog!ToCore(c[N].display_mode)]
      BY <1>2, <1>8 DEF Dialog!Parse
    <2>2. /\ c[N] \in Settings
          /\ c[N].display_mode = Dialog!WantedMode
          /\ title \notin Dialog!BoxTitle =>
                c[N].resolution = Dialog!Said("resolution", Dialog!Resolution, "1280x960")
      BY <1>6, <1>7, <1>8 DEF KnownAfter, Dialog!WantedMode
    <2>3. Dialog!ToCore(c[N].display_mode) \in Dialog!DisplayMode
      BY <2>2 DEF Settings, Dialog!ToCore, Dialog!DisplayMode, Dialog!DisplayModeExt
    <2>4. PICK b \in Settings : b = c[N]
      BY <2>2
    <2>5. PICK m \in Dialog!DisplayMode : m = Dialog!ToCore(b.display_mode)
      BY <2>3, <2>4
    <2>6. PICK d : d = [b EXCEPT !.mode = m]
      OBVIOUS
    <2>7. /\ d \in Settings /\ d.mode = m
          /\ d.display_mode = b.display_mode /\ d.resolution = b.resolution
      <3>1. b \in Settings /\ m \in Dialog!DisplayMode
        BY <2>4, <2>5
      <3> QED BY <2>6, <3>1, SettingsChange
    <2>8. Dialog!Parse(title, lines) = d
      BY <2>1, <2>4, <2>5, <2>6
    <2> QED BY <1>8, <2>2, <2>4, <2>5, <2>7, <2>8 DEF ReadAsSaid
  <1>9. CASE title \notin Dialog!DispatchTitle
    <2>1. Dialog!Parse(title, lines) = c[N]
      BY <1>2, <1>9 DEF Dialog!Parse
    <2>2. /\ c[N].mode = Dialog!WantedMode /\ c[N].mode \in Dialog!DisplayMode
          /\ title \notin Dialog!BoxTitle =>
                c[N].resolution = Dialog!Said("resolution", Dialog!Resolution, "1280x960")
      BY <1>6, <1>7, <1>9 DEF KnownAfter, Settings, Dialog!WantedMode
    <2> QED BY <1>6, <1>9, <2>1, <2>2 DEF ReadAsSaid, KnownAfter
  <1> QED BY <1>8, <1>9

-----------------------------------------------------------------------------
(* The startup dialog: the invariant                                       *)

\* What the game can remember.
Memory == [byte : {0, 1}, radio : 0..8, scale : 0..8, ret : {0, 6, 7},
           flags : SUBSET {"dialog", "other", "exit"}, posted : BOOLEAN]

\* What the variables hold.
DialogKinds ==
    /\ title \in Dialog!Title /\ IsFile
    /\ memory \in Memory /\ "other" \in memory.flags
    /\ stage = "hidden" => title \in Dialog!ModelessTitle

\* From the installation on the configuration is what the file says.
Configured ==
    stage # "start" =>
        /\ config = Dialog!Parse(title, lines)
        /\ policy = Dialog!WindowPolicy(title, config)

\* The game's memory says what the configuration says.
SaysConfig ==
    /\ title = "th10" => memory.ret = IF config.mode = "Windowed" THEN 7 ELSE 6
    /\ title \in Dialog!BoxTitle \ {"th10"} =>
          memory.byte = IF config.mode = "Windowed" THEN 1 ELSE 0
    /\ title \in Dialog!ModelessTitle =>
          /\ memory.byte = IF config.mode = "Fullscreen" THEN 1 ELSE 0
          /\ memory.radio = Dialog!Index[config.resolution]
    /\ title \in Dialog!DispatchTitle =>
          /\ memory.radio = Dialog!RadioIndex(config.resolution, config.display_mode)
          /\ memory.scale = Dialog!ScaleIndex(config.resolution, config.display_mode)

\* Nothing that the hooks know of holds the game back.
Freed ==
    /\ title \notin {"th10", "th11", "th12"} \cup Dialog!ModelessTitle =>
          "dialog" \notin memory.flags
    /\ title \in {"th14", "th15"} => "exit" \in memory.flags
    /\ title \in Dialog!ModelessTitle => memory.posted

\* An answered dialog says the configuration and lets the game go on.
Answered ==
    stage \in {"answered", "hidden", "game"} /\ ~excused => SaysConfig /\ Freed

\* A game runs as its memory says.
Started == stage = "game" => runs = Dialog!Outcome

\* The inductive invariant.
DialogInv == DialogKinds /\ Configured /\ Answered /\ Started

-----------------------------------------------------------------------------
(* The startup dialog: the steps                                           *)

\* Before a start nothing is answered.
LEMMA DialogInit == Dialog!Init => DialogInv
  <1> SUFFICES ASSUME Dialog!Init PROVE DialogInv
    OBVIOUS
  <1>1. PICK n \in 0..MaxLines : lines \in [1..n -> Dialog!Line]
    BY DEF Dialog!Init
  <1>2. IsFile
    BY <1>1 DEF IsFile
  <1>3. memory \in Memory /\ "other" \in memory.flags
    <2>1. memory \in [byte : {0, 1}, radio : {0, 2, 8}, scale : {0, 5}, ret : {0},
                      flags : {{"dialog", "other"}}, posted : {FALSE}]
      BY DEF Dialog!Init
    <2>2. {0, 2, 8} \subseteq 0..8 /\ {0, 5} \subseteq 0..8
      OBVIOUS
    <2> QED BY <2>1, <2>2 DEF Memory
  <1> QED BY <1>2, <1>3 DEF Dialog!Init, DialogInv, DialogKinds, Configured, Answered, Started

\* The file and the game stay what they are.
LEMMA SameGame == IsFile /\ lines' = lines => IsFile'
  BY DEF IsFile

\* The installation reads the file.
LEMMA InstallHooksKeeps == ASSUME DialogInv, Dialog!InstallHooks PROVE DialogInv'
  BY SameGame DEF Dialog!InstallHooks, DialogInv, DialogKinds, Configured, Answered, Started,
     Dialog!ModelessTitle

\* The configuration that a dialog is answered from.
LEMMA ConfigIsKnown ==
    ASSUME DialogInv, stage # "start"
    PROVE  ReadAsSaid(config) /\ config \in Settings
  BY ParseSays DEF DialogInv, DialogKinds, Configured, ReadAsSaid

\* The numbers that stand for a size are in the game's tables.
LEMMA IndexRange ==
    ASSUME NEW c \in Settings
    PROVE  /\ Dialog!Index[c.resolution] \in 0..2
           /\ Dialog!RadioIndex(c.resolution, c.display_mode) \in 0..8
           /\ Dialog!ScaleIndex(c.resolution, c.display_mode) \in 0..8
  <1>1. Dialog!Index[c.resolution] \in 0..2
    <2>1. PICK r \in {"640x480", "960x720", "1280x960"} : r = c.resolution
      BY DEF Settings, Dialog!Resolution
    <2>2. Dialog!Index[r] = IF r = "640x480" THEN 0 ELSE IF r = "960x720" THEN 1 ELSE 2
      BY <2>1 DEF Dialog!Index, Dialog!Resolution
    <2> QED BY <2>1, <2>2
  <1>2. Dialog!RadioIndex(c.resolution, c.display_mode) \in 0..8
    BY <1>1 DEF Dialog!RadioIndex
  <1> QED BY <1>1, <1>2 DEF Dialog!ScaleIndex

\* An answer that says what the configuration says.
LEMMA AnswerKeeps ==
    ASSUME DialogInv, NEW t \in Dialog!Title \ Dialog!ModelessTitle, NEW m \in Memory,
           "other" \in m.flags, Dialog!Answer(t, m), SaysConfig', Freed'
    PROVE  DialogInv'
  <1>1. /\ stage = "asks" /\ title = t /\ stage' = "answered" /\ memory' = m
        /\ UNCHANGED <<title, lines, config, policy, excused, runs>>
    BY DEF Dialog!Answer
  <1>2. DialogKinds'
    BY <1>1, SameGame DEF DialogInv, DialogKinds
  <1>3. Configured'
    BY <1>1 DEF DialogInv, Configured
  <1> QED BY <1>1, <1>2, <1>3 DEF DialogInv, Answered, Started

\* The hooks of the modal boxes answer so.
LEMMA DismissBoxKeeps ==
    ASSUME DialogInv,
           \/ Dialog!Dismiss10 \/ Dialog!Dismiss11 \/ Dialog!Dismiss12
           \/ Dialog!Dismiss125 \/ Dialog!Dismiss128 \/ Dialog!Dismiss13
    PROVE  DialogInv'
  <1>1. PICK t, m :
            /\ t \in Dialog!BoxTitle /\ Dialog!Answer(t, m)
            /\ m = IF t = "th10"
                   THEN [memory EXCEPT !.ret = IF config.mode = "Windowed" THEN 7 ELSE 6]
                   ELSE IF t \in {"th11", "th12"}
                   THEN [memory EXCEPT !.byte = IF config.mode = "Windowed" THEN 1 ELSE 0,
                                       !.ret = 6]
                   ELSE [memory EXCEPT !.byte = IF config.mode = "Windowed" THEN 1 ELSE 0,
                                       !.ret = 6, !.flags = @ \ {"dialog"}]
    BY DEF Dialog!BoxTitle, Dialog!Dismiss10, Dialog!Dismiss11, Dialog!Dismiss12,
           Dialog!Dismiss125, Dialog!Dismiss128, Dialog!Dismiss13,
           Dialog!AnswerWithByte, Dialog!AnswerWithFlags, Dialog!ModeByte, Dialog!OK
  <1>2. memory \in Memory /\ "other" \in memory.flags
    BY DEF DialogInv, DialogKinds
  <1>3. /\ m \in Memory /\ "other" \in m.flags
        /\ t = "th10" => m.ret = IF config.mode = "Windowed" THEN 7 ELSE 6
        /\ t # "th10" => m.byte = IF config.mode = "Windowed" THEN 1 ELSE 0
        /\ t \notin {"th10", "th11", "th12"} => "dialog" \notin m.flags
    BY <1>1, <1>2 DEF Memory
  <1>4. title' = t /\ memory' = m /\ config' = config
    BY <1>1 DEF Dialog!Answer
  <1>5. t \in Dialog!Title \ Dialog!ModelessTitle
        /\ t \notin Dialog!DispatchTitle \cup {"th14", "th15"}
    BY <1>1 DEF Dialog!Title, Dialog!BoxTitle, Dialog!ModelessTitle, Dialog!DispatchTitle
  <1>6. SaysConfig' /\ Freed'
    BY <1>3, <1>4, <1>5 DEF SaysConfig, Freed
  <1> QED BY <1>1, <1>3, <1>5, <1>6, AnswerKeeps

\* So do those of the dispatcher.
LEMMA ShortCircuitKeeps ==
    ASSUME DialogInv, Dialog!Dismiss18 \/ Dialog!Dismiss20
    PROVE  DialogInv'
  <1>1. PICK t, m :
            /\ t \in Dialog!DispatchTitle /\ Dialog!Answer(t, m)
            /\ m = [memory EXCEPT
                      !.radio = Dialog!RadioIndex(config.resolution, config.display_mode),
                      !.scale = Dialog!ScaleIndex(config.resolution, config.display_mode),
                      !.flags = @ \ {"dialog"}]
    BY DEF Dialog!DispatchTitle, Dialog!Dismiss18, Dialog!Dismiss20, Dialog!ShortCircuit
  <1>2. memory \in Memory /\ "other" \in memory.flags
    BY DEF DialogInv, DialogKinds
  <1>3. /\ Dialog!RadioIndex(config.resolution, config.display_mode) \in 0..8
        /\ Dialog!ScaleIndex(config.resolution, config.display_mode) \in 0..8
    BY <1>1, ConfigIsKnown, IndexRange DEF Dialog!Answer
  <1>4. /\ m \in Memory /\ "other" \in m.flags /\ "dialog" \notin m.flags
        /\ m.radio = Dialog!RadioIndex(config.resolution, config.display_mode)
        /\ m.scale = Dialog!ScaleIndex(config.resolution, config.display_mode)
    BY <1>1, <1>2, <1>3 DEF Memory
  <1>5. title' = t /\ memory' = m /\ config' = config
    BY <1>1 DEF Dialog!Answer
  <1>6. t \in Dialog!Title \ Dialog!ModelessTitle
        /\ t \notin Dialog!BoxTitle \cup {"th10", "th14", "th15"}
    BY <1>1 DEF Dialog!Title, Dialog!BoxTitle, Dialog!ModelessTitle, Dialog!DispatchTitle
  <1>7. SaysConfig' /\ Freed'
    BY <1>4, <1>5, <1>6 DEF SaysConfig, Freed
  <1> QED BY <1>1, <1>4, <1>6, <1>7, AnswerKeeps

\* A dialog created hidden: what failed excuses it.
LEMMA CreatedKeeps ==
    ASSUME DialogInv, NEW t \in Dialog!ModelessTitle, NEW flag \in SUBSET {"exit"},
           Dialog!Created(t, flag), t \in {"th14", "th15"} => "exit" \in flag
    PROVE  DialogInv'
  <1>1. /\ stage = "asks" /\ title = t /\ stage' = "hidden"
        /\ UNCHANGED <<title, lines, config, policy, runs>>
    BY DEF Dialog!Created
  <1>2. PICK radio_ok \in BOOLEAN, check_ok \in BOOLEAN, post_ok \in BOOLEAN :
            /\ memory' = [Dialog!Controls(radio_ok, check_ok) EXCEPT
                            !.flags = @ \cup flag, !.posted = post_ok]
            /\ excused' = ~(radio_ok /\ check_ok /\ post_ok)
    BY DEF Dialog!Created
  <1>3. memory \in Memory /\ "other" \in memory.flags
    BY DEF DialogInv, DialogKinds
  <1>4. PICK i \in 0..2 : i = Dialog!Index[config.resolution]
    BY <1>1, ConfigIsKnown, IndexRange
  <1>5. PICK c : c = Dialog!Controls(radio_ok, check_ok)
    OBVIOUS
  <1>6. c = [memory EXCEPT
                !.radio = IF radio_ok THEN i ELSE @,
                !.byte = IF check_ok THEN IF config.mode = "Fullscreen" THEN 1 ELSE 0 ELSE @]
    BY <1>4, <1>5 DEF Dialog!Controls
  <1>7. /\ c \in Memory /\ "other" \in c.flags
        /\ radio_ok => c.radio = i
        /\ check_ok => c.byte = IF config.mode = "Fullscreen" THEN 1 ELSE 0
    <2>1. PICK r \in 0..8 : r = IF radio_ok THEN i ELSE memory.radio
      BY <1>3, <1>4 DEF Memory
    <2>2. PICK y \in {0, 1} :
              y = IF check_ok THEN IF config.mode = "Fullscreen" THEN 1 ELSE 0 ELSE memory.byte
      BY <1>3 DEF Memory
    <2>3. r \in 0..8 /\ y \in {0, 1}
      BY <2>1, <2>2
    <2>4. c = [memory EXCEPT !.radio = r, !.byte = y]
      BY <1>6, <2>1, <2>2
    <2>5. c \in Memory /\ c.flags = memory.flags /\ c.radio = r /\ c.byte = y
      BY <1>3, <2>3, <2>4 DEF Memory
    <2> QED BY <1>3, <2>1, <2>2, <2>5
  <1>8. memory' = [c EXCEPT !.flags = @ \cup flag, !.posted = post_ok]
    BY <1>2, <1>5
  <1>9. /\ memory' \in Memory /\ "other" \in memory'.flags
        /\ memory'.radio = c.radio /\ memory'.byte = c.byte
        /\ memory'.posted = post_ok /\ flag \subseteq memory'.flags
    BY <1>7, <1>8 DEF Memory
  <1>10. t \in Dialog!Title /\ t \notin Dialog!BoxTitle \cup Dialog!DispatchTitle \cup {"th10"}
    BY DEF Dialog!Title, Dialog!BoxTitle, Dialog!ModelessTitle, Dialog!DispatchTitle
  <1>11. ~excused' => SaysConfig' /\ Freed'
    <2> SUFFICES ASSUME ~excused' PROVE SaysConfig' /\ Freed'
      OBVIOUS
    <2>1. radio_ok /\ check_ok /\ post_ok
      BY <1>2
    <2> QED BY <1>1, <1>4, <1>7, <1>9, <1>10, <2>1 DEF SaysConfig, Freed
  <1>12. DialogKinds'
    BY <1>1, <1>9, SameGame DEF DialogInv, DialogKinds
  <1>13. Configured'
    BY <1>1 DEF DialogInv, Configured
  <1> QED BY <1>1, <1>11, <1>12, <1>13 DEF DialogInv, Answered, Started

\* Another tool's dialog, or none.
LEMMA NotOursKeeps ==
    ASSUME DialogInv, Dialog!PassBox \/ Dialog!NotCreated
    PROVE  DialogInv'
  <1>1. /\ stage = "asks" /\ stage' \in {"answered", "failed", "hidden"} /\ excused'
        /\ stage' = "hidden" => title \in Dialog!ModelessTitle
        /\ UNCHANGED <<title, lines, config, policy, runs>>
    BY DEF Dialog!PassBox, Dialog!NotCreated
  <1>2. memory' \in Memory /\ "other" \in memory'.flags
    <2>1. memory \in Memory /\ "other" \in memory.flags
      BY DEF DialogInv, DialogKinds
    <2>2. CASE Dialog!PassBox
      <3>1. PICK b \in {0, 1} :
                memory' = [memory EXCEPT !.byte = b, !.ret = 6 + b, !.flags = @ \ {"dialog"}]
        BY <2>2 DEF Dialog!PassBox, Dialog!OK
      <3>2. PICK r \in {6, 7} : r = 6 + b
        BY <3>1
      <3>3. memory' = [memory EXCEPT !.byte = b, !.ret = r, !.flags = @ \ {"dialog"}]
        BY <3>1, <3>2
      <3>4. b \in {0, 1} /\ r \in {6, 7}
        BY <3>1, <3>2
      <3> QED BY <2>1, <3>3, <3>4 DEF Memory
    <2>3. CASE Dialog!NotCreated
      BY <2>1, <2>3 DEF Dialog!NotCreated
    <2> QED BY <2>2, <2>3
  <1>3. DialogKinds'
    BY <1>1, <1>2, SameGame DEF DialogInv, DialogKinds
  <1>4. Configured'
    BY <1>1 DEF DialogInv, Configured
  <1> QED BY <1>1, <1>3, <1>4 DEF DialogInv, Answered, Started

\* The game goes on from its dialog.
LEMMA StartGameKeeps == ASSUME DialogInv, Dialog!StartGame PROVE DialogInv'
  <1>1. /\ stage \in {"answered", "hidden"} /\ stage' = "game" /\ runs' = Dialog!Outcome
        /\ UNCHANGED <<title, lines, config, policy, memory, excused>>
    BY DEF Dialog!StartGame, Dialog!CanStart
  <1>2. Dialog!Outcome' = Dialog!Outcome
    BY <1>1 DEF Dialog!Outcome
  <1>3. DialogKinds' /\ Configured'
    BY <1>1, SameGame DEF DialogInv, DialogKinds, Configured
  <1>4. Answered'
    BY <1>1 DEF DialogInv, Answered, SaysConfig, Freed
  <1> QED BY <1>1, <1>2, <1>3, <1>4 DEF DialogInv, Started

\* The end of the process.
LEMMA DialogEndKeeps == ASSUME DialogInv, Dialog!End PROVE DialogInv'
  <1>1. /\ stage' = "start" /\ UNCHANGED <<title, lines>>
        /\ memory' = [memory EXCEPT !.ret = 0, !.flags = {"dialog", "other"}, !.posted = FALSE]
    BY DEF Dialog!End
  <1>2. memory' \in Memory /\ "other" \in memory'.flags
    BY <1>1 DEF DialogInv, DialogKinds, Memory
  <1> QED BY <1>1, <1>2, SameGame DEF DialogInv, DialogKinds, Configured, Answered, Started

\* Every step of a start keeps the invariant.
LEMMA DialogStep == DialogInv /\ [Dialog!Next]_(Dialog!vars) => DialogInv'
  <1> SUFFICES ASSUME DialogInv, [Dialog!Next]_(Dialog!vars) PROVE DialogInv'
    OBVIOUS
  <1>1. CASE UNCHANGED Dialog!vars
    <2>1. UNCHANGED <<title, lines, config, policy, stage, memory, excused, runs>>
      BY <1>1 DEF Dialog!vars
    <2>2. Dialog!Outcome' = Dialog!Outcome
      BY <2>1 DEF Dialog!Outcome
    <2> QED BY <2>1, <2>2, SameGame DEF DialogInv, DialogKinds, Configured, Answered,
               SaysConfig, Freed, Started
  <1>2. CASE \/ Dialog!Dismiss10 \/ Dialog!Dismiss11 \/ Dialog!Dismiss12
             \/ Dialog!Dismiss125 \/ Dialog!Dismiss128 \/ Dialog!Dismiss13
    BY <1>2, DismissBoxKeeps
  <1>3. CASE Dialog!Dismiss18 \/ Dialog!Dismiss20
    BY <1>3, ShortCircuitKeeps
  <1>4. CASE Dialog!Dismiss14 \/ Dialog!Dismiss15 \/ Dialog!Dismiss16 \/ Dialog!Dismiss17
    <2>1. PICK t \in Dialog!ModelessTitle, flag \in SUBSET {"exit"} :
              Dialog!Created(t, flag) /\ (t \in {"th14", "th15"} => "exit" \in flag)
      BY <1>4 DEF Dialog!ModelessTitle, Dialog!Dismiss14, Dialog!Dismiss15,
                  Dialog!Dismiss16, Dialog!Dismiss17
    <2> QED BY <2>1, CreatedKeeps
  <1>5. CASE Dialog!PassBox \/ Dialog!NotCreated
    BY <1>5, NotOursKeeps
  <1> QED BY <1>1, <1>2, <1>3, <1>4, <1>5, InstallHooksKeeps, StartGameKeeps, DialogEndKeeps
          DEF Dialog!Next, Dialog!Dismiss

-----------------------------------------------------------------------------
(* The startup dialog: the theorems                                        *)

\* What the runs do with the dialogs, the games with a dialog do.
LEMMA RunsDialog == MCSpec => Dialog!Init /\ [][Dialog!Next]_(Dialog!vars)
  <1>1. MCInit => Dialog!Init
    BY DEF MCInit
  <1>2. [MCNext]_<<vars, family, ovars, dvars>> => [Dialog!Next]_(Dialog!vars)
    BY DEF MCNext, dvars, Dialog!vars
  <1> QED BY <1>1, <1>2, PTL DEF MCSpec

\* The invariant holds.
LEMMA DialogHolds == MCSpec => []DialogInv
  BY RunsDialog, DialogInit, DialogStep, PTL

\* A dialog that the player never gets to see does not keep the game waiting
\* (dialog_dismiss.rs, hook_create_dialog_param_a, dialog_short_circuit).
THEOREM DialogNeverWaits == MCSpec => []NeverWaits
  <1>1. DialogInv => NeverWaits
    BY DEF DialogInv, DialogKinds, Answered, Freed, NeverWaits, Dialog!NeverWaits,
           Dialog!CanStart
  <1> QED BY <1>1, DialogHolds, PTL

\* A game that says what the configuration says starts in the mode and size
\* that the file asks for, with the window hook told the same.
LEMMA StartsAsSaid ==
    ASSUME DialogInv, stage = "game", ~excused
    PROVE  Dialog!GameAsConfigured /\ Dialog!WindowMatchesGame
  <1>1. /\ runs = Dialog!Outcome /\ SaysConfig /\ title \in Dialog!Title
        /\ "other" \in memory.flags /\ policy = Dialog!WindowPolicy(title, config)
    BY DEF DialogInv, DialogKinds, Configured, Answered, Started
  <1>2. ReadAsSaid(config) /\ config \in Settings
    BY ConfigIsKnown
  <1>3. /\ config.mode \in {"Windowed", "Fullscreen"}
        /\ config.display_mode \in {"Windowed", "Fullscreen", "Borderless"}
        /\ config.resolution \in {"640x480", "960x720", "1280x960"}
    BY <1>2 DEF Settings, Dialog!DisplayMode, Dialog!DisplayModeExt, Dialog!Resolution
  <1>4. Dialog!Index[config.resolution] =
            IF config.resolution = "640x480" THEN 0
            ELSE IF config.resolution = "960x720" THEN 1 ELSE 2
    BY <1>3 DEF Dialog!Index, Dialog!Resolution
  <1>5. /\ Dialog!SizeAt[0] = "640x480" /\ Dialog!SizeAt[3] = "640x480"
        /\ Dialog!SizeAt[1] = "960x720" /\ Dialog!SizeAt[4] = "960x720"
        /\ Dialog!SizeAt[2] = "1280x960" /\ Dialog!SizeAt[5] = "1280x960"
        /\ Dialog!SizeAt[8] = "desktop"
    BY DEF Dialog!SizeAt
  <1>6. /\ Dialog!ScaleAt[0] = "640x480" /\ Dialog!ScaleAt[1] = "960x720"
        /\ Dialog!ScaleAt[2] = "1280x960" /\ Dialog!ScaleAt[5] = "desktop"
    BY <1>5 DEF Dialog!ScaleAt
  <1>7. /\ Dialog!ModeAt[0] = "Fullscreen" /\ Dialog!ModeAt[1] = "Fullscreen"
        /\ Dialog!ModeAt[2] = "Fullscreen" /\ Dialog!ModeAt[3] = "Windowed"
        /\ Dialog!ModeAt[4] = "Windowed" /\ Dialog!ModeAt[5] = "Windowed"
        /\ Dialog!ModeAt[8] = "Borderless"
    BY DEF Dialog!ModeAt
  <1>8. CASE title \in Dialog!BoxTitle
    <2>1. title \notin Dialog!DispatchTitle /\ title \notin Dialog!ModelessTitle
      BY <1>8 DEF Dialog!BoxTitle, Dialog!DispatchTitle, Dialog!ModelessTitle
    <2>2. runs = [mode |-> config.mode, resolution |-> "640x480", scaled |-> "640x480"]
      <3>1. CASE title = "th10"
        <4>1. memory.ret = IF config.mode = "Windowed" THEN 7 ELSE 6
          BY <1>1, <3>1 DEF SaysConfig
        <4>2. runs = [mode |-> IF memory.ret = 7 THEN "Windowed" ELSE "Fullscreen",
                      resolution |-> "640x480", scaled |-> "640x480"]
          BY <1>1, <2>1, <3>1 DEF Dialog!Outcome
        <4> QED BY <1>3, <4>1, <4>2
      <3>2. CASE title # "th10"
        <4>1. memory.byte = IF config.mode = "Windowed" THEN 1 ELSE 0
          BY <1>1, <1>8, <3>2 DEF SaysConfig
        <4>2. runs = [mode |-> IF memory.byte = 1 THEN "Windowed" ELSE "Fullscreen",
                      resolution |-> "640x480", scaled |-> "640x480"]
          BY <1>1, <1>8, <2>1, <3>2 DEF Dialog!Outcome
        <4> QED BY <1>3, <4>1, <4>2
      <3> QED BY <3>1, <3>2
    <2>3. config.mode = Dialog!WantedMode /\ Dialog!WantedResolution = "640x480"
      BY <1>2, <1>8, <2>1 DEF ReadAsSaid, Dialog!WantedResolution
    <2>4. policy = [defer |-> FALSE, display_mode |-> config.mode, framebuffer |-> "640x480"]
      BY <1>1, <1>8, <2>1 DEF Dialog!WindowPolicy
    <2> QED BY <1>1, <1>3, <2>2, <2>3, <2>4
            DEF Dialog!GameAsConfigured, Dialog!WindowMatchesGame, Dialog!ToCore
  <1>9. CASE title \in Dialog!ModelessTitle
    <2>1. title \notin Dialog!DispatchTitle /\ title \notin Dialog!BoxTitle /\ title # "th10"
      BY <1>9 DEF Dialog!BoxTitle, Dialog!DispatchTitle, Dialog!ModelessTitle
    <2>2. memory.radio = Dialog!Index[config.resolution]
          /\ memory.byte = IF config.mode = "Fullscreen" THEN 1 ELSE 0
      BY <1>1, <1>9 DEF SaysConfig
    <2>3. Dialog!SizeAt[memory.radio] = config.resolution
      BY <1>3, <1>4, <1>5, <2>2
    <2>4. runs = [mode |-> config.mode, resolution |-> config.resolution,
                  scaled |-> config.resolution]
      BY <1>1, <1>3, <1>9, <2>1, <2>2, <2>3 DEF Dialog!Outcome
    <2>5. config.mode = Dialog!WantedMode /\ config.resolution = Dialog!WantedResolution
      BY <1>2, <1>3, <2>1 DEF ReadAsSaid, Dialog!WantedResolution
    <2>6. policy = [defer |-> FALSE, display_mode |-> config.mode,
                    framebuffer |-> config.resolution]
      BY <1>1, <2>1 DEF Dialog!WindowPolicy
    <2> QED BY <1>1, <1>3, <2>4, <2>5, <2>6
            DEF Dialog!GameAsConfigured, Dialog!WindowMatchesGame, Dialog!ToCore
  <1>10. CASE title \in Dialog!DispatchTitle
    <2>1. title \notin Dialog!ModelessTitle /\ title \notin Dialog!BoxTitle /\ title # "th10"
      BY <1>10 DEF Dialog!BoxTitle, Dialog!DispatchTitle, Dialog!ModelessTitle
    <2>2. /\ config.display_mode = Dialog!WantedMode
          /\ config.mode = Dialog!ToCore(config.display_mode)
          /\ config.resolution = Dialog!Said("resolution", Dialog!Resolution, "1280x960")
      BY <1>2, <1>10, <2>1 DEF ReadAsSaid
    <2>3. /\ memory.radio = Dialog!RadioIndex(config.resolution, config.display_mode)
          /\ memory.scale = Dialog!ScaleIndex(config.resolution, config.display_mode)
      BY <1>1, <1>10 DEF SaysConfig
    <2>4. runs = [mode |-> Dialog!ModeAt[memory.radio],
                  resolution |-> Dialog!SizeAt[memory.radio],
                  scaled |-> Dialog!ScaleAt[memory.scale]]
      BY <1>1, <2>1 DEF Dialog!Outcome
    <2>5. CASE config.display_mode = "Borderless"
      <3>1. memory.radio = 8 /\ memory.scale = 5
        BY <2>3, <2>5 DEF Dialog!RadioIndex, Dialog!ScaleIndex
      <3>2. /\ Dialog!WantedMode = "Borderless" /\ Dialog!WantedResolution = "desktop"
            /\ policy = [defer |-> TRUE] /\ config.mode = "Fullscreen"
        BY <1>1, <1>10, <2>1, <2>2, <2>5
           DEF Dialog!WantedResolution, Dialog!WindowPolicy, Dialog!ToCore
      <3> QED BY <1>1, <1>5, <1>6, <1>7, <2>4, <3>1, <3>2
              DEF Dialog!GameAsConfigured, Dialog!WindowMatchesGame, Dialog!ToCore
    <2>6. CASE config.display_mode # "Borderless"
      <3>1. /\ Dialog!ModeAt[memory.radio] = config.display_mode
            /\ Dialog!SizeAt[memory.radio] = config.resolution
            /\ Dialog!ScaleAt[memory.scale] = config.resolution
        <4>1. PICK i \in 0..2 : i = Dialog!Index[config.resolution]
          BY <1>4
        <4>2. memory.radio = (IF config.display_mode = "Fullscreen" THEN i ELSE i + 3)
              /\ memory.scale = i
          BY <1>3, <2>3, <2>6, <4>1 DEF Dialog!RadioIndex, Dialog!ScaleIndex
        <4>3. /\ i = 0 => config.resolution = "640x480"
              /\ i = 1 => config.resolution = "960x720"
              /\ i = 2 => config.resolution = "1280x960"
          BY <1>3, <1>4, <4>1
        <4>4. i = 0 \/ i = 1 \/ i = 2
          BY <4>1
        <4> QED BY <1>3, <1>5, <1>6, <1>7, <2>6, <4>2, <4>3, <4>4
      <3>2. config.mode = config.display_mode
        BY <2>2, <2>6 DEF Dialog!ToCore
      <3>3. Dialog!WantedMode = config.mode /\ Dialog!WantedResolution = config.resolution
        BY <2>1, <2>2, <2>6, <3>2 DEF Dialog!WantedResolution
      <3>4. policy = [defer |-> FALSE, display_mode |-> config.mode,
                      framebuffer |-> config.resolution]
        BY <1>1, <2>1, <2>6 DEF Dialog!WindowPolicy
      <3> QED BY <1>1, <1>3, <2>4, <3>1, <3>2, <3>3, <3>4
              DEF Dialog!GameAsConfigured, Dialog!WindowMatchesGame, Dialog!ToCore
    <2> QED BY <2>5, <2>6
  <1> QED BY <1>1, <1>8, <1>9, <1>10 DEF Dialog!Title

\* Every game with a startup dialog, and neopatch beside it, starts as the file
\* says, of any length and whatever is remembered of the last start, unless
\* the dialog was another's or a call on it failed (dialog_dismiss.rs, config.rs).
THEOREM GamesStartAsConfigured == MCSpec => []StartsAsConfigured
  <1>1. DialogInv => StartsAsConfigured
    BY StartsAsSaid DEF StartsAsConfigured, Dialog!StartsAsConfigured
  <1> QED BY <1>1, DialogHolds, PTL
=============================================================================
