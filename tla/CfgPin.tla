-------------------------------- MODULE CfgPin ---------------------------------
(***************************************************************************)
(* The frameskip pin (cfg_pin.rs).  Hooks of the game's ReadFile and       *)
(* WriteFile force the frameskip of its cfg to 0 in memory, so that every  *)
(* logic tick is presented, and put the player's value back into what the  *)
(* game writes.  Nothing of this may show in the file: seen through the    *)
(* pin, the game and its file behave as VanillaCfg says.                   *)
(*                                                                         *)
(* The hooks see every file of the game; which one a handle refers to is   *)
(* asked of the system, and the query may fail on either side.             *)
(***************************************************************************)
EXTENDS Integers

CONSTANTS Value, Preset, Bound

VARIABLES
    file, phase,
    image,   \* the game's copy, as the game has it
    hooks,   \* the hooks installed
    cfg,     \* CFG is set
    pin      \* PIN: the player's frameskip, 0 for none

vars == <<file, phase, image, hooks, cfg, pin>>

\* What the game's copy would be without the pin.
Unpinned == IF image.frameskip = 0 THEN [image EXCEPT !.frameskip = pin] ELSE image

Vanilla == INSTANCE VanillaCfg WITH image <- Unpinned

ASSUME ValueAssumption == Preset \in Value
ASSUME BoundAssumption == Bound \in Nat \ {0}

Image == Vanilla!Image
Torn == Vanilla!Torn

\* identify_cfg_handle: the file that a handle refers to, or no answer.
Identity == {"cfg", "other", "unknown"}

TypeOK ==
    /\ file \in Image /\ image \in Image
    /\ phase \in {"off", "starting", "loaded", "running", "written"}
    /\ hooks \subseteq {"read", "write"} /\ cfg \in BOOLEAN
    /\ pin \in 0..(Bound - 1)

Init ==
    /\ file \in Image /\ phase = "off" /\ image = Vanilla!Defaults
    /\ hooks = {} /\ cfg = FALSE /\ pin = 0

-----------------------------------------------------------------------------
(* The hooks                                                               *)

\* The cfg taken up although only one hook is in place.
InstallEither ==
    /\ phase = "off" /\ phase' = "starting"
    /\ hooks' \in SUBSET {"read", "write"} /\ cfg' = (hooks' # {})
    /\ image' = Vanilla!Defaults /\ UNCHANGED <<file, pin>>

\* install: without both hooks the cfg is left alone.
Install ==
    /\ phase = "off" /\ phase' = "starting"
    /\ hooks' \in SUBSET {"read", "write"} /\ cfg' = (hooks' = {"read", "write"})
    /\ image' = Vanilla!Defaults /\ UNCHANGED <<file, pin>>

\* Forced although the game rejects the value.
VerdictUnbounded(read) ==
    IF read.kind = "bad" \/ read.frameskip = 0 THEN "leave" ELSE "force"

\* read_verdict: forced only where the game accepts the image.
Verdict(read) ==
    IF read.kind = "bad" \/ read.frameskip = 0 \/ read.frameskip >= Bound
    THEN "leave" ELSE "force"

\* The verdict followed although the system could not name the file.
ForcesUnknown(read, identity) ==
    /\ "read" \in hooks /\ cfg
    /\ read.kind # "old" /\ identity # "other" /\ Verdict(read) = "force"

\* hook_read_file: an image of the right size and magic, identified.
Forces(read, identity) ==
    /\ "read" \in hooks /\ cfg
    /\ read.kind # "old" /\ identity = "cfg" /\ Verdict(read) = "force"

\* force_frameskip: the first image that is forced arms the pin for good.
PinnedBy(read, identity) ==
    IF Forces(read, identity) /\ pin = 0 THEN read.frameskip ELSE pin

HookRead(identity) ==
    /\ phase = "starting" /\ phase' = "loaded"
    /\ identity \in {"cfg", "unknown"}
    /\ image' = IF Forces(file, identity) THEN [file EXCEPT !.frameskip = 0] ELSE file
    /\ pin' = PinnedBy(file, identity)
    /\ UNCHANGED <<file, hooks, cfg>>

\* Another file of the game with the size and the magic of a cfg.
HookReadOther(other, identity) ==
    /\ phase # "off" /\ identity \in {"other", "unknown"}
    /\ pin' = PinnedBy(other, identity)
    /\ UNCHANGED <<file, phase, image, hooks, cfg>>

\* An image whose owner the system cannot name, written as it is.
RestoredKnown(identity) ==
    IF "write" \in hooks /\ cfg /\ pin # 0 /\ identity = "cfg" /\ image.frameskip = 0
    THEN [image EXCEPT !.frameskip = pin] ELSE image

\* hook_write_file and restore_in_place: the image that the real WriteFile
\* gets.  The pin stands in for an identity that the system cannot tell.
Restored(identity) ==
    IF "write" \in hooks /\ cfg /\ pin # 0 /\ identity # "other" /\ image.frameskip = 0
    THEN [image EXCEPT !.frameskip = pin] ELSE image

\* The write may fail, or stop half way.
HookWrite(identity) ==
    /\ phase = "running" /\ phase' = "written"
    /\ identity \in {"cfg", "unknown"}
    /\ file' \in {Restored(identity), file, Torn}
    /\ UNCHANGED <<image, hooks, cfg, pin>>

-----------------------------------------------------------------------------
(* The game and the player                                                 *)

ReadFails ==
    /\ phase = "starting" /\ phase' = "loaded" /\ image' = Torn
    /\ UNCHANGED <<file, hooks, cfg, pin>>

Validate ==
    /\ phase = "loaded" /\ phase' = "running"
    /\ image' = IF Vanilla!Accepts(image) THEN image ELSE Vanilla!Defaults
    /\ UNCHANGED <<file, hooks, cfg, pin>>

SetOption ==
    /\ phase = "running"
    /\ \E v \in Value : image' = [image EXCEPT !.others = v]
    /\ UNCHANGED <<file, phase, hooks, cfg, pin>>

\* The game exits or crashes, and neopatch with it.
End ==
    /\ phase # "off" /\ phase' = "off"
    /\ image' = Vanilla!Defaults /\ hooks' = {} /\ cfg' = FALSE /\ pin' = 0
    /\ UNCHANGED file

CustomExe == file' \in Vanilla!Accepted /\ UNCHANGED <<phase, image, hooks, cfg, pin>>

Next ==
    \/ Install
    \/ \E identity \in Identity :
          \/ HookRead(identity) \/ HookWrite(identity)
          \/ \E other \in Image : HookReadOther(other, identity)
    \/ ReadFails \/ Validate \/ SetOption \/ End \/ CustomExe

Spec == Init /\ [][Next]_vars

-----------------------------------------------------------------------------
(* Properties                                                              *)

\* Seen through the pin, the game behaves as it does without neopatch: the
\* file takes on exactly the values it would have, across failed queries,
\* torn writes, crashes, and the player's changes while the game runs.
BehavesAsVanilla == Vanilla!Spec

\* The pin is never armed beside a copy that holds another value, so that what
\* is put back is what was taken out of that copy.
PinStandsForZero == phase # "off" /\ pin # 0 => cfg /\ "write" \in hooks /\ image.frameskip = 0
=============================================================================
