------------------------------ MODULE VanillaCfg -------------------------------
(***************************************************************************)
(* What a game does with its cfg file when neopatch is not there: it reads *)
(* the file once, takes it over when its validation chain accepts it and   *)
(* falls back to its defaults otherwise, and writes it back when it ends.  *)
(* The player may set the file up with custom.exe at any time, and the     *)
(* game may end without having written.                                    *)
(***************************************************************************)
EXTENDS Integers

CONSTANTS
    Value,     \* values of the other fields
    Preset,    \* their defaults
    Bound      \* the loader accepts a frameskip below this bound

\* The image of a cfg file.  An "old" one lacks the magic or the size of the
\* current version; in a "bad" one, another field fails its check.
Image == [kind : {"good", "bad", "old"}, frameskip : 0..Bound, others : Value]

Accepts(image) == image.kind = "good" /\ image.frameskip < Bound
Accepted == {image \in Image : Accepts(image)}
Defaults == [kind |-> "good", frameskip |-> 0, others |-> Preset]
Torn == [kind |-> "old", frameskip |-> 0, others |-> Preset]

VARIABLES
    file,   \* the cfg file
    phase,  \* of the process: off, starting, loaded, running, written
    image   \* the game's copy

vars == <<file, phase, image>>

Init == file \in Image /\ phase = "off" /\ image = Defaults

Start == phase = "off" /\ phase' = "starting" /\ image' = Defaults /\ UNCHANGED file

Read == phase = "starting" /\ phase' = "loaded" /\ image' = file /\ UNCHANGED file

\* The file is missing, or cannot be read.
ReadFails ==
    phase = "starting" /\ phase' = "loaded" /\ image' = Torn /\ UNCHANGED file

Validate ==
    /\ phase = "loaded" /\ phase' = "running"
    /\ image' = IF Accepts(image) THEN image ELSE Defaults
    /\ UNCHANGED file

\* The player changes an option in the game.
SetOption ==
    /\ phase = "running"
    /\ \E v \in Value : image' = [image EXCEPT !.others = v]
    /\ UNCHANGED <<file, phase>>

Write(written) ==
    phase = "running" /\ phase' = "written" /\ file' = written /\ UNCHANGED image

End == phase # "off" /\ phase' = "off" /\ image' = Defaults /\ UNCHANGED file

CustomExe == file' \in Accepted /\ UNCHANGED <<phase, image>>

Next ==
    \/ Start \/ Read \/ ReadFails \/ Validate \/ SetOption
    \/ \E written \in {image, file, Torn} : Write(written)
    \/ End \/ CustomExe

Spec == Init /\ [][Next]_vars
=============================================================================
