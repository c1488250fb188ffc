-------------------------------- MODULE OldGames -------------------------------
(***************************************************************************)
(* The oldest games, each with its crate: one is launched at a time.       *)
(***************************************************************************)
EXTENDS OldGame

Six == INSTANCE Th06
Seven == INSTANCE Th07
Eight == INSTANCE Th08
NineHalf == INSTANCE Th095

Next == External \/ Six!Next \/ Seven!Next \/ Eight!Next \/ NineHalf!Next

Spec == Init /\ [][Next]_vars

-----------------------------------------------------------------------------
(* Properties                                                              *)

\* The player's settings survive the overrides (cfg_write_hook): what the game
\* writes has the frameskip and the 16-bit flag it was started with, the last
\* colour depth that was chosen, and the display mode it was started with
\* unless that was changed in the game.
WritesPlayersCfg ==
    [][phase = "exit" /\ file' # file =>
        /\ file'.frameskip = player.frameskip
        /\ file'.force16 = player.force16
        /\ file'.color = Resolved(player.color)
        /\ file'.windowed = player.windowed \/ toggled]_vars

\* Every device, the first and those after a change of options, is created in
\* the configured mode with 32-bit colours, and th06 knows its format
\* (init_d3d_rendering_hook).
DeviceAsConfigured ==
    \A d \in device :
        /\ d.windowed = mode /\ d.color = "32"
        /\ game = "th06" /\ d.format # "unrecorded" => cached = d.format

\* What is about to be presented was drawn from the newest tick
\* (calc_then_draw_hook): no frame trails the input by a tick.
FreshFrame == phase = "present" => drawn = tick

\* The replay keys (replay_keys) are keys the player held at the last poll, not
\* the focus that the game adds to a held shoot button.
KeysArePressed ==
    Six!ReplayKeys \cup Seven!ReplayKeys \cup Eight!ReplayKeys \subseteq polled
=============================================================================
