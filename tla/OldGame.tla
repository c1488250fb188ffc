-------------------------------- MODULE OldGame --------------------------------
(***************************************************************************)
(* What the crates of the oldest games have in common (patches.rs and      *)
(* state.rs of th06, th07, th08 and th095): the display settings of the    *)
(* game's cfg are overridden in memory for as long as it runs and given    *)
(* back when the game writes its cfg, the frame loop presents what the     *)
(* newest tick drew, and the keys that fast-forward a replay are read off  *)
(* the game's input.  Each crate has its own copy of this code, modelled   *)
(* by the module of that game in terms of this one; the game itself is     *)
(* external.                                                               *)
(***************************************************************************)
EXTENDS Integers

CONSTANTS
    Skip,     \* values of cfg.frameskip, 0 among them
    AutoAt,   \* AUTO_FOCUS_THRESHOLD
    AutoMax   \* where the game's counter stops

VARIABLES
    game, phase,   \* off, loaded, created, frame, present, restart, exit, written
    mode,          \* CONFIG.display.mode is windowed
    file,          \* the cfg file
    cfg,           \* the game's copy
    pinned,        \* PINNED_CFG: none, or the one record
    device,        \* what the device was created with: none, or the one record
    cached,        \* the format in the game's own present parameters
    changed,       \* an option was changed that needs a new device
    tick, drawn,   \* the newest tick, modulo 2, and the one last drawn
    replay,        \* a stage of a replay is being watched
    counter,       \* the game's auto-focus counter
    observed,      \* OBSERVED_INPUT
    \* history: the player's settings; whether the display mode was changed in
    \* the game; the keys that were down at the last poll
    player, toggled, polled

display == <<mode, file, cfg, pinned, device, cached, changed, player, toggled>>
input == <<replay, counter, observed, polled>>
vars == <<game, phase, display, tick, drawn, input>>

Cfg == [windowed : BOOLEAN, color : {"16", "32", "auto"},
        force16 : BOOLEAN, frameskip : Skip]

Key == {"shoot", "focus"}

-----------------------------------------------------------------------------
(* The cfg                                                                 *)

\* PinnedCfg, of the settings of the player and the mode that is forced.
Pin(c, forced) ==
    [windowed |-> c.windowed, forced |-> forced,
     force16 |-> c.force16, frameskip |-> c.frameskip]

\* Faulty variant: every Direct3DCreate8 pins anew.
PinnedAnew(c, forced) == {Pin(c, forced)}

\* PINNED_CFG.set: the first one stays.
PinnedFirst(c, forced) == IF pinned = {} THEN {Pin(c, forced)} ELSE pinned

Resolved(color) == IF color = "auto" THEN "32" ELSE color

\* apply_display_override, at Direct3DCreate8.
Override ==
    /\ phase = "loaded" /\ phase' = "created"
    /\ pinned' = PinnedFirst(cfg, mode)
    /\ cfg' = [windowed |-> mode, color |-> Resolved(cfg.color),
               force16 |-> FALSE, frameskip |-> 0]
    /\ UNCHANGED <<game, mode, file, device, cached, changed, player, toggled,
                   tick, drawn, input>>

\* Faulty variant: the mode is forced only once.
ReassertedOnce(c) == c

\* The display mode the pin forces, whatever the game has made of it.
Reasserted(c) ==
    IF pinned = {} THEN c
    ELSE [c EXCEPT !.windowed = (CHOOSE p \in pinned : TRUE).forced]

\* The game's InitD3dRendering under the overrides: colours are 32-bit during
\* the call only.  The device may get another back-buffer format than was asked
\* for, which its creation records if it is concrete; reconciles: the game's
\* own copy then follows.
InitRendering(reconciles) ==
    /\ phase \in {"created", "restart"}
    /\ LET c == Reasserted(cfg) IN
        /\ cfg' = c
        /\ \/ /\ phase' = "frame"
              /\ \E got \in {"asked", "substituted", "unrecorded"} :
                    /\ device' = {[windowed |-> c.windowed, format |-> got,
                                   color |-> IF pinned = {} THEN c.color ELSE "32"]}
                    /\ cached' = IF reconciles /\ got # "unrecorded" THEN got ELSE "asked"
           \/ phase' = "exit" /\ device' = {} /\ cached' = "asked"
    /\ changed' = FALSE
    /\ UNCHANGED <<game, mode, file, pinned, player, toggled, tick, drawn, input>>

\* What is left of the overrides is taken back.
Restored(c, p) ==
    [c EXCEPT !.windowed = IF @ = p.forced THEN p.windowed ELSE @,
              !.force16 = @ \/ p.force16,
              !.frameskip = IF @ = 0 THEN p.frameskip ELSE @]

\* cfg_write_hook: restore, then the game's write, which may fail.
WriteCfg ==
    /\ phase = "exit" /\ phase' = "written"
    /\ cfg' = IF pinned = {} THEN cfg ELSE Restored(cfg, CHOOSE p \in pinned : TRUE)
    /\ file' \in {cfg', file}
    /\ UNCHANGED <<game, mode, pinned, device, cached, changed, player, toggled,
                   tick, drawn, input>>

-----------------------------------------------------------------------------
(* Frames                                                                  *)

\* The game's GetInput: with shoot and focus on one button, holding it for a
\* while presses focus as well.
GetInput(down, shared, mask) ==
    /\ shared => "shoot" \in down
    /\ IF shared
       THEN counter' = IF counter < AutoMax THEN counter + 1 ELSE counter
       ELSE counter' \in 0..counter
    /\ mask = IF shared /\ counter' >= AutoAt THEN down \cup {"focus"} ELSE down

\* A poll, the mask of which an observer keeps.
Poll(observer) ==
    \E down, mask \in SUBSET Key, shared \in BOOLEAN :
        /\ GetInput(down, shared, mask)
        /\ polled' = down
        /\ observed' = IF observer THEN mask ELSE observed

NoPoll == UNCHANGED <<counter, polled, observed>>

\* How the calc chain can end, and where the frame goes from there.
After(result) ==
    CASE result = "exit" -> "exit" [] result = "restart" -> "restart" [] OTHER -> "present"

\* One pass of the frame loop: the calc chain, and what it draws.
Frame(observer, draw(_)) ==
    /\ phase = "frame"
    /\ \E result \in {"run", "exit", "restart"} :
        /\ changed => result # "run"
        /\ phase' = After(result)
        /\ tick' = 1 - tick
        /\ drawn' = draw(result)
    /\ Poll(observer) \/ NoPoll
    /\ UNCHANGED <<game, display, replay>>

\* Faulty variant: the draw block stays before the calc chain.
DrawBefore(result) == tick

\* draw_frame, after the calc chain.
DrawAfter(result) == IF result = "run" /\ device # {} THEN 1 - tick ELSE drawn

\* Faulty variant: the focus of the mask as it is.
HeldKeysRaw == observed

\* replay_keys, while a stage of a replay is on: without the focus the game
\* itself adds to shoot.
HeldKeys ==
    IF "shoot" \in observed /\ counter >= AutoAt THEN observed \ {"focus"} ELSE observed

-----------------------------------------------------------------------------
(* The game and the player                                                 *)

\* A process starts with the cfg it reads and with everything else anew.
Launch ==
    /\ phase = "off" /\ phase' = "loaded"
    /\ game' \in {"th06", "th07", "th08", "th095"}
    /\ mode' \in BOOLEAN
    /\ cfg' = file /\ player' = file
    /\ UNCHANGED <<file, pinned, device, cached, changed, toggled, tick, drawn, input>>

\* What the end of the process leaves of its memory.
Gone ==
    /\ pinned' = {} /\ device' = {} /\ cached' = "asked"
    /\ changed' = FALSE /\ toggled' = FALSE /\ tick' = 0 /\ drawn' = 0
    /\ replay' = FALSE /\ counter' = 0 /\ observed' = {} /\ polled' = {}

\* Another device may be created from the start, by Direct3DCreate8.
CreateAgain ==
    /\ phase = "restart" /\ phase' = "loaded"
    /\ UNCHANGED <<game, display, tick, drawn, input>>

Present ==
    /\ phase = "present" /\ phase' = "frame"
    /\ UNCHANGED <<game, display, tick, drawn, input>>

SetOption ==
    /\ phase = "frame" /\ ~changed
    /\ changed' = TRUE
    /\ \/ /\ cfg' = [cfg EXCEPT !.windowed = ~@]
          /\ toggled' = TRUE /\ player' = player
       \/ \E c \in {"16", "32"} :
            /\ cfg' = [cfg EXCEPT !.color = c]
            /\ player' = [player EXCEPT !.color = c] /\ toggled' = toggled
    /\ UNCHANGED <<game, phase, mode, file, pinned, device, cached, tick, drawn, input>>

ReplayStage ==
    /\ phase = "frame" /\ replay' = ~replay
    /\ UNCHANGED <<game, phase, display, tick, drawn, counter, observed, polled>>

\* The process ends, after it wrote its cfg or at any time.
End ==
    /\ phase # "off" /\ phase' = "off"
    /\ Gone
    /\ UNCHANGED <<game, mode, file, cfg, player>>

CustomExe ==
    /\ phase = "off" /\ file' \in Cfg
    /\ UNCHANGED <<game, phase, mode, cfg, pinned, device, cached, changed, player,
                   toggled, tick, drawn, input>>

External ==
    Launch \/ CreateAgain \/ Present \/ SetOption \/ ReplayStage \/ End \/ CustomExe

Init ==
    /\ game = "th06" /\ phase = "off" /\ mode = FALSE
    /\ file \in Cfg /\ cfg = file /\ player = file
    /\ pinned = {} /\ device = {} /\ cached = "asked" /\ changed = FALSE
    /\ tick = 0 /\ drawn = 0
    /\ replay = FALSE /\ counter = 0 /\ observed = {} /\ polled = {} /\ toggled = FALSE
=============================================================================
