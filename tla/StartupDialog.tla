------------------------------ MODULE StartupDialog ------------------------------
(***************************************************************************)
(* The startup dialog of th10 and later, which neopatch answers in the     *)
(* player's place: neopatch.ini is read (config.rs), the window policy is  *)
(* derived from it (window.rs), and when the game comes to its dialog the  *)
(* hook of its crate (dialog_dismiss.rs) answers with the configured mode. *)
(*                                                                         *)
(* Three shapes of dialog: a modal box whose hook never shows it, a        *)
(* modeless dialog that is created hidden and sent its OK button, and a    *)
(* dispatcher that is replaced.  The patches of DIALOG_PATCHES force the   *)
(* gate before each of them open, so every start comes to the hook.  What  *)
(* the game remembers of its last start must not show through in any.      *)
(***************************************************************************)
EXTENDS Integers, Sequences

CONSTANT MaxLines   \* bound on the lines of neopatch.ini

BoxTitle == {"th10", "th11", "th12", "th125", "th128", "th13"}
ModelessTitle == {"th14", "th15", "th16", "th17"}
DispatchTitle == {"th18", "th20"}
Title == BoxTitle \cup ModelessTitle \cup DispatchTitle

DisplayMode == {"Windowed", "Fullscreen"}
DisplayModeExt == DisplayMode \cup {"Borderless"}
Resolution == {"640x480", "960x720", "1280x960"}

VARIABLES
    title,   \* the game
    lines,   \* neopatch.ini
    config,  \* CONFIG and the game's own: mode, display_mode, resolution
    policy,  \* what the window hook was given
    stage,   \* start, asks, answered, hidden, failed, game
    memory,  \* what the game reads when the dialog has ended: the mode byte or
             \* the state of the fullscreen box, the size and scale indices,
             \* flags, what a modal box returned, and whether OK is on its way
    excused, \* the dialog was not the game's own, or a call on it failed
    runs     \* what the game starts as

vars == <<title, lines, config, policy, stage, memory, excused, runs>>

-----------------------------------------------------------------------------
(* neopatch.ini                                                            *)

\* A line: the header of a section or a broken one, or a setting with a value
\* that names something or is not readable ("?").
Line ==
    [kind : {"header"}, text : {"display", "log", "broken"}]
    \cup [kind : {"mode"}, text : DisplayModeExt \cup {"?"}]
    \cup [kind : {"resolution"}, text : Resolution \cup {"?"}]

Default == [section |-> "", mode |-> "Windowed",
            display_mode |-> "Windowed", resolution |-> "1280x960"]

\* to_core: borderless is fullscreen to everything but the game.
ToCore(m) == IF m = "Borderless" THEN "Fullscreen" ELSE m

\* Faulty variant: a value that is not readable brings the default back.
ApplyOrDefault(t, c, l) ==
    CASE l.kind = "resolution" /\ t \notin BoxTitle ->
            [c EXCEPT !.resolution = IF l.text = "?" THEN Default.resolution ELSE l.text]
      [] l.kind = "mode" /\ t \in DispatchTitle ->
            [c EXCEPT !.display_mode = IF l.text = "?" THEN "Windowed" ELSE l.text]
      [] l.kind = "mode" /\ t \notin DispatchTitle ->
            [c EXCEPT !.mode = IF l.text \in DisplayMode THEN l.text ELSE "Windowed"]
      [] OTHER -> c

\* apply_display, which knows no borderless mode.
ApplyDisplay(c, l) ==
    IF l.kind = "mode" /\ l.text \in DisplayMode THEN [c EXCEPT !.mode = l.text] ELSE c

\* A setting of [display], as far as the game's crate knows it; a value that
\* is not readable changes nothing.
Apply(t, c, l) ==
    CASE l.kind = "resolution" /\ t \notin BoxTitle /\ l.text \in Resolution ->
            [c EXCEPT !.resolution = l.text]
      [] l.kind = "mode" /\ t \in DispatchTitle /\ l.text \in DisplayModeExt ->
            [c EXCEPT !.display_mode = l.text]
      [] l.kind = "mode" /\ t \notin DispatchTitle -> ApplyDisplay(c, l)
      [] OTHER -> c

\* for_each_setting: a broken header leaves the section as it was.
ReadLine(t, c, l) ==
    CASE l.kind = "header" /\ l.text # "broken" -> [c EXCEPT !.section = l.text]
      [] l.kind # "header" /\ c.section = "display" -> Apply(t, c, l)
      [] OTHER -> c

\* What is known after each line.
ReadLines(t, ls) ==
    LET c[n \in 0..Len(ls)] == IF n = 0 THEN Default ELSE ReadLine(t, c[n - 1], ls[n])
    IN  c

\* Faulty variant: the core keeps its own default beside the game's mode.
ParseApart(t, ls) == ReadLines(t, ls)[Len(ls)]

Parse(t, ls) ==
    LET c == ReadLines(t, ls)[Len(ls)]
    IN  IF t \in DispatchTitle THEN [c EXCEPT !.mode = ToCore(c.display_mode)] ELSE c

\* The policy of lib.rs, and window_policy: a borderless game is left to itself.
WindowPolicy(t, c) ==
    IF t \in DispatchTitle /\ c.display_mode = "Borderless" THEN [defer |-> TRUE]
    ELSE [defer |-> FALSE, display_mode |-> c.mode,
          framebuffer |-> IF t \in BoxTitle THEN "640x480" ELSE c.resolution]

-----------------------------------------------------------------------------
(* The start of a game                                                     *)

NotYet == [mode |-> "none"]

\* What the game remembers of its last start may be anything.
Init ==
    /\ title \in Title
    /\ lines \in UNION {[1..n -> Line] : n \in 0..MaxLines}
    /\ config = Default /\ policy = NotYet /\ stage = "start"
    /\ memory \in [byte : {0, 1}, radio : {0, 2, 8}, scale : {0, 5}, ret : {0},
                   flags : {{"dialog", "other"}}, posted : {FALSE}]
    /\ title \in BoxTitle => memory.radio = 0
    /\ title \in DispatchTitle => memory.byte = 0
    /\ title \notin DispatchTitle => memory.radio # 8 /\ memory.scale = 0
    /\ excused = FALSE /\ runs = NotYet

\* install_hooks: the configuration, then the window policy.
InstallHooks ==
    /\ stage = "start" /\ stage' = "asks"
    /\ config' = Parse(title, lines)
    /\ policy' = WindowPolicy(title, config')
    /\ UNCHANGED <<title, lines, memory, excused, runs>>

-----------------------------------------------------------------------------
(* The modal box of th10 to th13                                           *)

OK == 6

\* The hook returns at once, having left m for the game.
Answer(t, m) ==
    /\ stage = "asks" /\ title = t
    /\ stage' = "answered" /\ memory' = m
    /\ UNCHANGED <<title, lines, config, policy, excused, runs>>

ModeByte == IF config.mode = "Windowed" THEN 1 ELSE 0

\* th10 takes the mode from the button; the dialogs of th11 and th12 leave it
\* in a byte; those of th125, th128 and th13 also clear launch flags.
Dismiss10 ==
    Answer("th10", [memory EXCEPT !.ret = IF config.mode = "Windowed" THEN 7 ELSE 6])

AnswerWithByte(t) == Answer(t, [memory EXCEPT !.byte = ModeByte, !.ret = OK])

Dismiss11 == AnswerWithByte("th11")

Dismiss12 == AnswerWithByte("th12")

\* Faulty variant: the launch flags are left to the game.
AnswerKeepingFlags(t) ==
    Answer(t, [memory EXCEPT !.byte = ModeByte, !.ret = OK])

AnswerWithFlags(t) ==
    Answer(t, [memory EXCEPT !.byte = ModeByte, !.ret = OK,
                             !.flags = @ \ {"dialog"}])

Dismiss125 == AnswerWithFlags("th125")

Dismiss128 == AnswerWithFlags("th128")

Dismiss13 == AnswerWithFlags("th13")

\* Another tool's dialog at the same call goes to the real function, and is
\* the player's to answer.
PassBox ==
    /\ stage = "asks" /\ title \in BoxTitle
    /\ stage' = "answered" /\ excused' = TRUE
    /\ \E b \in {0, 1} :
        memory' = [memory EXCEPT !.byte = b, !.ret = OK + b, !.flags = @ \ {"dialog"}]
    /\ UNCHANGED <<title, lines, config, policy, runs>>

-----------------------------------------------------------------------------
(* The modeless dialog of th14 to th17                                     *)

Index == [r \in Resolution |->
            CASE r = "640x480" -> 0 [] r = "960x720" -> 1 [] OTHER -> 2]

\* Faulty variant: the fullscreen box is checked but never unchecked.
ControlsSet(radio_ok, check_ok) ==
    [memory EXCEPT
        !.radio = IF radio_ok THEN Index[config.resolution] ELSE @,
        !.byte = IF check_ok /\ config.mode = "Fullscreen" THEN 1 ELSE @]

\* CheckRadioButton and CheckDlgButton
Controls(radio_ok, check_ok) ==
    [memory EXCEPT
        !.radio = IF radio_ok THEN Index[config.resolution] ELSE @,
        !.byte = IF check_ok THEN IF config.mode = "Fullscreen" THEN 1 ELSE 0 ELSE @]

\* The dialog is created by the real function and never shown; when it is the
\* game's own, its controls are set, flag is set and OK is posted to it.  Any
\* of the three calls may fail.
Created(t, flag) ==
    /\ stage = "asks" /\ title = t
    /\ stage' = "hidden"
    /\ \E radio_ok, check_ok, post_ok \in BOOLEAN :
        /\ memory' = [Controls(radio_ok, check_ok) EXCEPT
                        !.flags = @ \cup flag, !.posted = post_ok]
        /\ excused' = ~(radio_ok /\ check_ok /\ post_ok)
    /\ UNCHANGED <<title, lines, config, policy, runs>>

Dismiss14 == Created("th14", {"exit"})

Dismiss15 == Created("th15", {"exit"})

Dismiss16 == Created("th16", {})

Dismiss17 == Created("th17", {})

\* No dialog came to be, or another than the game's own, which is hidden too.
NotCreated ==
    /\ stage = "asks" /\ title \in ModelessTitle
    /\ stage' \in {"failed", "hidden"} /\ excused' = TRUE
    /\ UNCHANGED <<title, lines, config, policy, memory, runs>>

-----------------------------------------------------------------------------
(* The dispatcher of th18 and th20                                         *)

RadioIndex(r, m) ==
    CASE m = "Fullscreen" -> Index[r]
      [] m = "Windowed" -> Index[r] + 3
      [] OTHER -> 8

\* Faulty variant: the scale is the button's index.
ScaleOfButton(r, m) == RadioIndex(r, m)

ScaleIndex(r, m) ==
    LET i == RadioIndex(r, m)
    IN  IF i <= 2 THEN i ELSE IF i <= 5 THEN i - 3 ELSE 5

\* dialog_short_circuit
ShortCircuit(t) ==
    Answer(t, [memory EXCEPT
        !.radio = RadioIndex(config.resolution, config.display_mode),
        !.scale = ScaleIndex(config.resolution, config.display_mode),
        !.flags = @ \ {"dialog"}])

Dismiss18 == ShortCircuit("th18")

Dismiss20 == ShortCircuit("th20")

-----------------------------------------------------------------------------
(* The game                                                                *)

\* The sizes and scales of the game's tables, and the mode of a button.
SizeAt == [i \in 0..8 |->
    CASE i \in {0, 3} -> "640x480" [] i \in {1, 4} -> "960x720"
      [] i \in {2, 5} -> "1280x960" [] OTHER -> "desktop"]
ScaleAt == [i \in 0..8 |-> IF i \in 0..2 THEN SizeAt[i]
                           ELSE IF i = 5 THEN "desktop" ELSE "none"]
ModeAt == [i \in 0..8 |-> IF i <= 2 THEN "Fullscreen"
                          ELSE IF i <= 5 THEN "Windowed" ELSE "Borderless"]

Outcome ==
    CASE title = "th10" ->
            [mode |-> IF memory.ret = 7 THEN "Windowed" ELSE "Fullscreen",
             resolution |-> "640x480", scaled |-> "640x480"]
      [] title \in BoxTitle \ {"th10"} ->
            [mode |-> IF memory.byte = 1 THEN "Windowed" ELSE "Fullscreen",
             resolution |-> "640x480", scaled |-> "640x480"]
      [] title \in ModelessTitle ->
            [mode |-> IF memory.byte = 1 THEN "Fullscreen" ELSE "Windowed",
             resolution |-> SizeAt[memory.radio], scaled |-> SizeAt[memory.radio]]
      [] OTHER ->
            [mode |-> ModeAt[memory.radio],
             resolution |-> SizeAt[memory.radio], scaled |-> ScaleAt[memory.scale]]

\* The game leaves its dialog when OK has come to it and the flags allow it:
\* they are taken to be what the hooks treat them as.
CanStart ==
    /\ stage = "answered" \/ (stage = "hidden" /\ memory.posted)
    /\ title \notin {"th10", "th11", "th12"} \cup ModelessTitle =>
        "dialog" \notin memory.flags
    /\ title \in {"th14", "th15"} => "exit" \in memory.flags

StartGame ==
    /\ CanStart
    /\ stage' = "game" /\ runs' = Outcome
    /\ UNCHANGED <<title, lines, config, policy, memory, excused>>

\* The process ends, by itself or by the player; the game is started again.
End ==
    /\ stage \in {"game", "hidden", "failed"}
    /\ stage' = "start" /\ config' = Default /\ policy' = NotYet
    /\ memory' = [memory EXCEPT !.ret = 0, !.flags = {"dialog", "other"}, !.posted = FALSE]
    /\ excused' = FALSE /\ runs' = NotYet
    /\ UNCHANGED <<title, lines>>

Dismiss ==
    \/ Dismiss10 \/ Dismiss11 \/ Dismiss12 \/ Dismiss125 \/ Dismiss128 \/ Dismiss13
    \/ Dismiss14 \/ Dismiss15 \/ Dismiss16 \/ Dismiss17
    \/ Dismiss18 \/ Dismiss20

Next ==
    \/ InstallHooks \/ Dismiss \/ PassBox \/ NotCreated
    \/ StartGame \/ End

Spec == Init /\ [][Next]_vars

-----------------------------------------------------------------------------
(* Properties                                                              *)

\* What the file says of a setting: the last value in [display] that the
\* game's crate can read.
Section(i) ==
    LET heads == {j \in 1..i : lines[j].kind = "header" /\ lines[j].text # "broken"}
    IN  IF heads = {} THEN "" ELSE lines[CHOOSE j \in heads : \A k \in heads : k <= j].text

Said(kind, readable, default) ==
    LET at == {i \in DOMAIN lines :
                lines[i].kind = kind /\ lines[i].text \in readable /\ Section(i) = "display"}
    IN  IF at = {} THEN default ELSE lines[CHOOSE i \in at : \A k \in at : k <= i].text

WantedMode ==
    Said("mode", IF title \in DispatchTitle THEN DisplayModeExt ELSE DisplayMode, "Windowed")
WantedResolution ==
    IF title \in BoxTitle THEN "640x480"
    ELSE IF WantedMode = "Borderless" THEN "desktop"
    ELSE Said("resolution", Resolution, "1280x960")

\* The game starts in the mode and size that neopatch.ini asks for, whatever
\* else the file says and whatever the game remembers of its last start
\* (dialog_dismiss.rs).
GameAsConfigured ==
    /\ runs.mode = WantedMode
    /\ runs.resolution = WantedResolution /\ runs.scaled = WantedResolution
    /\ "other" \in memory.flags

\* What the window hook and the device ladder were told is what the game does:
\* a window of the game's own size in the game's own mode, or none of theirs
\* to style (window_policy, ResolutionConfigExt::parse).
WindowMatchesGame ==
    /\ config.mode = ToCore(runs.mode)
    /\ IF runs.mode = "Borderless" THEN policy.defer
       ELSE policy = [defer |-> FALSE, display_mode |-> runs.mode,
                      framebuffer |-> runs.resolution]

\* The game, and neopatch beside it, start as the file says, unless the dialog
\* was another's or a call on it failed (dialog_dismiss.rs, config.rs).
StartsAsConfigured ==
    stage = "game" /\ ~excused => GameAsConfigured /\ WindowMatchesGame

\* A dialog that the player never gets to see does not keep the game waiting
\* (hook_create_dialog_param_a, dialog_short_circuit).
NeverWaits == stage \in {"answered", "hidden"} => excused \/ CanStart
=================================================================================
