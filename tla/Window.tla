------------------------------- MODULE Window -------------------------------
(***************************************************************************)
(* The game's render window (window.rs).  The hook on CreateWindowEx gives *)
(* it the configured frame, band, place and title as it is created.  A     *)
(* window that another tool kept from the hook is found again when the     *)
(* game creates a device on it, and gets the same policy then; a frame is  *)
(* changed on an unmapped window only, so the window is hidden for it and  *)
(* mapped again when the creation of the device has ended.                 *)
(*                                                                         *)
(* Handles are recycled.  What was done to a window is remembered by its   *)
(* handle (AppliedTo), for the last window only.                           *)
(***************************************************************************)
EXTENDS Integers

CONSTANTS
    Hwnd,       \* window handles
    NoWindow,   \* the null handle
    Policy      \* the resolved configurations to consider (enum State)

ASSUME HwndAssumption == NoWindow \notin Hwnd

(* Window styles.  BOXES stands for the system menu and the two boxes, CLIP *)
(* for what the system maintains itself.                                    *)
Bits == {"POPUP", "CAPTION", "BOXES", "THICK", "VISIBLE", "CLIP", "CHILD"}
Overlapped == {"CAPTION", "BOXES", "THICK"}
FrameStyle == [framed |-> {"CAPTION", "BOXES", "VISIBLE"},
               frameless |-> {"POPUP", "BOXES", "VISIBLE"},
               borderless |-> {"POPUP", "VISIBLE"}]

\* POLICY_STYLE_MASK without the border that a player could resize.
MaskWithoutBorder == (UNION {FrameStyle[f] : f \in DOMAIN FrameStyle}) \ {"VISIBLE"}

Mask == ((UNION {FrameStyle[f] : f \in DOMAIN FrameStyle}) \cup {"THICK"}) \ {"VISIBLE"}

\* Style, band and geometry: of a window, or as asked of CreateWindowEx.
\* "cfg" is what the configuration says, "default" CW_USEDEFAULT.
Look == [style : SUBSET Bits, topmost : BOOLEAN,
         place : {"cfg", "other", "default"}, size : {"cfg", "other"}]
NoLook == [style |-> {}, topmost |-> FALSE, place |-> "other", size |-> "other"]

\* What the game asks for: with or without a frame, shown at once or not, and
\* children of its window.
GameStyle == {Overlapped, Overlapped \cup {"VISIBLE"}, {"POPUP"}, {"POPUP", "VISIBLE"}}
GameLook == [style : GameStyle, topmost : {FALSE}, place : {"other"}, size : {"other"}]
Child == [NoLook EXCEPT !.style = {"CHILD", "VISIBLE"}]

PolicyType == [defer : BOOLEAN, frame : DOMAIN FrameStyle, on_top : BOOLEAN,
               placed : BOOLEAN]
ASSUME PolicyAssumption == Policy \subseteq PolicyType

VARIABLES
    policy,     \* STATE
    alive,      \* windows that exist
    look,       \* their style, band and geometry
    suffixes,   \* how often their title carries our suffix
    main,       \* MAIN_HWND
    styled,     \* STYLED_WINDOW
    titled,     \* TITLED_WINDOW
    bound,      \* whether the game's import leads to our hook
    creating,   \* the game is inside CreateDevice
    device,     \* DeviceWindow: hwnd and hidden_for_restyle
    mapped,     \* windows that the game, or a device on them, put on screen
    popups,     \* history: windows that the game made popups, as for fullscreen,
                \* to tell them from those that a frame of ours made popups
    exempt      \* windows the policy is not answerable for: the game changed
                \* them, SetWindowPos refused or GetWindowRect failed and the
                \* log says so, or their handle was claimed for a window
                \* before them

claims == <<main, styled, titled>>
winVars == <<policy, alive, look, suffixes, main, styled, titled, bound,
             creating, device, mapped, popups, exempt>>

NoDevice == [hwnd |-> NoWindow, hidden |-> FALSE]

WindowTypeOK ==
    /\ policy \in PolicyType
    /\ alive \subseteq Hwnd
    /\ look \in [Hwnd -> Look] /\ suffixes \in [Hwnd -> Nat]
    /\ {main, styled, titled} \subseteq Hwnd \cup {NoWindow}
    /\ bound \in BOOLEAN /\ creating \in BOOLEAN
    /\ device \in [hwnd : Hwnd \cup {NoWindow}, hidden : BOOLEAN]
    /\ mapped \subseteq Hwnd /\ popups \subseteq Hwnd /\ exempt \subseteq Hwnd

WindowInit ==
    /\ policy \in Policy
    /\ alive = {} /\ look = [h \in Hwnd |-> NoLook]
    /\ suffixes = [h \in Hwnd |-> 0]
    /\ main = NoWindow /\ styled = NoWindow /\ titled = NoWindow
    /\ bound = TRUE /\ creating = FALSE /\ device = NoDevice
    /\ mapped = {} /\ popups = {} /\ exempt = {}

Visible(h) == "VISIBLE" \in look[h].style
TopLevel(h) == h \in alive /\ "CHILD" \notin look[h].style

-----------------------------------------------------------------------------
(* The policy                                                              *)

\* prep_main_window
Prep(req) ==
    IF ~policy.defer /\ "POPUP" \notin req.style
    THEN [style |-> FrameStyle[policy.frame], topmost |-> policy.on_top,
          place |-> IF policy.placed THEN "cfg" ELSE "default", size |-> "cfg"]
    ELSE [req EXCEPT !.topmost = @ \/ policy.on_top]

\* What the system makes of the arguments of CreateWindowEx.
Made(args) ==
    [args EXCEPT !.style = @ \cup {"CLIP"},
                 !.place = IF @ = "default" THEN "other" ELSE @]

\* restyle_plan: the look of a live window under the policy.
Planned(live) ==
    LET args == Prep(live) IN
    [style |-> (live.style \ Mask) \cup (args.style \cap Mask),
     topmost |-> args.topmost,
     place |-> IF args.place = "default" THEN live.place ELSE args.place,
     size |-> args.size]

Satisfied(live) == Planned(live) = live

-----------------------------------------------------------------------------
(* The game and other tools                                                *)

\* CreateWindowEx of the render window through our hook, which claims it; the
\* title may turn out unreadable.
CreateHooked(h, req, readable) ==
    /\ bound
    /\ look' = [look EXCEPT ![h] = Made(Prep(req))]
    /\ suffixes' = [suffixes EXCEPT ![h] = IF readable THEN 1 ELSE 0]
    /\ main' = h /\ styled' = h
    /\ titled' = IF readable THEN h ELSE titled
    /\ exempt' = exempt \ {h}

\* The same past our hook.
CreateUnhooked(h, req) ==
    /\ ~bound
    /\ look' = [look EXCEPT ![h] = Made(req)]
    /\ suffixes' = [suffixes EXCEPT ![h] = 0]
    /\ exempt' = IF styled = h THEN exempt \cup {h} ELSE exempt \ {h}
    /\ UNCHANGED claims

\* Whether h is on screen is up to the style that it gets now.
Mapped(h) == IF Visible(h)' THEN mapped \cup {h} ELSE mapped \ {h}

\* Whether h is a popup of the game's own is up to the style it asks for.
MadePopup(h, style) == IF "POPUP" \in style THEN popups \cup {h} ELSE popups \ {h}

\* The game has one render window at a time.
CreateMain(h, req) ==
    /\ ~creating /\ h \notin alive /\ ~\E g \in alive : TopLevel(g)
    /\ CreateUnhooked(h, req) \/ \E readable \in BOOLEAN : CreateHooked(h, req, readable)
    /\ alive' = alive \cup {h} /\ mapped' = Mapped(h)
    /\ popups' = MadePopup(h, req.style)
    /\ UNCHANGED <<policy, bound, creating, device>>

\* A window with a parent, which the hook lets pass.
CreateChild(h) ==
    /\ ~creating /\ h \notin alive /\ \E g \in alive : TopLevel(g)
    /\ alive' = alive \cup {h} /\ mapped' = mapped \cup {h}
    /\ look' = [look EXCEPT ![h] = Made(Child)]
    /\ suffixes' = [suffixes EXCEPT ![h] = 0]
    /\ UNCHANGED <<policy, claims, bound, creating, device, popups, exempt>>

\* A window takes its children with it.
Destroy(h) ==
    /\ h \in alive /\ ~creating
    /\ alive' = IF TopLevel(h) THEN {} ELSE alive \ {h}
    /\ look' = [g \in Hwnd |-> IF g \in alive' THEN look[g] ELSE NoLook]
    /\ suffixes' = [g \in Hwnd |-> IF g \in alive' THEN suffixes[g] ELSE 0]
    /\ mapped' = mapped \cap alive' /\ popups' = popups \cap alive'
    /\ exempt' = exempt \cap alive'
    /\ UNCHANGED <<policy, claims, bound, creating, device>>

\* The game changes its window itself, also from its window procedure while
\* the device is created; it does not hide what it had shown meanwhile.
GameRestyles(h, style) ==
    /\ TopLevel(h)
    /\ creating => ("VISIBLE" \in style <=> Visible(h))
    /\ look' = [look EXCEPT ![h].style = style \cup {"CLIP"}, ![h].size = "other"]
    /\ exempt' = exempt \cup {h} /\ popups' = MadePopup(h, style)
    /\ mapped' = IF creating THEN mapped ELSE Mapped(h)
    /\ UNCHANGED <<policy, alive, suffixes, claims, bound, creating, device>>

\* Another tool takes over the import, or gives it back.
Rebind ==
    /\ bound' = ~bound
    /\ UNCHANGED <<policy, alive, look, suffixes, claims, creating, device, mapped,
                   popups, exempt>>

-----------------------------------------------------------------------------
(* restyle_device_window                                                   *)

\* MAIN_HWND follows when the window it names is gone.
Record(h) == main' = IF main = NoWindow \/ main \notin alive THEN h ELSE main

\* suffix_device_window_title
Suffix(h) ==
    IF titled = h THEN UNCHANGED <<suffixes, titled>>
    ELSE \E readable \in BOOLEAN :
            /\ suffixes' = IF readable THEN [suffixes EXCEPT ![h] = @ + 1] ELSE suffixes
            /\ titled' = h

\* A frame change hides a visible window; SetWindowLong keeps it hidden.
Hides(h) == Planned(look[h]).style # look[h].style /\ Visible(h)

\* apply_window_policy: the style is set for certain, the band and the
\* geometry if SetWindowPos takes them.
Restyled(h, ok) ==
    LET plan == Planned(look[h])
        style == IF Hides(h) THEN plan.style \ {"VISIBLE"} ELSE plan.style
    IN  IF ok THEN [plan EXCEPT !.style = style] ELSE [look[h] EXCEPT !.style = style]

Restyle(h) ==
    IF styled = h
    THEN UNCHANGED <<look, styled, exempt>> /\ device' = [hwnd |-> h, hidden |-> FALSE]
    ELSE \/ \E ok \in BOOLEAN :
               /\ ok \/ ~Satisfied(look[h])
               /\ look' = [look EXCEPT ![h] = Restyled(h, ok)]
               /\ styled' = h
               /\ exempt' = IF ok THEN exempt \ {h} ELSE exempt \cup {h}
               /\ device' = [hwnd |-> h, hidden |-> Hides(h)]
         \* rect_unreadable: neither touched nor claimed
         \/ /\ UNCHANGED <<look, styled>> /\ exempt' = exempt \cup {h}
            /\ device' = [hwnd |-> h, hidden |-> FALSE]

\* A null handle, a dead one and a child are left alone.
RestyleDeviceWindow(h) ==
    /\ ~creating /\ creating' = TRUE
    /\ IF TopLevel(h) THEN Record(h) /\ Suffix(h) /\ Restyle(h)
       ELSE /\ device' = [hwnd |-> h, hidden |-> FALSE]
            /\ UNCHANGED <<look, suffixes, claims, exempt>>
    /\ UNCHANGED <<policy, alive, bound, mapped, popups>>

-----------------------------------------------------------------------------
(* DeviceWindow                                                            *)

Show ==
    look' = [h \in Hwnd |->
                IF h = device.hwnd /\ h \in alive
                THEN [look[h] EXCEPT !.style = @ \cup {"VISIBLE"}] ELSE look[h]]

\* restore, faulty: as after a success.
RestoreShowing == Show

\* restore: after a failure only what was hidden for the restyle is shown.
Restore == IF device.hidden THEN Show ELSE UNCHANGED look

\* hook_create_device ends: reveal after a success.
EndCreation(ok) ==
    /\ creating /\ creating' = FALSE
    /\ IF ok THEN Show ELSE Restore
    /\ mapped' = IF ok THEN mapped \cup ({device.hwnd} \cap Hwnd) ELSE mapped
    /\ device' = NoDevice
    /\ UNCHANGED <<policy, alive, suffixes, claims, bound, popups, exempt>>

\* What the game and other tools do between the calls that reach a device.
WindowOthers ==
    \/ \E h \in Hwnd : Destroy(h) \/ CreateChild(h)
    \/ \E h \in Hwnd, req \in GameLook : CreateMain(h, req)
    \/ \E h \in Hwnd, style \in GameStyle : GameRestyles(h, style)
    \/ Rebind
=============================================================================
