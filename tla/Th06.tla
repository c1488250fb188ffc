---------------------------------- MODULE Th06 ---------------------------------
(***************************************************************************)
(* The crate of th06: its frame loop is restructured, and the format the   *)
(* game keeps of its back buffer follows the device.  The speed factors    *)
(* the hook writes before every calc chain are left out.                   *)
(***************************************************************************)
EXTENDS OldGame

Playing == game = "th06"

ApplyDisplayOverride == Playing /\ Override

\* InitD3dRendering, then reconcile_cached_back_buffer_format.
InitD3dRenderingHook == Playing /\ InitRendering(TRUE)

CfgWriteHook == Playing /\ WriteCfg

\* The draw block, behind calc; nothing is drawn when the game is to end, or
\* without a device.
DrawFrame(result) == DrawAfter(result)

\* Render at a focused window: the calc chain polls through the observer.  At
\* an inactive one the gate sleeps and Render does nothing.
CalcThenDraw == Playing /\ Frame(TRUE, DrawFrame)

ReplayKeys == IF replay THEN HeldKeys ELSE {}

Next == ApplyDisplayOverride \/ InitD3dRenderingHook \/ CfgWriteHook \/ CalcThenDraw
=============================================================================
