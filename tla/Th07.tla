---------------------------------- MODULE Th07 ---------------------------------
(***************************************************************************)
(* The crate of th07: as th06, without a copy of the format to follow.     *)
(* The texture batch and the fog of the draw block are left out.           *)
(***************************************************************************)
EXTENDS OldGame

Playing == game = "th07"

ApplyDisplayOverride == Playing /\ Override

InitD3dRenderingHook == Playing /\ InitRendering(FALSE)

CfgWriteHook == Playing /\ WriteCfg

\* The draw block, behind calc, with a device and a texture manager, which the
\* game creates together.
DrawFrame(result) == DrawAfter(result)

\* Update at a focused window; both calls of GetInput, of live play and of a
\* replay, go through the observer.
CalcThenDraw == Playing /\ Frame(TRUE, DrawFrame)

ReplayKeys == IF replay THEN HeldKeys ELSE {}

Next == ApplyDisplayOverride \/ InitD3dRenderingHook \/ CfgWriteHook \/ CalcThenDraw
=============================================================================
