---------------------------------- MODULE Th095 --------------------------------
(***************************************************************************)
(* The crate of th095: the overrides alone.  The keys of its replays are   *)
(* read by a layout (replay.rs).                                           *)
(***************************************************************************)
EXTENDS OldGame

Playing == game = "th095"

ApplyDisplayOverride == Playing /\ Override

InitD3dRenderingHook == Playing /\ InitRendering(FALSE)

CfgWriteHook == Playing /\ WriteCfg

\* The game's own frame.
GameFrame == Playing /\ Frame(FALSE, DrawAfter)

Next == ApplyDisplayOverride \/ InitD3dRenderingHook \/ CfgWriteHook \/ GameFrame
=============================================================================
