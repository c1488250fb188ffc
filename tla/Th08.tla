---------------------------------- MODULE Th08 ---------------------------------
(***************************************************************************)
(* The crate of th08: the overrides and the observer.  Its loop already    *)
(* draws behind calc; only its limiter is skipped.                         *)
(***************************************************************************)
EXTENDS OldGame

Playing == game = "th08"

ApplyDisplayOverride == Playing /\ Override

InitD3dRenderingHook == Playing /\ InitRendering(FALSE)

CfgWriteHook == Playing /\ WriteCfg

\* The game's own frame, with its input observed.
ObservedFrame == Playing /\ Frame(TRUE, DrawAfter)

ReplayKeys == IF replay THEN HeldKeys ELSE {}

Next == ApplyDisplayOverride \/ InitD3dRenderingHook \/ CfgWriteHook \/ ObservedFrame
=============================================================================
