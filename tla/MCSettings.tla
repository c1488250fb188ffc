------------------------------- MODULE MCSettings -------------------------------
(***************************************************************************)
(* The ways neopatch starts a game with settings of its own, which no game *)
(* combines in one file: the frameskip pin of the newer games, their       *)
(* startup dialogs, and the cfg overrides of the oldest ones.  A behaviour *)
(* is about one of them; of the oldest games it is about the display       *)
(* settings or about the input, which do not touch each other.             *)
(***************************************************************************)
EXTENDS CfgPin

CONSTANTS Skip, AutoAt, AutoMax, MaxLines

VARIABLES
    family,   \* what a behaviour is about: pin, dialog, display or input
    \* the variables of OldGame, those named as in CfgPin with an o
    game, ophase, mode, ofile, ocfg, pinned, device, cached, changed,
    tick, drawn, replay, counter, observed, player, toggled, polled,
    \* the variables of StartupDialog
    title, lines, config, policy, stage, memory, excused, runs

Old == INSTANCE OldGames WITH phase <- ophase, file <- ofile, cfg <- ocfg
Dialog == INSTANCE StartupDialog

oinput == <<replay, counter, observed, polled>>
ovars == <<game, ophase, mode, ofile, ocfg, pinned, device, cached, changed,
           tick, drawn, player, toggled, oinput>>
dvars == <<title, lines, config, policy, stage, memory, excused, runs>>

\* One setting is enough for the input, and one start for what does not move.
MCInit ==
    /\ family \in {"pin", "dialog", "display", "input"}
    /\ family # "display" =>
        ofile = [windowed |-> TRUE, color |-> "32", force16 |-> FALSE, frameskip |-> 0]
    /\ family # "pin" => file = Vanilla!Defaults
    /\ family # "dialog" => title = "th10" /\ lines = <<>>
    /\ Init /\ Old!Init /\ Dialog!Init

MCNext ==
    \/ family = "pin" /\ Next /\ UNCHANGED <<family, ovars, dvars>>
    \/ family = "dialog" /\ Dialog!Next /\ UNCHANGED <<family, vars, ovars>>
    \/ family = "display" /\ Old!Next /\ oinput' = oinput /\ UNCHANGED <<family, vars, dvars>>
    \/ /\ family = "input" /\ Old!Next
       /\ <<ofile, mode, toggled, player>>' = <<ofile, mode, toggled, player>>
       /\ UNCHANGED <<family, vars, dvars>>

MCSpec == MCInit /\ [][MCNext]_<<vars, family, ovars, dvars>>

\* The properties of the oldest games, as OldGames states them.
WritesPlayersCfg == Old!WritesPlayersCfg
DeviceAsConfigured == Old!DeviceAsConfigured
FreshFrame == Old!FreshFrame
KeysArePressed == Old!KeysArePressed

\* The properties of the startup dialogs, as StartupDialog states them.
StartsAsConfigured == Dialog!StartsAsConfigured
NeverWaits == Dialog!NeverWaits
=============================================================================
