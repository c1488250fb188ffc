--------------------------------- MODULE Pacer ---------------------------------
(***************************************************************************)
(* The frame pacer (pacer.rs) as hook_present drives it, with the policy   *)
(* that the replay mode calls for (replay.rs).                             *)
(*                                                                         *)
(* The game's render thread calls Present once per frame.  The hook looks  *)
(* at the replay keys, applies the policy of a new mode, and then waits    *)
(* until the frame's deadline, which advances by one period per frame and  *)
(* is seeded anew after a change of policy or a long hitch.  Time passes   *)
(* by itself: in the game's own work, and during a sleep, which may end    *)
(* late.  What a wait reads and stores belongs to the render thread alone. *)
(***************************************************************************)
EXTENDS Integers

CONSTANTS
    Freq,                         \* clock ticks per second
    GameFps, ReplaySkipFps, ReplaySlowFps,  \* the configured rates
    Threshold,                    \* resync_threshold_qpc
    Horizon                       \* bound on the clock

ASSUME FreqAssumption == Freq \in Nat \ {0}
ASSUME FpsAssumption ==
    GameFps \in Nat /\ ReplaySkipFps \in Nat /\ ReplaySlowFps \in Nat
ASSUME ThresholdAssumption == Threshold \in Nat
ASSUME HorizonAssumption == Horizon \in Nat

Mode == {"normal", "skip", "slow"}
Key == {"focus", "shoot", "skip", "ctrl"}
NoReplay == [playing |-> FALSE, held |-> {}]
Probe == [playing : {TRUE}, held : SUBSET Key] \cup {NoReplay}

VARIABLES
    now,     \* the performance counter, never 0
    mode,    \* MODE, the replay mode last seen
    pacer,   \* policy, period_qpc and deadline_qpc; a deadline of 0 resyncs
    target,  \* what the thread sleeps until inside Present, 0 outside
    \* history: the last resync and the frames since, the last return from
    \* wait, whether all work since the resync was in time, and the current
    \* run of frames that did not sleep
    anchor, frames, last, steady, burst

pacing == <<mode, pacer, target>>
history == <<anchor, frames, last, steady, burst>>
vars == <<now, pacing, history>>

-----------------------------------------------------------------------------
(* Policies                                                                *)

\* replay_mode: focus wins.
ReplayMode(probe) ==
    IF ~probe.playing \/ probe.held = {} THEN "normal"
    ELSE IF "focus" \in probe.held THEN "slow" ELSE "skip"

\* period_qpc_from
PeriodFrom(fps) == IF fps = 0 THEN 0 ELSE Freq \div fps

TargetFps(m) == CASE m = "normal" -> GameFps
                  [] m = "skip" -> ReplaySkipFps
                  [] m = "slow" -> ReplaySlowFps

Policy(m) == IF m = "normal" THEN "LiveInput" ELSE "InternalCadence"

\* apply_policy, and Pacer::new for the mode at the start
Applied(m) == [policy |-> Policy(m), period |-> PeriodFrom(TargetFps(m)), deadline |-> 0]

\* policy_change: the pacer as wait finds it, when the keys ask for mode m
Observe(m) == IF m = mode THEN pacer ELSE Applied(m)

\* How much earlier than its deadline a frame is let through.
LeadEverywhere(p) == p.period \div 2

Lead(p) == IF p.policy = "LiveInput" THEN p.period \div 2 ELSE 0

-----------------------------------------------------------------------------
(* One frame                                                               *)

Init ==
    /\ now = 1 /\ mode = "normal" /\ pacer = Applied("normal") /\ target = 0
    /\ anchor = 0 /\ frames = 0 /\ last = 0 /\ steady = TRUE
    /\ burst = [since |-> 0, count |-> 0]

Tick == now < Horizon /\ now' = now + 1 /\ UNCHANGED <<pacing, history>>

\* The game's work since the last frame left room for the next deadline.
InTime(p) == now - last < IF frames = 0 THEN p.period - Lead(p) ELSE p.period

\* Pacing is off: Present goes straight on.
Unpaced(p) ==
    /\ p.period = 0
    /\ pacer' = p
    /\ UNCHANGED <<now, target, history>>

\* A resync only after the threshold counted from the last frame's return.
NeedsResyncLate(p) == p.deadline = 0 \/ now > last + p.period + Threshold

NeedsResync(p) == p.deadline = 0 \/ now > p.deadline + Threshold

\* The first frame, or one that comes too late to catch up.
Resync(p) ==
    /\ p.period # 0 /\ NeedsResync(p)
    /\ pacer' = [p EXCEPT !.deadline = now + p.period]
    /\ anchor' = now /\ frames' = 0 /\ last' = now /\ steady' = TRUE
    /\ burst' = [since |-> now, count |-> 0]
    /\ UNCHANGED <<now, target>>

\* A hitch that moves the schedule.
BehindDrifting(p) ==
    /\ p.period # 0 /\ ~NeedsResync(p) /\ now >= p.deadline - Lead(p)
    /\ pacer' = [p EXCEPT !.deadline = now + p.period]
    /\ frames' = frames + 1 /\ last' = now /\ steady' = FALSE
    /\ burst' = [since |-> IF burst.count = 0 THEN now ELSE burst.since,
                 count |-> burst.count + 1]
    /\ UNCHANGED <<now, target, anchor>>

\* A frame that is late is let through at once, and the deadline advances.
Behind(p) ==
    /\ p.period # 0 /\ ~NeedsResync(p) /\ now >= p.deadline - Lead(p)
    /\ pacer' = [p EXCEPT !.deadline = p.deadline + p.period]
    /\ frames' = frames + 1 /\ last' = now /\ steady' = (steady /\ InTime(p))
    /\ burst' = [since |-> IF burst.count = 0 THEN now ELSE burst.since,
                 count |-> burst.count + 1]
    /\ UNCHANGED <<now, target, anchor>>

\* A frame that is early sleeps.
Ahead(p) ==
    /\ p.period # 0 /\ ~NeedsResync(p) /\ now < p.deadline - Lead(p)
    /\ pacer' = p
    /\ target' = p.deadline - Lead(p)
    /\ steady' = (steady /\ InTime(p))
    /\ UNCHANGED <<now, anchor, frames, last, burst>>

Present ==
    /\ target = 0
    /\ \E probe \in Probe :
          LET m == ReplayMode(probe)
              p == Observe(m)
          IN  mode' = m /\ (Unpaced(p) \/ Resync(p) \/ Behind(p) \/ Ahead(p))

\* The sleep over before the spin has closed it.
WakeEarly ==
    /\ target # 0
    /\ pacer' = [pacer EXCEPT !.deadline = pacer.deadline + pacer.period]
    /\ target' = 0
    /\ frames' = frames + 1 /\ last' = now /\ steady' = (steady /\ now = target)
    /\ burst' = [since |-> now, count |-> 0]
    /\ UNCHANGED <<now, mode, anchor>>

\* sleep_until: however the timer does, the spin ends at the target or
\* later.  The stored deadline advances from itself, not from the target.
Wake ==
    /\ target # 0 /\ now >= target
    /\ pacer' = [pacer EXCEPT !.deadline = pacer.deadline + pacer.period]
    /\ target' = 0
    /\ frames' = frames + 1 /\ last' = now /\ steady' = (steady /\ now = target)
    /\ burst' = [since |-> now, count |-> 0]
    /\ UNCHANGED <<now, mode, anchor>>

Next == Tick \/ Present \/ Wake

Spec == Init /\ [][Next]_vars

-----------------------------------------------------------------------------
(* Properties                                                              *)

TypeOK ==
    /\ now \in Nat /\ now >= 1
    /\ mode \in Mode
    /\ pacer \in [policy : {"LiveInput", "InternalCadence"}, period : Nat, deadline : Nat]
    /\ target \in Nat
    /\ anchor \in Nat /\ frames \in Nat /\ last \in Nat /\ steady \in BOOLEAN
    /\ burst \in [since : Nat, count : Nat]

\* Hitches never smear into drift: between two resyncs the deadline is on the
\* grid of whole periods laid at the resync, whether frames slept, were let
\* through late, or woke late.
DeadlineOnGrid ==
    pacer.deadline # 0 => pacer.deadline = anchor + (frames + 1) * pacer.period

\* The time by which the frames since the resync are due, less the lead.
Place == anchor + frames * pacer.period - Lead(pacer)

\* Catching up never overtakes: no frame leaves wait before its place on the
\* grid, moved forward by the lead at most.
NeverAhead ==
    pacer.deadline # 0 /\ target = 0 /\ frames > 0 => Place <= last

\* The lead is in place with the first frame after a resync: as long as the
\* game's work fits (the first time into the period less the lead, later into
\* the period) and no sleep ends late, every frame leaves exactly on the grid
\* less the lead.
ConvergesAtOnce ==
    pacer.deadline # 0 /\ target = 0 /\ frames > 0 /\ steady => last = Place

\* A hitch is absorbed by a bounded run of frames that do not sleep: beyond
\* what the time that passes in the run is worth, it covers the threshold and
\* the lead, and no more.
CatchUpBounded ==
    pacer.deadline # 0 /\ burst.count > 0 =>
        (burst.count - 1) * pacer.period
            <= (last - burst.since) + Threshold + Lead(pacer)

\* The pacer always runs the policy of the mode it was last told, although the
\* change is reported once only.
PolicyOfMode ==
    /\ pacer.policy = Policy(mode)
    /\ pacer.period = PeriodFrom(TargetFps(mode))

\* A change of mode never waits for a deadline of the old rate: the frame on
\* which it is seen goes through at once.
ChangeGoesThrough == [][mode' # mode => target' = 0]_vars
=============================================================================
