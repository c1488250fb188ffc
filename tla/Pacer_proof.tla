------------------------------ MODULE Pacer_proof ------------------------------
(***************************************************************************)
(* What the pacer promises, for every clock frequency, configured rate,    *)
(* resync threshold and horizon.  The inductive invariant ties the stored  *)
(* deadline to the history (the grid), the sleep's target to the deadline, *)
(* and the two ends of a run of frames that did not sleep to the deadline  *)
(* of its first frame; without the last two, a step that ends a sleep or   *)
(* prolongs a run has nothing to start from.                               *)
(***************************************************************************)
EXTENDS Pacer, TLAPS

\* A sleep is for the deadline less the lead, with pacing on.
Sleeping == target # 0 => pacer.deadline # 0 /\ target = pacer.deadline - Lead(pacer)

\* Pacing is on while there is a deadline; the history is in the past.
History ==
    /\ pacer.deadline # 0 => pacer.period # 0
    /\ anchor <= now /\ last <= now
    /\ pacer.deadline # 0 /\ frames = 0 => last = anchor

\* NeverAhead and ConvergesAtOnce, also during a sleep.
Places ==
    pacer.deadline # 0 /\ frames > 0 =>
        /\ Place <= last
        /\ steady => last = Place

\* The first frame of a run was within the threshold of its deadline, and the
\* last one past its own less the lead.
Run ==
    pacer.deadline # 0 /\ burst.count > 0 =>
        /\ pacer.deadline - burst.count * pacer.period >= burst.since - Threshold
        /\ last >= pacer.deadline - pacer.period - Lead(pacer)

IInv == TypeOK /\ Sleeping /\ History /\ DeadlineOnGrid /\ Places /\ Run /\ PolicyOfMode

PacerType == [policy : {"LiveInput", "InternalCadence"}, period : Nat, deadline : Nat]

-----------------------------------------------------------------------------
(* The operators                                                           *)

\* A period is a number of ticks, 0 when pacing is off.
LEMMA PeriodType == ASSUME NEW fps \in Nat PROVE PeriodFrom(fps) \in Nat
  <1>1. CASE fps = 0
    BY <1>1 DEF PeriodFrom
  <1>2. CASE fps # 0
    BY <1>2, FreqAssumption DEF PeriodFrom
  <1>3. QED
    BY <1>1, <1>2

\* The lead is no longer than a period.
LEMMA LeadBounds ==
    ASSUME NEW p \in PacerType PROVE Lead(p) \in Nat /\ Lead(p) <= p.period
  <1>1. p.period \in Nat
    BY DEF PacerType
  <1>2. p.period \div 2 \in Nat /\ p.period \div 2 <= p.period
    BY <1>1
  <1>3. QED
    BY <1>1, <1>2 DEF Lead

\* The lead depends on neither deadline.
LEMMA LeadOfSame ==
    ASSUME NEW p, NEW q, p.policy = q.policy, p.period = q.period
    PROVE  Lead(p) = Lead(q)
  BY DEF Lead

LEMMA ModeOfProbe == \A probe \in Probe : ReplayMode(probe) \in Mode
  BY DEF ReplayMode, Mode

\* A policy starts without a deadline, with the rate and the kind of its mode.
LEMMA AppliedFacts ==
    ASSUME NEW m \in Mode
    PROVE  /\ Applied(m) \in PacerType /\ Applied(m).deadline = 0
           /\ Applied(m).policy = Policy(m)
           /\ Applied(m).period = PeriodFrom(TargetFps(m))
  <1>1. TargetFps(m) \in Nat
    BY FpsAssumption DEF TargetFps, Mode
  <1>2. PeriodFrom(TargetFps(m)) \in Nat
    BY <1>1, PeriodType
  <1>3. Policy(m) \in {"LiveInput", "InternalCadence"}
    BY DEF Policy
  <1>4. QED
    BY <1>2, <1>3 DEF Applied, PacerType

\* What wait finds: the pacer as it was, or a policy just applied.
LEMMA ObserveFacts ==
    ASSUME IInv, NEW m \in Mode
    PROVE  /\ Observe(m) \in PacerType
           /\ Observe(m) = pacer \/ Observe(m).deadline = 0
           /\ Observe(m).policy = Policy(m)
           /\ Observe(m).period = PeriodFrom(TargetFps(m))
  <1>1. CASE m = mode
    BY <1>1 DEF Observe, IInv, TypeOK, PolicyOfMode, PacerType
  <1>2. CASE m # mode
    BY <1>2, AppliedFacts DEF Observe
  <1>3. QED
    BY <1>1, <1>2

\* One more frame is one more period.
LEMMA OneMore == \A a, b \in Int : (a + 1) * b = a * b + b /\ a * b \in Int
  OBVIOUS

-----------------------------------------------------------------------------
(* The invariant                                                           *)

LEMMA InitInv == Init => IInv
  <1> SUFFICES ASSUME Init PROVE IInv
    OBVIOUS
  <1>1. "normal" \in Mode
    BY DEF Mode
  <1>2. pacer \in PacerType /\ pacer.deadline = 0 /\ PolicyOfMode
    BY <1>1, AppliedFacts DEF Init, PolicyOfMode
  <1>3. TypeOK
    BY <1>1, <1>2 DEF Init, TypeOK, PacerType
  <1>4. QED
    BY <1>2, <1>3 DEF IInv, Init, Sleeping, History, DeadlineOnGrid, Places, Run

\* Time passing leaves the pacer and its history as they are.
LEMMA TickKeeps == ASSUME IInv, Tick PROVE IInv'
  <1> USE DEF IInv, Tick, pacing, history
  <1>1. TypeOK'
    BY DEF TypeOK
  <1>2. History'
    BY DEF History, TypeOK
  <1>3. QED
    BY <1>1, <1>2 DEF Sleeping, DeadlineOnGrid, Places, Place, Run, PolicyOfMode, Lead

\* The facts about p that each branch of Present starts from.
Found(m, p) ==
    /\ p \in PacerType
    /\ p = pacer \/ p.deadline = 0
    /\ p.policy = Policy(m) /\ p.period = PeriodFrom(TargetFps(m))

\* A frame without pacing leaves no deadline.
LEMMA UnpacedKeeps ==
    ASSUME IInv, NEW m \in Mode, NEW p, Found(m, p), target = 0, mode' = m, Unpaced(p)
    PROVE  IInv'
  <1>1. pacer'.deadline = 0
    BY DEF Found, Unpaced, IInv, History
  <1>2. pacer' = p /\ p \in PacerType /\ now' = now /\ target' = 0 /\ UNCHANGED history
    BY DEF Unpaced, Found
  <1>3. TypeOK'
    BY <1>2 DEF TypeOK, IInv, history, PacerType
  <1>4. PolicyOfMode'
    BY <1>2 DEF PolicyOfMode, Found
  <1>5. QED
    BY <1>1, <1>2, <1>3, <1>4
    DEF IInv, Sleeping, History, DeadlineOnGrid, Places, Run, history

\* A resync lays a new grid.
LEMMA ResyncKeeps ==
    ASSUME IInv, NEW m \in Mode, NEW p, Found(m, p), target = 0, mode' = m, Resync(p)
    PROVE  IInv'
  <1>1. /\ now \in Nat /\ now >= 1
        /\ p.period \in Nat /\ p.period # 0 /\ p \in PacerType
    BY DEF IInv, TypeOK, Found, PacerType, Resync
  <1>2. /\ pacer' \in PacerType /\ pacer'.deadline = now + p.period
        /\ pacer'.period = p.period /\ pacer'.policy = p.policy
    BY <1>1 DEF Resync, PacerType
  <1>3. /\ now' = now /\ target' = 0 /\ anchor' = now /\ frames' = 0 /\ last' = now
        /\ steady' = TRUE /\ burst' = [since |-> now, count |-> 0]
    BY DEF Resync
  <1>4. TypeOK'
    BY <1>1, <1>2, <1>3 DEF TypeOK, PacerType
  <1>5. PolicyOfMode'
    BY <1>2 DEF PolicyOfMode, Found
  <1>6. Sleeping' /\ History' /\ DeadlineOnGrid'
    BY <1>1, <1>2, <1>3 DEF Sleeping, History, DeadlineOnGrid
  <1>7. Places' /\ Run'
    BY <1>3 DEF Places, Run
  <1>8. QED
    BY <1>4, <1>5, <1>6, <1>7 DEF IInv

\* A branch that does not resync runs on the pacer as it was.
LEMMA FoundDeadline ==
    ASSUME IInv, NEW m \in Mode, NEW p, Found(m, p), p.period # 0, ~NeedsResync(p)
    PROVE  /\ p = pacer /\ pacer \in PacerType /\ pacer.deadline # 0
           /\ pacer.deadline \in Nat /\ pacer.period \in Nat /\ pacer.period > 0
           /\ now \in Nat /\ now <= pacer.deadline + Threshold
           /\ Lead(pacer) \in Nat /\ Lead(pacer) <= pacer.period
           /\ anchor \in Nat /\ frames \in Nat /\ last \in Nat /\ last <= now
           /\ burst.since \in Nat /\ burst.count \in Nat /\ steady \in BOOLEAN
  <1>1. p = pacer /\ pacer \in PacerType /\ pacer.deadline # 0
    BY DEF Found, NeedsResync
  <1>2. pacer.deadline \in Nat /\ pacer.period \in Nat /\ pacer.period > 0
    BY <1>1 DEF PacerType
  <1>3. now \in Nat /\ now <= pacer.deadline + Threshold
    BY <1>1, <1>2, ThresholdAssumption DEF NeedsResync, IInv, TypeOK
  <1>4. Lead(pacer) \in Nat /\ Lead(pacer) <= pacer.period
    BY <1>1, LeadBounds
  <1>5. /\ anchor \in Nat /\ frames \in Nat /\ last \in Nat /\ last <= now
        /\ burst.since \in Nat /\ burst.count \in Nat /\ steady \in BOOLEAN
    BY DEF IInv, TypeOK, History
  <1>6. QED
    BY <1>1, <1>2, <1>3, <1>4, <1>5
\* A late frame moves on by one place of the grid.
LEMMA BehindKeeps ==
    ASSUME IInv, NEW m \in Mode, NEW p, Found(m, p), target = 0, mode' = m, Behind(p)
    PROVE  IInv'
  <1> DEFINE P == pacer.period
             D == pacer.deadline
             L == Lead(pacer)
  <1>1. p.period # 0 /\ ~NeedsResync(p) /\ now >= p.deadline - Lead(p)
    BY DEF Behind
  <1>2. /\ p = pacer /\ pacer \in PacerType /\ D # 0 /\ D \in Nat /\ P \in Nat /\ P > 0
        /\ now \in Nat /\ now <= D + Threshold /\ L \in Nat /\ L <= P
        /\ anchor \in Nat /\ frames \in Nat /\ last \in Nat /\ last <= now
        /\ burst.since \in Nat /\ burst.count \in Nat /\ steady \in BOOLEAN
    BY <1>1, FoundDeadline
  <1>3. /\ pacer' \in PacerType /\ pacer'.deadline = D + P
        /\ pacer'.period = P /\ pacer'.policy = pacer.policy
    BY <1>2 DEF Behind, PacerType
  <1>4. Lead(pacer') = L
    BY <1>3, LeadOfSame
  <1>5. /\ now' = now /\ target' = 0 /\ anchor' = anchor
        /\ frames' = frames + 1 /\ last' = now
        /\ steady' = (steady /\ InTime(pacer))
        /\ burst'.since = (IF burst.count = 0 THEN now ELSE burst.since)
        /\ burst'.count = burst.count + 1
        /\ burst' \in [since : Nat, count : Nat]
    BY <1>2 DEF Behind
  <1>6. TypeOK'
    BY <1>2, <1>3, <1>5 DEF TypeOK, IInv, PacerType
  <1>7. PolicyOfMode'
    BY <1>2, <1>3 DEF PolicyOfMode, Found
  <1>8. Sleeping' /\ History'
    BY <1>2, <1>3, <1>5 DEF Sleeping, History, IInv
  <1>9. D = anchor + (frames + 1) * P
    BY <1>2 DEF IInv, DeadlineOnGrid
  <1>10. (frames' + 1) * P = (frames + 1) * P + P
    <2> HIDE DEF P, D, L
    <2>1. frames + 1 \in Int /\ P \in Int /\ frames' = frames + 1
      BY <1>2, <1>5
    <2>2. QED
      BY <2>1, OneMore
  <1>11. D + P = anchor' + (frames' + 1) * P
    <2> HIDE DEF P, D
    <2>1. (frames + 1) * P \in Int
      BY <1>2
    <2>2. QED
      BY <1>2, <1>5, <1>9, <1>10, <2>1
  <1>12. DeadlineOnGrid'
    BY <1>3, <1>11 DEF DeadlineOnGrid
  <1>13. now >= D - L
    BY <1>1, <1>2
  <1>14. ~(steady /\ InTime(pacer)) \/ now = D - L
    <2>1. SUFFICES ASSUME steady, InTime(pacer) PROVE now = D - L
      OBVIOUS
    <2>2. CASE frames = 0
      <3>1. last = anchor /\ now - last < P - L
        BY <1>2, <2>1, <2>2 DEF IInv, History, InTime
      <3>2. D = anchor + P
        BY <1>2, <1>9, <2>2
      <3>3. QED
        BY <1>2, <1>13, <3>1, <3>2
    <2>3. CASE frames > 0
      <3>1. last = anchor + frames * P - L /\ now - last < P
        BY <1>2, <2>1, <2>3 DEF IInv, Places, Place, InTime
      <3>2. (frames + 1) * P = frames * P + P /\ frames * P \in Int
        BY <1>2, OneMore
      <3>3. QED
        <4> HIDE DEF P, D, L
        <4>1. QED
          BY <1>2, <1>9, <1>13, <3>1, <3>2
    <2>4. QED
      BY <1>2, <2>2, <2>3
  <1>15. anchor' + frames' * P = D
    BY <1>5, <1>9
  <1>16. Places'
    <2> HIDE DEF P, D, L
    <2>1. Place' = D - L
      <3>1. anchor' + frames' * pacer'.period = D /\ Lead(pacer') = L
        BY <1>3, <1>4, <1>15
      <3>2. anchor' \in Int /\ frames' * pacer'.period \in Int
        BY <1>2, <1>3, <1>5
      <3>3. QED
        BY <1>2, <3>1, <3>2 DEF Place
    <2>2. D - L <= last' /\ (steady' => last' = D - L)
      <3>1. last' = now
        BY <1>5
      <3>2. steady' => last' = D - L
        BY <1>5, <1>14, <3>1, Zenon
      <3>3. QED
        BY <1>13, <3>1, <3>2
    <2>3. QED
      BY <2>1, <2>2 DEF Places
  <1>17. (D + P) - burst'.count * P >= burst'.since - Threshold
    <2>1. burst'.count * P = burst.count * P + P /\ burst.count * P \in Int
      <3> HIDE DEF P, D, L
      <3>1. burst.count \in Int /\ P \in Int /\ burst'.count = burst.count + 1
        BY <1>2, <1>5
      <3>2. QED
        BY <3>1, OneMore
    <2>2. CASE burst.count = 0
      <3>1. burst'.count * P = P /\ burst'.since = now
        BY <1>2, <1>5, <2>2
      <3>2. QED
        <4> HIDE DEF P, D, L
        <4>1. QED
          BY <1>2, <3>1, ThresholdAssumption
    <2>3. CASE burst.count > 0
      <3>1. D - burst.count * P >= burst.since - Threshold /\ burst'.since = burst.since
        BY <1>2, <1>5, <2>3 DEF IInv, Run
      <3>2. QED
        <4> HIDE DEF P, D, L
        <4>1. QED
          BY <1>2, <2>1, <3>1, ThresholdAssumption
    <2>4. QED
      BY <1>2, <2>2, <2>3
  <1>18. Run'
    BY <1>2, <1>3, <1>4, <1>5, <1>13, <1>17 DEF Run
  <1>19. QED
    BY <1>6, <1>7, <1>8, <1>12, <1>16, <1>18 DEF IInv

\* A frame that goes to sleep changes no place.
LEMMA AheadKeeps ==
    ASSUME IInv, NEW m \in Mode, NEW p, Found(m, p), target = 0, mode' = m, Ahead(p)
    PROVE  IInv'
  <1>1. p.period # 0 /\ ~NeedsResync(p) /\ now < p.deadline - Lead(p)
    BY DEF Ahead
  <1>2. /\ p = pacer /\ pacer.deadline # 0 /\ pacer.deadline \in Nat
        /\ pacer.period \in Nat /\ pacer.period > 0
        /\ now \in Nat /\ Lead(pacer) \in Nat /\ steady \in BOOLEAN
    BY <1>1, FoundDeadline
  <1>3. /\ pacer' = pacer /\ target' = pacer.deadline - Lead(pacer)
        /\ UNCHANGED <<now, anchor, frames, last, burst>>
        /\ steady' = (steady /\ InTime(pacer))
    BY <1>2 DEF Ahead
  <1>4. target' \in Nat /\ target' # 0
    BY <1>1, <1>2, <1>3
  <1>5. TypeOK'
    BY <1>2, <1>3, <1>4 DEF TypeOK, IInv
  <1>6. PolicyOfMode'
    BY <1>2, <1>3 DEF PolicyOfMode, Found
  <1>7. Lead(pacer') = Lead(pacer)
    BY <1>3
  <1>8. Sleeping'
    BY <1>2, <1>3, <1>7 DEF Sleeping
  <1>9. History' /\ DeadlineOnGrid' /\ Run'
    BY <1>2, <1>3, <1>7 DEF IInv, History, DeadlineOnGrid, Run
  <1>10. Places'
    BY <1>2, <1>3, <1>7 DEF IInv, Places, Place
  <1>11. QED
    BY <1>5, <1>6, <1>8, <1>9, <1>10 DEF IInv

\* The end of a sleep, in time or late.
LEMMA WakeKeeps == ASSUME IInv, Wake PROVE IInv'
  <1> DEFINE P == pacer.period
             D == pacer.deadline
             L == Lead(pacer)
  <1>1. target # 0 /\ now >= target /\ D # 0 /\ target = D - L
    BY DEF Wake, IInv, Sleeping
  <1>2. /\ pacer \in PacerType /\ D \in Nat /\ P \in Nat /\ P > 0 /\ now \in Nat
        /\ anchor \in Nat /\ frames \in Nat /\ last \in Nat /\ last <= now
        /\ anchor <= now /\ steady \in BOOLEAN
    BY <1>1 DEF IInv, TypeOK, History, PacerType
  <1>3. L \in Nat /\ L <= P
    BY <1>2, LeadBounds
  <1>4. /\ pacer' \in PacerType /\ pacer'.deadline = D + P
        /\ pacer'.period = P /\ pacer'.policy = pacer.policy
    BY <1>2 DEF Wake, PacerType
  <1>5. Lead(pacer') = L
    BY <1>4, LeadOfSame
  <1>6. /\ now' = now /\ mode' = mode /\ target' = 0 /\ anchor' = anchor
        /\ frames' = frames + 1 /\ last' = now
        /\ steady' = (steady /\ now = target)
        /\ burst' = [since |-> now, count |-> 0]
    BY DEF Wake
  <1>7. TypeOK'
    BY <1>2, <1>4, <1>6 DEF TypeOK, IInv, PacerType
  <1>8. PolicyOfMode'
    BY <1>4, <1>6 DEF PolicyOfMode, IInv
  <1>9. Sleeping' /\ History'
    BY <1>2, <1>4, <1>6 DEF Sleeping, History
  <1>10. D = anchor + (frames + 1) * P
    BY <1>1 DEF IInv, DeadlineOnGrid
  <1>11. (frames' + 1) * P = (frames + 1) * P + P /\ (frames + 1) * P \in Int
    BY <1>2, <1>6, OneMore
  <1>12. D + P = anchor' + (frames' + 1) * P
    <2> HIDE DEF P, D, L
    <2>1. QED
      BY <1>2, <1>6, <1>10, <1>11
  <1>13. DeadlineOnGrid'
    BY <1>4, <1>12 DEF DeadlineOnGrid
  <1>14. anchor' + frames' * P = D
    BY <1>6, <1>10
  <1>15. Places'
    <2> HIDE DEF P, D, L
    <2>1. Place' = D - L
      <3>1. anchor' + frames' * pacer'.period = D /\ Lead(pacer') = L
        BY <1>4, <1>5, <1>14
      <3>2. anchor' \in Int /\ frames' * pacer'.period \in Int
        BY <1>2, <1>4, <1>6
      <3>3. QED
        BY <1>2, <1>3, <3>1, <3>2 DEF Place
    <2>2. steady' => now = target
      BY <1>6, Zenon
    <2>3. D - L <= last' /\ (steady' => last' = D - L)
      BY <1>1, <1>6, <2>2
    <2>4. QED
      BY <2>1, <2>3 DEF Places
  <1>16. Run'
    BY <1>6 DEF Run
  <1>17. QED
    BY <1>7, <1>8, <1>9, <1>13, <1>15, <1>16 DEF IInv

LEMMA PresentKeeps == ASSUME IInv, Present PROVE IInv'
  <1>1. PICK probe \in Probe :
           LET m == ReplayMode(probe)
               p == Observe(m)
           IN  mode' = m /\ (Unpaced(p) \/ Resync(p) \/ Behind(p) \/ Ahead(p))
    BY DEF Present
  <1> DEFINE m == ReplayMode(probe)
             p == Observe(m)
  <1>2. m \in Mode
    BY ModeOfProbe
  <1>3. Found(m, p)
    BY <1>2, ObserveFacts DEF Found
  <1>4. target = 0 /\ mode' = m
    BY <1>1 DEF Present
  <1> HIDE DEF m, p
  <1>5. CASE Unpaced(p)
    BY <1>2, <1>3, <1>4, <1>5, UnpacedKeeps
  <1>6. CASE Resync(p)
    BY <1>2, <1>3, <1>4, <1>6, ResyncKeeps
  <1>7. CASE Behind(p)
    BY <1>2, <1>3, <1>4, <1>7, BehindKeeps
  <1>8. CASE Ahead(p)
    BY <1>2, <1>3, <1>4, <1>8, AheadKeeps
  <1>9. QED
    BY <1>1, <1>5, <1>6, <1>7, <1>8 DEF m, p

THEOREM Invariance == Spec => []IInv
  <1>1. IInv /\ [Next]_vars => IInv'
    <2> SUFFICES ASSUME IInv, [Next]_vars PROVE IInv'
      OBVIOUS
    <2>1. CASE Tick
      BY <2>1, TickKeeps
    <2>2. CASE Present
      BY <2>2, PresentKeeps
    <2>3. CASE Wake
      BY <2>3, WakeKeeps
    <2>4. CASE UNCHANGED vars
      BY <2>4 DEF vars, pacing, history, IInv, TypeOK, Sleeping, History,
                  DeadlineOnGrid, Places, Place, Run, PolicyOfMode, Lead
    <2>5. QED
      BY <2>1, <2>2, <2>3, <2>4 DEF Next
  <1>2. QED
    BY InitInv, <1>1, PTL DEF Spec

-----------------------------------------------------------------------------
(* The theorems                                                            *)

\* Every variable keeps its type: deadlines, periods and targets are never
\* negative, whatever rates are configured (pacer.rs, wait and apply_policy).
THEOREM TypeCorrect == Spec => []TypeOK
  BY Invariance, PTL DEF IInv

\* Between two resyncs the stored deadline never leaves the grid of whole
\* periods (pacer.rs, wait).
THEOREM NoDrift == Spec => []DeadlineOnGrid
  BY Invariance, PTL DEF IInv

\* No frame is let through before its place less the lead (pacer.rs, wait and
\* spin_until).
THEOREM NoOvertaking == Spec => []NeverAhead
  <1>1. IInv => NeverAhead
    BY DEF IInv, Places, NeverAhead
  <1>2. QED
    BY Invariance, <1>1, PTL

\* With work that fits, every frame after a resync leaves at its place less
\* the lead (pacer.rs, wait with lead_active).
THEOREM ImmediateConvergence == Spec => []ConvergesAtOnce
  <1>1. IInv => ConvergesAtOnce
    BY DEF IInv, Places, ConvergesAtOnce
  <1>2. QED
    BY Invariance, <1>1, PTL

\* A run of frames without sleep is bounded by the time it takes, the
\* threshold and the lead (pacer.rs, wait).
THEOREM BoundedCatchUp == Spec => []CatchUpBounded
  <1>1. IInv => CatchUpBounded
    <2> SUFFICES ASSUME IInv, pacer.deadline # 0, burst.count > 0
                 PROVE  (burst.count - 1) * pacer.period
                           <= (last - burst.since) + Threshold + Lead(pacer)
      BY DEF CatchUpBounded
    <2> DEFINE P == pacer.period
               D == pacer.deadline
               L == Lead(pacer)
               C == burst.count
    <2>1. /\ P \in Nat /\ D \in Nat /\ C \in Nat /\ C - 1 \in Nat
          /\ last \in Nat /\ burst.since \in Nat /\ pacer \in PacerType
      BY DEF IInv, TypeOK, PacerType
    <2>2. L \in Nat
      BY <2>1, LeadBounds
    <2>3. D - C * P >= burst.since - Threshold /\ last >= D - P - L
      BY DEF IInv, Run
    <2>4. C * P = (C - 1) * P + P /\ (C - 1) * P \in Int
      <3> HIDE DEF C, P
      <3>1. (C - 1) + 1 = C
        BY <2>1
      <3>2. QED
        BY <2>1, <3>1, OneMore
    <2> HIDE DEF P, D, L, C
    <2>5. (C - 1) * P <= (last - burst.since) + Threshold + L
      BY <2>1, <2>2, <2>3, <2>4, ThresholdAssumption
    <2>6. QED
      BY <2>5 DEF P, L, C
  <1>2. QED
    BY Invariance, <1>1, PTL

\* The policy of the pacer is that of the latched mode, always (replay.rs,
\* policy_change; d3d9.rs, apply_policy_change).
THEOREM PolicyFollowsMode == Spec => []PolicyOfMode
  BY Invariance, PTL DEF IInv

\* The frame on which a new mode is seen does not sleep (pacer.rs,
\* apply_policy; d3d9.rs, hook_present).
THEOREM NoStaleDeadline == Spec => ChangeGoesThrough
  <1>1. IInv /\ [Next]_vars => [mode' # mode => target' = 0]_vars
    <2> SUFFICES ASSUME IInv, Next, mode' # mode PROVE target' = 0
      BY DEF vars, pacing
    <2>1. ~Tick /\ ~Wake
      BY DEF Tick, Wake, pacing
    <2>2. PICK probe \in Probe :
             LET m == ReplayMode(probe)
                 p == Observe(m)
             IN  target = 0 /\ mode' = m
                 /\ (Unpaced(p) \/ Resync(p) \/ Behind(p) \/ Ahead(p))
      BY <2>1 DEF Next, Present
    <2>3. Observe(mode').deadline = 0
      BY <2>2, AppliedFacts, ModeOfProbe DEF Observe
    <2>4. ~Ahead(Observe(mode'))
      BY <2>3 DEF Ahead, NeedsResync
    <2>5. QED
      BY <2>2, <2>4 DEF Unpaced, Resync, Behind
  <1>2. QED
    BY Invariance, <1>1, PTL DEF Spec, ChangeGoesThrough
=============================================================================
