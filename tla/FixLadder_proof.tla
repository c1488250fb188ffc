--------------------------- MODULE FixLadder_proof ---------------------------
(***************************************************************************)
(* Theorems about FixLadder for every set of requests, adapters, settings  *)
(* and refresh rates.  The inductive invariant says that the struct in the *)
(* game's memory during a call is what materialize makes of the request,   *)
(* and that the snapshot holds nothing but real rates; outside of a call,  *)
(* that a failure has put the request back.                                *)
(***************************************************************************)
EXTENDS FixLadder, TLAPS

-----------------------------------------------------------------------------
(* Refresh rates                                                           *)

\* The extremes of a set of rates are among them.
LEMMA Extremes ==
    ASSUME NEW S \in SUBSET Rate, S # {}
    PROVE  Max(S) \in S /\ Min(S) \in S
<1>1. PICK lo \in S, hi \in S : \A r \in S : lo <= r /\ r <= hi
  BY RateAssumption
<1>2. S \subseteq Nat
  BY RateAssumption
<1>3. \A r \in S : hi >= r /\ lo =< r
  BY <1>1, <1>2
<1> QED BY <1>1, <1>3 DEF Max, Min

\* native_rate answers a rate that the adapter listed, or the desktop's.
LEMMA NativeRateListed ==
    ASSUME NEW S \in SUBSET Rate, NEW d \in Rate
    PROVE  NativeRate(S, d) \in S \cup {d}
<1>1. Near(S, d) \in SUBSET S
  BY DEF Near
<1>2. CASE S = {}
  BY <1>2 DEF NativeRate
<1>3. CASE S # {} /\ Near(S, d) = {}
  BY <1>3, Extremes DEF NativeRate
<1>4. CASE S # {} /\ Near(S, d) # {}
  <2>1. Max(Near(S, d)) \in Near(S, d)
    BY <1>1, <1>4, Extremes
  <2> QED BY <1>1, <1>4, <2>1 DEF NativeRate
<1> QED BY <1>2, <1>3, <1>4

\* A pick is a listed rate, the desktop's or the configured one.
LEMMA PickRateListed ==
    ASSUME NEW mode \in RefreshRateMode, NEW S \in SUBSET Rate, NEW d \in Rate
    PROVE  PickRate(mode, S, d) \in Rate
<1>1. NativeRate(S, d) \in Rate
  BY NativeRateListed
<1>2. CASE mode.kind = "Fixed"
  <2>1. mode.target \in Rate
    BY DEF RefreshRateMode
  <2> QED BY <1>2, <2>1 DEF PickRate
<1>3. CASE mode.kind # "Fixed"
  <2>1. Near(Multiples(S), d) \in SUBSET Rate
    BY DEF Near, Multiples
  <2>2. CASE mode.kind = "NativeMultiple" /\ Near(Multiples(S), d) # {}
    <3>1. Max(Near(Multiples(S), d)) \in Rate
      BY <2>1, <2>2, Extremes
    <3> QED BY <2>2, <3>1 DEF PickRate
  <2>3. CASE ~(mode.kind = "NativeMultiple" /\ Near(Multiples(S), d) # {})
    BY <1>1, <1>3, <2>3 DEF PickRate
  <2> QED BY <2>2, <2>3
<1> QED BY <1>2, <1>3

-----------------------------------------------------------------------------
(* Operators of the ladder                                                 *)

LEMMA FormatPlanType ==
    ASSUME NEW f \in Format, NEW w \in BOOLEAN, NEW u \in BOOLEAN
    PROVE  FormatPlan(f, w, u) \in Format
BY DEF FormatPlan, Upgraded, Format, Deep, Shallow

\* A snapshot whose rates are real, and so is the rate that stands in for them.
SnapshotReal(s) ==
    /\ IsReal(s.desktop_rate)
    /\ \A f \in Format : \A r \in s.rates[f] : IsReal(r)

LEMMA CaptureFits ==
    ASSUME NEW req \in Params, NEW a \in AdapterType, session \in SessionType
    PROVE  LET s == Capture(req, a)
           IN  /\ s \in SnapshotType /\ SnapshotReal(s)
               /\ ~req.windowed =>
                    s.formats = Sampled(req, session.upgrade_16bit)
<1>1. 60 \in Rate /\ 0 \in Rate
  BY RateAssumption
<1>2. Sampled(req, session.upgrade_16bit) \subseteq Format
  BY FormatPlanType DEF Sampled, Params, SessionType
<1>3. a.desktop \in Rate /\ a.win32 \in Rate /\ a.modes \in [Format -> SUBSET Rate]
  BY DEF AdapterType
<1>4. CASE req.windowed
  BY <1>1, <1>4 DEF Capture, SnapshotType, SnapshotReal, IsReal
<1>5. CASE ~req.windowed
  <2> DEFINE S == Sampled(req, session.upgrade_16bit)
             R == [f \in Format |->
                      IF f \in S THEN Enumerated(a.modes[f]) ELSE {}]
             d == IF ~WillPick(req) THEN 60
                  ELSE IF IsReal(a.desktop) THEN a.desktop
                  ELSE IF IsReal(a.win32) THEN a.win32
                  ELSE 60
  <2>1. Capture(req, a) = [desktop |-> a.desktop, desktop_rate |-> d,
                           formats |-> S, rates |-> R]
    BY <1>5 DEF Capture
  <2>2. d \in Rate /\ IsReal(d)
    BY <1>1, <1>3 DEF IsReal
  <2>3. R \in [Format -> SUBSET Rate]
    BY <1>3 DEF Enumerated
  <2>4. \A f \in Format : \A r \in R[f] : IsReal(r)
    BY DEF Enumerated
  <2> HIDE DEF S, R, d
  <2>5. S \subseteq Format
    BY <1>2 DEF S
  <2>6. Capture(req, a) \in SnapshotType
    BY <1>3, <2>1, <2>2, <2>3, <2>5 DEF SnapshotType
  <2> QED BY <2>1, <2>2, <2>4, <2>6 DEF SnapshotReal, S
<1> QED BY <1>4, <1>5 DEF Params

LEMMA OverrideRateReal ==
    ASSUME NEW req \in Params, NEW S \in SUBSET Rate, NEW d \in Rate,
           session \in SessionType, IsReal(d), \A r \in S : IsReal(r)
    PROVE  /\ OverrideRate(req, S, d) \in Rate
           /\ IsReal(OverrideRate(req, S, d))
<1>1. NativeRate(S, d) \in Rate /\ IsReal(NativeRate(S, d))
  BY NativeRateListed
<1>2. PickRate(session.mode, S, d) \in Rate
  BY PickRateListed DEF SessionType
<1>3. req.rate \in Rate
  BY DEF Params
<1> QED BY <1>1, <1>2, <1>3 DEF OverrideRate

LEMMA RollbackRateReal ==
    ASSUME NEW req \in Params, NEW s \in SnapshotType, NEW c \in BOOLEAN
    PROVE  /\ RollbackRate(req, s, c) \in Rate
           /\ c => IsReal(RollbackRate(req, s, c))
<1>1. req.rate \in Rate /\ s.desktop \in Rate /\ 60 \in Rate
  BY RateAssumption DEF Params, SnapshotType
<1> QED BY <1>1 DEF RollbackRate, IsReal

LEMMA RewrittenType ==
    ASSUME NEW req \in Params, NEW u \in BOOLEAN, session \in SessionType
    PROVE  /\ Rewritten(req, u) \in Params
           /\ Rewritten(req, u).windowed = req.windowed
           /\ Rewritten(req, u).rate = req.rate
           /\ Rewritten(req, u).format = FormatPlan(req.format, req.windowed, u)
           /\ Rewritten(req, u).lockable => req.lockable
           /\ Rewritten(req, u).interval # req.interval
                => Rewritten(req, u).interval = "immediate"
<1>1. FormatPlan(req.format, req.windowed, u) \in Format
  BY FormatPlanType DEF Params
<1> QED BY <1>1 DEF Rewritten, Params, SessionType

\* What materialize makes of a request: everything but the rate is the
\* rewrite, and the rate of a fullscreen Ex call is real.
LEMMA MaterializeFits ==
    ASSUME NEW req \in Params, NEW fx \in FixSet, NEW s \in SnapshotType,
           NEW c \in Calls, session \in SessionType, SnapshotReal(s)
    PROVE  LET p == Materialize(req, fx, s, c)
               q == Rewritten(req, fx.format_upgrade)
           IN  /\ p \in Params
               /\ p = [q EXCEPT !.rate = p.rate]
               /\ p.windowed => p = q
               /\ ~p.windowed /\ Consumes(c) => IsReal(p.rate)
<1> DEFINE q == Rewritten(req, fx.format_upgrade)
           r == IF fx.rate_override
                THEN OverrideRate(req, s.rates[q.format], s.desktop_rate)
                ELSE RollbackRate(req, s, Consumes(c))
<1>1. q \in Params
  BY RewrittenType DEF FixSet
<1>2. s.rates[q.format] \in SUBSET Rate /\ s.desktop_rate \in Rate
  BY <1>1 DEF SnapshotType, Params
<1>3. IsReal(s.desktop_rate) /\ \A t \in s.rates[q.format] : IsReal(t)
  BY <1>1 DEF SnapshotReal, Params
<1>4. Consumes(c) \in BOOLEAN
  BY DEF Consumes
<1>5. r \in Rate /\ (Consumes(c) => IsReal(r))
  <2>1. CASE fx.rate_override
    BY <1>2, <1>3, <2>1, OverrideRateReal
  <2>2. CASE ~fx.rate_override
    BY <1>4, <2>2, RollbackRateReal
  <2> QED BY <2>1, <2>2
<1>6. Materialize(req, fx, s, c) = IF q.windowed THEN q ELSE [q EXCEPT !.rate = r]
  BY DEF Materialize
<1> HIDE DEF q, r
<1>7. [q EXCEPT !.rate = r] \in Params /\ [q EXCEPT !.rate = r].rate = r
      /\ [q EXCEPT !.rate = r].windowed = q.windowed
  BY <1>1, <1>5 DEF Params
<1>8. q = [q EXCEPT !.rate = q.rate]
  BY <1>1 DEF Params
<1> QED BY <1>1, <1>5, <1>6, <1>7, <1>8 DEF q

-----------------------------------------------------------------------------
(* The inductive invariant                                                 *)

\* During a call: pp is an attempt materialized from this call's own request
\* and snapshot, and every attempt before it was refused for good.
FlightShape ==
    InFlight =>
        /\ pp = Materialize(requested, fixes, snap, call)
        /\ SnapshotReal(snap)
        /\ ~requested.windowed =>
             snap.formats = Sampled(requested, session.upgrade_16bit)
        /\ \A i \in 1..Len(tried) : tried[i].hr = "refused"

\* Between calls: only the last attempt may have been anything but refused.
Ended ==
    ~InFlight =>
        /\ Failed => pp = requested
        /\ \A i \in 1..Len(tried) : i # Len(tried) => tried[i].hr = "refused"

\* The round in flight has the format upgrade that the plan gives it, and
\* the second round was reached by the refusals that justify it.
OwnRefused ==
    /\ tried # <<>> /\ Own(Head(tried))
    /\ \E i \in 1..Len(tried) :
          /\ Own(tried[i])
          /\ requested.windowed \/ tried[i].pp.rate = requested.rate
             \/ ~IsReal(requested.rate)

RoundShape ==
    InFlight =>
        /\ round <= Len(Upgrades(requested, session.upgrade_16bit))
        /\ fixes.format_upgrade = Upgrades(requested, session.upgrade_16bit)[round]
        /\ tried # <<>> => Head(tried).fixes.format_upgrade = session.upgrade_16bit
        /\ round = 2 => OwnRefused

\* Each format that was tried was tried at the game's own rate, except for
\* the one whose rollback is in flight.
TriedAtOwnRate(i) ==
    \E j \in 1..Len(tried) : /\ tried[j].pp.format = tried[i].pp.format
                             /\ tried[j].pp.rate = requested.rate
OwnRates ==
    ~requested.windowed /\ IsReal(requested.rate) =>
        \A i \in 1..Len(tried) :
            \/ TriedAtOwnRate(i)
            \/ /\ InFlight /\ ~fixes.rate_override
               /\ tried[i].pp.format = pp.format
            \/ ~InFlight /\ result # "refused"

IInv == TypeOK /\ FlightShape /\ Ended /\ RoundShape /\ OwnRates /\ ActiveIsLive

-----------------------------------------------------------------------------
(* Facts about one step                                                    *)

LEMMA UpgradesFit ==
    ASSUME NEW req \in Params, NEW policy \in BOOLEAN
    PROVE  LET up == Upgrades(req, policy)
           IN  /\ Len(up) \in 1..2 /\ Head(up) = policy /\ up[1] = policy
               /\ \A i \in 1..Len(up) : up[i] \in BOOLEAN
               /\ Len(up) = 2 => ~policy /\ up[2]
<1>1. CASE ~policy /\ Escalatable(req.format)
  <2>1. Upgrades(req, policy) = <<FALSE, TRUE>>
    BY <1>1 DEF Upgrades
  <2> DEFINE up == <<FALSE, TRUE>>
  <2>2. Len(up) = 2 /\ Head(up) = up[1]
    OBVIOUS
  <2>3. up[1] = FALSE /\ up[2] = TRUE
    OBVIOUS
  <2>4. policy = FALSE
    BY <1>1
  <2>5. \A i \in 1..2 : i = 1 \/ i = 2
    OBVIOUS
  <2> HIDE DEF up
  <2>6. \A i \in 1..2 : up[i] \in BOOLEAN
    BY <2>3, <2>5, Zenon
  <2>7. Len(up) \in 1..2
    BY <2>2
  <2>8. Upgrades(req, policy) = up
    BY <2>1 DEF up
  <2> QED BY <2>2, <2>3, <2>4, <2>6, <2>7, <2>8, Zenon
<1>2. CASE ~(~policy /\ Escalatable(req.format))
  <2>1. Upgrades(req, policy) = <<policy>>
    BY <1>2 DEF Upgrades
  <2> QED BY <2>1
<1> QED BY <1>1, <1>2

LEMMA Inputs ==
    /\ \A req \in Request : req \in Params
    /\ \A s \in Session : s \in SessionType
    /\ \A a \in Adapter : a \in AdapterType
BY InputsAssumption

\* The settings of a session do not change, so neither does what is made of
\* a request.
LEMMA MaterializeStable ==
    ASSUME session' = session
    PROVE  Materialize(requested, fixes, snap, call)'
             = Materialize(requested', fixes', snap', call')
BY DEF Materialize, Rewritten, OverrideRate

\* What is known of the attempt in flight.
LEMMA InFlightFits ==
    ASSUME TypeOK, FlightShape, InFlight
    PROVE  /\ pp.windowed = requested.windowed
           /\ pp.format = FormatPlan(requested.format, requested.windowed,
                                     fixes.format_upgrade)
           /\ pp.windowed => pp.rate = requested.rate
           /\ pp.lockable => requested.lockable
           /\ pp.interval # requested.interval => pp.interval = "immediate"
           /\ ~pp.windowed /\ Consumes(call) => IsReal(pp.rate)
           /\ ~pp.windowed /\ ~fixes.rate_override /\ IsReal(requested.rate)
                => pp.rate = requested.rate
<1>1. requested \in Params /\ session \in SessionType
  BY Inputs DEF TypeOK
<1>2. fixes \in FixSet /\ snap \in SnapshotType /\ call \in Calls
  BY DEF TypeOK, InFlight
<1>3. SnapshotReal(snap) /\ pp = Materialize(requested, fixes, snap, call)
  BY DEF FlightShape
<1> DEFINE q == Rewritten(requested, fixes.format_upgrade)
<1>4. /\ pp = [q EXCEPT !.rate = pp.rate]
      /\ pp.windowed => pp = q
      /\ ~pp.windowed /\ Consumes(call) => IsReal(pp.rate)
  BY <1>1, <1>2, <1>3, MaterializeFits
<1>5. /\ q \in Params /\ q.windowed = requested.windowed
      /\ q.rate = requested.rate
      /\ q.format = FormatPlan(requested.format, requested.windowed,
                               fixes.format_upgrade)
      /\ q.lockable => requested.lockable
      /\ q.interval # requested.interval => q.interval = "immediate"
  BY <1>1, <1>2, RewrittenType DEF FixSet
<1> HIDE DEF q
<1>6. /\ pp.windowed = q.windowed /\ pp.format = q.format
      /\ pp.lockable = q.lockable /\ pp.interval = q.interval
  BY <1>4, <1>5 DEF Params
<1>7. ASSUME ~pp.windowed, ~fixes.rate_override, IsReal(requested.rate)
      PROVE  pp.rate = requested.rate
  <2>1. pp = [q EXCEPT !.rate = RollbackRate(requested, snap, Consumes(call))]
    BY <1>3, <1>5, <1>6, <1>7 DEF Materialize, q
  <2>2. RollbackRate(requested, snap, Consumes(call)) = requested.rate
    BY <1>7 DEF RollbackRate
  <2> QED BY <1>5, <2>1, <2>2 DEF Params
<1> QED BY <1>4, <1>5, <1>6, <1>7

\* An answered attempt is appended to those before it.
LEMMA AnswerLogged ==
    ASSUME TypeOK, NEW hr \in Failures \cup {"ok", "null"}, tried' = Returned(hr)
    PROVE  /\ tried' \in Seq(AttemptType) /\ tried' # <<>>
           /\ Len(tried') = Len(tried) + 1
           /\ tried'[Len(tried')].pp = pp /\ tried'[Len(tried')].fixes = fixes
           /\ tried'[Len(tried')].hr = hr
           /\ Len(tried) \in Nat
           /\ \A i \in 1..Len(tried) : tried'[i] = tried[i] /\ i \in 1..Len(tried')
           /\ \A i \in 1..Len(tried') : i = Len(tried') \/ i \in 1..Len(tried)
           /\ Head(tried') = IF tried = <<>> THEN tried'[Len(tried')] ELSE Head(tried)
<1> DEFINE e == [pp |-> pp, fixes |-> fixes, hr |-> hr]
<1>1. e \in AttemptType
  BY DEF TypeOK, AttemptType
<1>2. e.pp = pp /\ e.fixes = fixes /\ e.hr = hr
  OBVIOUS
<1>3. tried' = Append(tried, e) /\ tried \in Seq(AttemptType)
  BY DEF Returned, TypeOK
<1> HIDE DEF e
<1>4. /\ tried' \in Seq(AttemptType) /\ Len(tried') = Len(tried) + 1
      /\ tried'[Len(tried')] = e /\ Len(tried) \in Nat
      /\ \A i \in 1..Len(tried) : tried'[i] = tried[i]
  BY <1>1, <1>3
<1>5. Head(tried') = IF tried = <<>> THEN tried'[Len(tried')] ELSE Head(tried)
  <2>1. CASE tried = <<>>
    BY <1>1, <1>3, <1>4, <2>1
  <2>2. CASE tried # <<>>
    BY <1>1, <1>3, <1>4, <2>2
  <2> QED BY <2>1, <2>2
<1> QED BY <1>2, <1>4, <1>5

\* Attempting is well typed, and puts what was materialized into the struct.
LEMMA AttemptFits ==
    ASSUME NEW req \in Params, NEW s \in SnapshotType, NEW c \in Calls,
           NEW fx \in FixSet, NEW n \in 1..2, session \in SessionType,
           SnapshotReal(s), session' = session, requested' = req, snap' = s,
           call' = c, Attempt(req, s, c, fx, n)
    PROVE  /\ pp' \in Params /\ fixes' = fx /\ round' = n
           /\ pp' = Materialize(requested, fixes, snap, call)'
<1>1. pp' = Materialize(req, fx, s, c) /\ fixes' = fx /\ round' = n
  BY DEF Attempt
<1>2. pp' \in Params
  BY <1>1, MaterializeFits
<1> QED BY <1>1, <1>2, MaterializeStable

-----------------------------------------------------------------------------
(* Every step preserves the invariant                                      *)

LEMMA InitEstablishes == Init => IInv
<1> SUFFICES ASSUME Init PROVE IInv
  OBVIOUS
<1>1. 0 \in Rate /\ 60 \in Rate
  BY RateAssumption
<1>2. pp \in Params
  BY Inputs DEF Init
<1>3. NoSnapshot \in SnapshotType
  BY <1>1 DEF NoSnapshot, SnapshotType
<1>4. Primary(FALSE) \in FixSet
  BY DEF Primary, FixSet
<1>5. TypeOK
  <2>1. tried \in Seq(AttemptType)
    BY DEF Init
  <2>2. /\ active \in Format /\ live \in (Format \ {"UNKNOWN"}) \cup {"none"}
        /\ result \in Failures \cup {"none", "ok", "null", "passed"}
    BY DEF Init, Format
  <2>3. /\ round \in 1..2 /\ call \in Calls \cup {"none"}
        /\ snap \in SnapshotType /\ session \in Session /\ requested \in Request
    BY <1>3 DEF Init
  <2>4. fixes \in FixSet
    BY <1>4, Zenon DEF Init
  <2> QED BY <1>2, <2>1, <2>2, <2>3, <2>4 DEF TypeOK
<1>6. ~InFlight /\ ~Failed /\ result = "none" /\ tried = <<>>
  BY DEF Init, InFlight, Failed, Failures
<1> QED BY <1>5, <1>6
      DEF IInv, FlightShape, Ended, RoundShape, OwnRates, ActiveIsLive

LEMMA EnterKeeps ==
    ASSUME IInv, NEW c \in Calls, NEW req \in Request, NEW a \in Adapter,
           Enter(c, req, a)
    PROVE  IInv'
<1> DEFINE s == Capture(req, a)
           fx == Primary(Head(Upgrades(req, session.upgrade_16bit)))
<1>1. /\ call' = c /\ requested' = req /\ snap' = s /\ tried' = <<>>
      /\ result' = "none" /\ session' = session /\ active' = active
      /\ live' = live /\ Attempt(req, s, c, fx, 1)
  BY DEF Enter
<1>2. req \in Params /\ a \in AdapterType /\ session \in SessionType
  BY Inputs DEF IInv, TypeOK
<1>3. session.upgrade_16bit \in BOOLEAN
  BY <1>2 DEF SessionType
<1>4. /\ s \in SnapshotType /\ SnapshotReal(s)
      /\ ~req.windowed => s.formats = Sampled(req, session.upgrade_16bit)
  BY <1>2, CaptureFits
<1>5. /\ Head(Upgrades(req, session.upgrade_16bit)) = session.upgrade_16bit
      /\ Upgrades(req, session.upgrade_16bit)[1] = session.upgrade_16bit
      /\ Len(Upgrades(req, session.upgrade_16bit)) \in 1..2
  BY <1>2, <1>3, UpgradesFit
<1>6. fx \in FixSet /\ fx.format_upgrade = session.upgrade_16bit
  BY <1>3, <1>5 DEF Primary, FixSet
<1> HIDE DEF s, fx
<1>7. /\ pp' \in Params /\ fixes' = fx /\ round' = 1
      /\ pp' = Materialize(requested, fixes, snap, call)'
  BY <1>1, <1>2, <1>4, <1>6, AttemptFits
<1>8. InFlight' /\ tried' = <<>> /\ Len(tried') = 0
  BY <1>1 DEF InFlight, Calls
<1>9. TypeOK'
  <2>1. tried' \in Seq(AttemptType)
    BY <1>1
  <2> QED BY <1>1, <1>4, <1>6, <1>7, <2>1 DEF IInv, TypeOK
<1>10. FlightShape'
  <2>1. (~requested.windowed =>
           snap.formats = Sampled(requested, session.upgrade_16bit))'
    BY <1>1, <1>4
  <2>2. SnapshotReal(snap)'
    BY <1>1, <1>4 DEF SnapshotReal
  <2> QED BY <1>7, <1>8, <2>1, <2>2 DEF FlightShape
<1>11. RoundShape'
  <2>1. Upgrades(requested, session.upgrade_16bit)'
          = Upgrades(req, session.upgrade_16bit)
    BY <1>1
  <2> QED BY <1>1, <1>5, <1>6, <1>7, <1>8, <2>1 DEF RoundShape
<1>12. Ended' /\ OwnRates' /\ ActiveIsLive'
  BY <1>8 DEF Ended, OwnRates, ActiveIsLive
<1> QED BY <1>9, <1>10, <1>11, <1>12 DEF IInv

LEMMA PassResetKeeps ==
    ASSUME IInv, NEW req \in Request, NEW hr \in Failures \cup {"passed"},
           PassReset(req, hr)
    PROVE  IInv'
<1>1. /\ ~InFlight' /\ tried' = <<>> /\ pp' = requested' /\ requested' = req
      /\ result' = hr
      /\ UNCHANGED <<session, snap, call, fixes, round, active>>
  BY DEF PassReset, InFlight
<1>2. req \in Params
  BY Inputs
<1>3. live' \in (Format \ {"UNKNOWN"}) \cup {"none"}
  BY <1>2 DEF PassReset, IInv, TypeOK, Params, Format, Deep
<1>4. TypeOK'
  BY <1>1, <1>2, <1>3 DEF IInv, TypeOK
<1>5. Len(tried') = 0 /\ result' # "ok"
  BY <1>1 DEF Failures
<1> QED BY <1>1, <1>4, <1>5
      DEF IInv, FlightShape, Ended, RoundShape, OwnRates, ActiveIsLive

\* The locals of a call are gone once it is over.
LEMMA ReturnFits ==
    ASSUME IInv, NEW hr \in Failures \cup {"ok", "null"}, Return(hr)
    PROVE  /\ ~InFlight' /\ result' = hr /\ call' = "none"
           /\ session' = session /\ requested' = requested
           /\ snap' \in SnapshotType /\ fixes' \in FixSet /\ round' \in 1..2
<1>1. NoSnapshot \in SnapshotType
  BY RateAssumption DEF NoSnapshot, SnapshotType
<1>2. Primary(FALSE) \in FixSet
  BY DEF Primary, FixSet
<1>3. /\ call' = "none" /\ result' = hr /\ snap' = NoSnapshot
      /\ round' = 1 /\ session' = session /\ requested' = requested
  BY DEF Return
<1>4. fixes' \in FixSet
  BY <1>2, Zenon DEF Return
<1> QED BY <1>1, <1>3, <1>4 DEF InFlight

\* What a returning step has to show beyond its own results.
LEMMA ReturnKeeps ==
    ASSUME IInv, InFlight, NEW hr \in Failures \cup {"ok", "null"},
           tried' = Returned(hr), Return(hr), pp' \in Params,
           active' \in Format, live' \in (Format \ {"UNKNOWN"}) \cup {"none"},
           hr # "ok" => pp' = requested,
           hr = "ok" /\ requested.format # "UNKNOWN" => active' = live',
           hr = "refused" /\ ~requested.windowed /\ IsReal(requested.rate)
             => pp.rate = requested.rate
    PROVE  IInv'
<1>1. /\ ~InFlight' /\ result' = hr /\ session' = session
      /\ requested' = requested /\ call' = "none"
      /\ snap' \in SnapshotType /\ fixes' \in FixSet /\ round' \in 1..2
  BY ReturnFits
<1>2. /\ tried' \in Seq(AttemptType) /\ Len(tried') = Len(tried) + 1
      /\ Len(tried) \in Nat /\ tried'[Len(tried')].pp = pp
      /\ \A i \in 1..Len(tried) : tried'[i] = tried[i] /\ i \in 1..Len(tried')
      /\ \A i \in 1..Len(tried') : i = Len(tried') \/ i \in 1..Len(tried)
  BY AnswerLogged DEF IInv
<1>3. TypeOK'
  BY <1>1, <1>2 DEF IInv, TypeOK
<1>4. Ended'
  <2>1. \A i \in 1..Len(tried') : i # Len(tried') => tried'[i].hr = "refused"
    BY <1>2 DEF IInv, FlightShape
  <2>2. (Failed => pp = requested)'
    BY <1>1 DEF Failed, Failures
  <2> QED BY <2>1, <2>2 DEF Ended
<1>5. OwnRates'
  <2> SUFFICES ASSUME ~requested.windowed, IsReal(requested.rate), hr = "refused",
                      NEW i \in 1..Len(tried')
               PROVE  TriedAtOwnRate(i)'
    BY <1>1 DEF OwnRates
  <2>1. Len(tried') \in 1..Len(tried') /\ tried'[Len(tried')].pp.rate = requested'.rate
    BY <1>1, <1>2
  <2>2. CASE i = Len(tried')
    BY <2>1, <2>2 DEF TriedAtOwnRate
  <2>3. CASE i \in 1..Len(tried)
    <3>1. tried'[i] = tried[i]
      BY <1>2, <2>3
    <3>2. CASE TriedAtOwnRate(i)
      <4>1. PICK j \in 1..Len(tried) :
              /\ tried[j].pp.format = tried[i].pp.format
              /\ tried[j].pp.rate = requested.rate
        BY <3>2 DEF TriedAtOwnRate
      <4> QED BY <1>1, <1>2, <3>1, <4>1 DEF TriedAtOwnRate
    <3>3. CASE tried[i].pp.format = pp.format
      BY <1>1, <1>2, <2>1, <3>1, <3>3 DEF TriedAtOwnRate
    <3> QED BY <2>3, <3>2, <3>3 DEF IInv, OwnRates
  <2> QED BY <1>2, <2>2, <2>3
<1>6. FlightShape' /\ RoundShape' /\ ActiveIsLive'
  BY <1>1 DEF FlightShape, RoundShape, ActiveIsLive
<1> QED BY <1>3, <1>4, <1>5, <1>6 DEF IInv

LEMMA SucceedsKeeps == ASSUME IInv, Succeeds PROVE IInv'
<1>1. /\ InFlight /\ tried' = Returned("ok") /\ Return("ok")
      /\ live' \in (IF pp.format = "UNKNOWN" THEN Deep ELSE {pp.format})
      /\ pp' = [pp EXCEPT !.format = live'] /\ active' = Recorded(pp)
  BY DEF Succeeds
<1>2. pp \in Params /\ requested \in Params /\ active \in Format
  BY Inputs DEF IInv, TypeOK
<1>3. live' \in Format \ {"UNKNOWN"}
  BY <1>1, <1>2 DEF Params, Format, Deep
<1>4. pp' \in Params
  BY <1>1, <1>2, <1>3 DEF Params
<1>5. active' \in Format
  BY <1>1, <1>2 DEF Recorded, Params
<1>6. requested.format # "UNKNOWN" => active' = live'
  <2>1. pp.format = FormatPlan(requested.format, requested.windowed,
                               fixes.format_upgrade)
    BY <1>1, InFlightFits DEF IInv
  <2>2. requested.format # "UNKNOWN" => pp.format # "UNKNOWN"
    BY <1>2, <2>1 DEF FormatPlan, Upgraded, Params, Format, Deep, Shallow
  <2> QED BY <1>1, <2>2 DEF Recorded
<1> QED BY <1>1, <1>3, <1>4, <1>5, <1>6, ReturnKeeps

LEMMA NullOnSuccessKeeps == ASSUME IInv, NullOnSuccess PROVE IInv'
<1>1. /\ InFlight /\ tried' = Returned("null") /\ Return("null")
      /\ pp' = requested /\ UNCHANGED <<active, live>>
  BY DEF NullOnSuccess, InFlight
<1>2. requested \in Params
  BY Inputs DEF IInv, TypeOK
<1> QED BY <1>1, <1>2, ReturnKeeps DEF IInv, TypeOK

LEMMA GiveUpKeeps ==
    ASSUME IInv, InFlight, NEW hr \in Failures, tried' = Returned(hr), GiveUp(hr),
           hr = "refused" /\ ~requested.windowed /\ IsReal(requested.rate)
             => pp.rate = requested.rate
    PROVE  IInv'
<1>1. requested \in Params
  BY Inputs DEF IInv, TypeOK
<1>2. Return(hr) /\ pp' = requested /\ UNCHANGED <<active, live>> /\ hr # "ok"
  BY DEF GiveUp, Failures
<1>3. active' \in Format /\ live' \in (Format \ {"UNKNOWN"}) \cup {"none"}
  BY <1>2 DEF IInv, TypeOK
<1> QED BY <1>1, <1>2, <1>3, ReturnKeeps

\* The next attempt of a call whose last one was refused for good: the
\* rollback of the same round, or the primary attempt of the second.
LEMMA ProceedKeeps ==
    ASSUME IInv, InFlight, tried' = Returned("refused"),
           NEW fx \in FixSet, NEW n \in 1..2, Proceed(fx, n),
           \/ /\ fixes.rate_override /\ ~fx.rate_override
              /\ fx.format_upgrade = fixes.format_upgrade /\ n = round
           \/ /\ n = 2 /\ round = 1
              /\ Len(Upgrades(requested, session.upgrade_16bit)) = 2
              /\ fx.format_upgrade = Upgrades(requested, session.upgrade_16bit)[2]
              /\ ~requested.windowed /\ IsReal(requested.rate)
                   => pp.rate = requested.rate
    PROVE  IInv'
<1>1. /\ requested \in Params /\ session \in SessionType /\ snap \in SnapshotType
      /\ call \in Calls /\ SnapshotReal(snap) /\ round \in 1..2
  BY Inputs DEF IInv, TypeOK, FlightShape, InFlight
<1>2. /\ Attempt(requested, snap, call, fx, n)
      /\ UNCHANGED <<session, requested, snap, call, result, active, live>>
  BY DEF Proceed
<1>3. /\ pp' \in Params /\ fixes' = fx /\ round' = n /\ InFlight'
      /\ pp' = Materialize(requested, fixes, snap, call)'
  BY <1>1, <1>2, AttemptFits DEF InFlight
<1>4. /\ tried' \in Seq(AttemptType) /\ tried' # <<>>
      /\ Len(tried') = Len(tried) + 1 /\ Len(tried) \in Nat
      /\ tried'[Len(tried')].pp = pp /\ tried'[Len(tried')].fixes = fixes
      /\ tried'[Len(tried')].hr = "refused"
      /\ \A i \in 1..Len(tried) : tried'[i] = tried[i] /\ i \in 1..Len(tried')
      /\ \A i \in 1..Len(tried') : i = Len(tried') \/ i \in 1..Len(tried)
      /\ Head(tried') = IF tried = <<>> THEN tried'[Len(tried')] ELSE Head(tried)
  <2>1. "refused" \in Failures \cup {"ok", "null"} /\ TypeOK
    BY DEF Failures, IInv
  <2> QED BY <2>1, AnswerLogged
<1>5. Len(tried') \in 1..Len(tried')
  BY <1>4
<1>6. session.upgrade_16bit \in BOOLEAN
  BY <1>1 DEF SessionType
<1>7. /\ Len(Upgrades(requested, session.upgrade_16bit)) \in 1..2
      /\ Upgrades(requested, session.upgrade_16bit)[1] = session.upgrade_16bit
      /\ Len(Upgrades(requested, session.upgrade_16bit)) = 2
           => /\ ~session.upgrade_16bit
              /\ Upgrades(requested, session.upgrade_16bit)[2]
  BY <1>1, <1>6, UpgradesFit
<1>8. Upgrades(requested, session.upgrade_16bit)'
        = Upgrades(requested, session.upgrade_16bit)
  BY <1>2
<1>9. pp.format = FormatPlan(requested.format, requested.windowed,
                             fixes.format_upgrade)
  BY InFlightFits DEF IInv
<1>10. TypeOK'
  BY <1>1, <1>2, <1>3, <1>4 DEF IInv, TypeOK
<1>11. FlightShape'
  <2>1. SnapshotReal(snap)'
    BY <1>1, <1>2 DEF SnapshotReal
  <2>2. (~requested.windowed =>
           snap.formats = Sampled(requested, session.upgrade_16bit))'
    BY <1>2 DEF IInv, FlightShape
  <2>3. \A i \in 1..Len(tried') : tried'[i].hr = "refused"
    BY <1>4 DEF IInv, FlightShape
  <2> QED BY <1>3, <2>1, <2>2, <2>3 DEF FlightShape
<1>12. RoundShape'
  <2>1. round' <= Len(Upgrades(requested, session.upgrade_16bit))'
    BY <1>2, <1>3, <1>7, <1>8 DEF IInv, RoundShape
  <2>2. fixes'.format_upgrade = Upgrades(requested, session.upgrade_16bit)'[round']
    BY <1>2, <1>3, <1>8 DEF IInv, RoundShape
  <2>3. Head(tried').fixes.format_upgrade = session.upgrade_16bit
    <3>1. CASE tried = <<>>
      <4>1. Head(tried').fixes = fixes
        BY <1>4, <3>1
      <4>2. round = 1
        BY <1>1, <3>1 DEF IInv, RoundShape, OwnRefused
      <4> QED BY <1>7, <4>1, <4>2 DEF IInv, RoundShape
    <3>2. CASE tried # <<>>
      BY <1>4, <3>2 DEF IInv, RoundShape
    <3> QED BY <3>1, <3>2
  <2>4. ASSUME n = 2 PROVE OwnRefused'
    <3>1. CASE round = 2
      <4>1. OwnRefused
        BY <3>1 DEF IInv, RoundShape
      <4>2. PICK i \in 1..Len(tried) :
              /\ Own(tried[i])
              /\ requested.windowed \/ tried[i].pp.rate = requested.rate
                 \/ ~IsReal(requested.rate)
        BY <4>1 DEF OwnRefused
      <4>3. i \in 1..Len(tried') /\ tried'[i] = tried[i]
        BY <1>4
      <4>4. Own(Head(tried'))
        BY <1>4, <4>1 DEF OwnRefused
      <4> QED BY <1>2, <1>4, <4>2, <4>3, <4>4 DEF OwnRefused, Own
    <3>2. CASE round = 1
      <4>1. /\ Len(Upgrades(requested, session.upgrade_16bit)) = 2
            /\ ~requested.windowed /\ IsReal(requested.rate)
                 => pp.rate = requested.rate
        BY <2>4, <3>2
      <4>2. ~session.upgrade_16bit /\ fixes.format_upgrade = session.upgrade_16bit
        BY <1>7, <3>2, <4>1 DEF IInv, RoundShape
      <4>3. Own(Head(tried')) /\ Own(tried'[Len(tried')])
        BY <1>4, <2>3, <4>2 DEF Own
      <4> QED BY <1>2, <1>4, <1>5, <4>1, <4>3 DEF OwnRefused, Own
    <3> QED BY <1>1, <3>1, <3>2
  <2> QED BY <1>2, <1>3, <2>1, <2>2, <2>3, <2>4 DEF RoundShape
<1>13. OwnRates'
  <2> SUFFICES ASSUME ~requested.windowed, IsReal(requested.rate),
                      NEW i \in 1..Len(tried')
               PROVE  \/ TriedAtOwnRate(i)'
                      \/ ~fx.rate_override /\ tried'[i].pp.format = pp'.format
    BY <1>2, <1>3 DEF OwnRates
  <2>1. CASE i \in 1..Len(tried) /\ TriedAtOwnRate(i)
    <3>1. PICK j \in 1..Len(tried) :
            /\ tried[j].pp.format = tried[i].pp.format
            /\ tried[j].pp.rate = requested.rate
      BY <2>1 DEF TriedAtOwnRate
    <3> QED BY <1>2, <1>4, <2>1, <3>1 DEF TriedAtOwnRate
  <2>2. CASE i = Len(tried') /\ pp.rate = requested.rate
    BY <1>2, <1>4, <1>5, <2>2 DEF TriedAtOwnRate
  <2>3. CASE i \in 1..Len(tried) /\ tried[i].pp.format = pp.format
             /\ pp.rate = requested.rate
    BY <1>2, <1>4, <1>5, <2>3 DEF TriedAtOwnRate
  <2>4. CASE fixes.rate_override /\ ~fx.rate_override
             /\ fx.format_upgrade = fixes.format_upgrade
    <3>1. pp'.format = pp.format
      <4>1. LET q == Rewritten(requested, fx.format_upgrade)
            IN  pp' = [q EXCEPT !.rate = pp'.rate]
        BY <1>1, <1>2, MaterializeFits DEF Attempt
      <4>2. /\ Rewritten(requested, fx.format_upgrade) \in Params
            /\ Rewritten(requested, fx.format_upgrade).format
                 = FormatPlan(requested.format, requested.windowed, fx.format_upgrade)
        BY <1>1, RewrittenType DEF FixSet
      <4> QED BY <1>9, <2>4, <4>1, <4>2 DEF Params
    <3>2. i \in 1..Len(tried) => TriedAtOwnRate(i)
      BY <2>4 DEF IInv, OwnRates
    <3> QED BY <1>4, <2>1, <2>4, <3>1, <3>2
  <2>5. CASE pp.rate = requested.rate
    <3>1. i \in 1..Len(tried) =>
            TriedAtOwnRate(i) \/ tried[i].pp.format = pp.format
      BY DEF IInv, OwnRates
    <3> QED BY <1>4, <2>1, <2>2, <2>3, <2>5, <3>1
  <2> QED BY <2>4, <2>5
<1>14. Ended' /\ ActiveIsLive'
  BY <1>3 DEF Ended, ActiveIsLive
<1> QED BY <1>10, <1>11, <1>12, <1>13, <1>14 DEF IInv

LEMMA FailsKeeps == ASSUME IInv, NEW hr \in Failures, Fails(hr) PROVE IInv'
<1> DEFINE up == Upgrades(requested, session.upgrade_16bit)
<1>1. InFlight /\ tried' = Returned(hr)
  BY DEF Fails
<1>2. requested \in Params /\ session.upgrade_16bit \in BOOLEAN /\ fixes \in FixSet
      /\ round \in 1..2
  BY Inputs DEF IInv, TypeOK, SessionType
<1>3. /\ Len(up) \in 1..2 /\ \A i \in 1..Len(up) : up[i] \in BOOLEAN
      /\ round <= Len(up)
  BY <1>1, <1>2, UpgradesFit DEF IInv, RoundShape
<1>4. pp.windowed = requested.windowed /\ (~pp.windowed /\ ~fixes.rate_override
        /\ IsReal(requested.rate) => pp.rate = requested.rate)
  BY <1>1, InFlightFits DEF IInv
<1>5. CASE fixes.rate_override /\ OverrodeRate /\ hr = "transient"
  <2>1. GiveUp(hr)
    BY <1>5 DEF Fails
  <2> QED BY <1>1, <1>5, <2>1, GiveUpKeeps
<1>6. CASE fixes.rate_override /\ OverrodeRate /\ hr # "transient"
  <2>1. hr = "refused" /\ Proceed(Rollback(fixes.format_upgrade), round)
    BY <1>6 DEF Fails, Failures
  <2>2. /\ Rollback(fixes.format_upgrade) \in FixSet
        /\ ~Rollback(fixes.format_upgrade).rate_override
        /\ Rollback(fixes.format_upgrade).format_upgrade = fixes.format_upgrade
    BY <1>2 DEF Rollback, FixSet
  <2> QED BY <1>1, <1>2, <1>6, <2>1, <2>2, ProceedKeeps
<1>7. CASE ~(fixes.rate_override /\ OverrodeRate)
  <2>1. NextRound(hr)
    BY <1>7 DEF Fails
  <2>2. ~requested.windowed /\ IsReal(requested.rate) => pp.rate = requested.rate
    BY <1>4, <1>7 DEF OverrodeRate
  <2>3. CASE hr = "refused" /\ round < Len(up)
    <3>1. round = 1 /\ Len(up) = 2 /\ Proceed(Primary(up[2]), 2)
      BY <1>2, <1>3, <2>1, <2>3 DEF NextRound
    <3>2. up[2] \in BOOLEAN
      BY <1>3, <3>1
    <3>3. Primary(up[2]) \in FixSet /\ Primary(up[2]).format_upgrade = up[2]
      BY <3>2 DEF Primary, FixSet
    <3> HIDE DEF up
    <3>4. 2 \in 1..2
      OBVIOUS
    <3> QED BY <1>1, <2>2, <2>3, <3>1, <3>3, <3>4, ProceedKeeps DEF up
  <2>4. CASE ~(hr = "refused" /\ round < Len(up))
    <3>1. GiveUp(hr)
      BY <2>1, <2>4 DEF NextRound
    <3> QED BY <1>1, <2>2, <3>1, GiveUpKeeps
  <2> QED BY <2>3, <2>4
<1> QED BY <1>5, <1>6, <1>7

LEMMA StepKeeps == ASSUME IInv, [Next]_vars PROVE IInv'
<1>1. ASSUME NEW c \in Calls, NEW req \in Request, NEW a \in Adapter,
             Enter(c, req, a)
      PROVE  IInv'
  BY <1>1, EnterKeeps
<1>2. ASSUME NEW req \in Request, NEW hr \in Failures \cup {"passed"},
             PassReset(req, hr)
      PROVE  IInv'
  BY <1>2, PassResetKeeps
<1>3. CASE Succeeds
  BY <1>3, SucceedsKeeps
<1>4. CASE NullOnSuccess
  BY <1>4, NullOnSuccessKeeps
<1>5. ASSUME NEW hr \in Failures, Fails(hr) PROVE IInv'
  BY <1>5, FailsKeeps
<1>6. CASE UNCHANGED vars
  BY <1>6 DEF vars, IInv, TypeOK, FlightShape, Ended, RoundShape, OwnRates,
              ActiveIsLive, InFlight, Failed, Own, OwnRefused, TriedAtOwnRate,
              SnapshotReal, Materialize, Rewritten, OverrideRate
<1> QED BY <1>1, <1>2, <1>3, <1>4, <1>5, <1>6 DEF Next

LEMMA Invariance == Spec => []IInv
<1>1. Init => IInv
  BY InitEstablishes
<1>2. IInv /\ [Next]_vars => IInv'
  BY StepKeeps
<1> QED BY <1>1, <1>2, PTL DEF Spec

-----------------------------------------------------------------------------
(* Theorems                                                                *)

\* Every rate and format that reaches the game's struct is of the kinds the
\* code knows (rewrite_present_params_impl, materialize).
THEOREM TypeCorrect == Spec => []TypeOK
<1>1. IInv => TypeOK
  BY DEF IInv
<1> QED BY <1>1, Invariance, PTL

\* Whatever the runtime answers, a failed create or reset leaves the game's
\* present parameters as the game wrote them (run_fix_ladder's exits).
THEOREM RequestRestored == Spec => []FailureRestores
<1>1. IInv => FailureRestores
  BY DEF IInv, Ended, FailureRestores
<1> QED BY <1>1, Invariance, PTL

\* The ladder stops at the first answer that is not a refusal.
THEOREM StopsWhenAnswered == Spec => []TransientEndsIt
<1>1. IInv => TransientEndsIt
  BY DEF IInv, Ended, FlightShape, TransientEndsIt
<1> QED BY <1>1, Invariance, PTL

\* A game that is refused was refused at its own refresh rate.
THEOREM RefusedAtOwnRate == Spec => []OwnRateTried
<1>1. IInv => OwnRateTried
  BY DEF IInv, OwnRates, TriedAtOwnRate, OwnRateTried
<1> QED BY <1>1, Invariance, PTL

\* The display modes passed to the Ex entry points carry real rates, and the
\* tables that the picks come from are those of the formats asked for.
THEOREM ModesCanExist == Spec => [](ModesAreReal /\ RatesWereSampled)
<1>1. IInv => ModesAreReal
  BY InFlightFits DEF IInv, ModesAreReal
<1>2. IInv => RatesWereSampled
  <2> SUFFICES ASSUME IInv, InFlight, ~pp.windowed
               PROVE  pp.format \in snap.formats
    BY DEF RatesWereSampled
  <2>1. /\ pp.windowed = requested.windowed
        /\ pp.format = FormatPlan(requested.format, requested.windowed,
                                  fixes.format_upgrade)
    BY InFlightFits DEF IInv
  <2>2. requested.windowed = FALSE
    <3>1. requested \in Params
      BY Inputs DEF IInv, TypeOK
    <3> QED BY <2>1, <3>1 DEF Params
  <2>3. snap.formats = Sampled(requested, session.upgrade_16bit)
    BY <2>2 DEF IInv, FlightShape
  <2>4. fixes.format_upgrade = session.upgrade_16bit \/ fixes.format_upgrade = TRUE
    <3>1. requested \in Params /\ session.upgrade_16bit \in BOOLEAN /\ round \in 1..2
          /\ fixes.format_upgrade \in BOOLEAN
      BY Inputs DEF IInv, TypeOK, SessionType, FixSet
    <3>2. /\ round <= Len(Upgrades(requested, session.upgrade_16bit))
          /\ fixes.format_upgrade = Upgrades(requested, session.upgrade_16bit)[round]
      BY DEF IInv, RoundShape
    <3>3. /\ Len(Upgrades(requested, session.upgrade_16bit)) \in 1..2
          /\ Upgrades(requested, session.upgrade_16bit)[1] = session.upgrade_16bit
          /\ Len(Upgrades(requested, session.upgrade_16bit)) = 2
               => Upgrades(requested, session.upgrade_16bit)[2]
      BY <3>1, UpgradesFit
    <3>4. CASE round = 1
      BY <3>2, <3>3, <3>4
    <3>5. CASE round = 2
      <4>1. Len(Upgrades(requested, session.upgrade_16bit)) = 2
        BY <3>2, <3>3, <3>5, SMT
      <4>2. fixes.format_upgrade
        <5>1. fixes.format_upgrade = Upgrades(requested, session.upgrade_16bit)[2]
          BY <3>2, <3>5
        <5>2. Upgrades(requested, session.upgrade_16bit)[2]
          BY <3>3, <4>1
        <5> QED BY <5>1, <5>2, Zenon
      <4> QED BY <3>1, <4>2, Zenon
    <3>6. round = 1 \/ round = 2
      BY <3>1
    <3> QED BY <3>4, <3>5, <3>6, Zenon
  <2>5. \/ pp.format = FormatPlan(requested.format, FALSE, session.upgrade_16bit)
        \/ pp.format = FormatPlan(requested.format, FALSE, TRUE)
    BY <2>1, <2>2, <2>4, Zenon
  <2> QED BY <2>3, <2>5, Zenon DEF Sampled
<1> QED BY <1>1, <1>2, Invariance, PTL

\* A format is substituted on escalation only when the game's own was refused.
THEOREM EscalationIsEarned == Spec => []UpgradeIsLastResort
<1>1. IInv => UpgradeIsLastResort
  <2> SUFFICES ASSUME IInv, InFlight, fixes.format_upgrade, ~session.upgrade_16bit
               PROVE  OwnRefused
    BY DEF UpgradeIsLastResort, OwnRefused
  <2>1. requested \in Params /\ session.upgrade_16bit \in BOOLEAN /\ round \in 1..2
    BY Inputs DEF IInv, TypeOK, SessionType
  <2>2. Upgrades(requested, session.upgrade_16bit)[1] = session.upgrade_16bit
    BY <2>1, UpgradesFit
  <2>3. round # 1
    BY <2>2 DEF IInv, RoundShape
  <2> QED BY <2>1, <2>3 DEF IInv, RoundShape
<1> QED BY <1>1, Invariance, PTL

\* The format recorded for the rest of neopatch is the live device's after
\* every success through the ladder.
THEOREM FormatRecorded == Spec => []ActiveIsLive
<1>1. IInv => ActiveIsLive
  BY DEF IInv
<1> QED BY <1>1, Invariance, PTL

-----------------------------------------------------------------------------
(* The ladder implements DeviceCall                                        *)

\* What the ladder attempts is something DeviceCall may grant.
LEMMA AttemptGranted ==
    ASSUME IInv, InFlight
    PROVE  \A f \in Format :
              f = pp.format \/ (pp.format = "UNKNOWN" /\ f \in Deep)
              => Device!Grants(requested, [pp EXCEPT !.format = f])
<1> SUFFICES ASSUME NEW f \in Format,
                    f = pp.format \/ (pp.format = "UNKNOWN" /\ f \in Deep)
             PROVE  Device!Grants(requested, [pp EXCEPT !.format = f])
  OBVIOUS
<1>1. requested \in Params /\ pp \in Params /\ fixes.format_upgrade \in BOOLEAN
  BY Inputs DEF IInv, TypeOK, FixSet
<1>2. /\ pp.windowed = requested.windowed
      /\ pp.format = FormatPlan(requested.format, requested.windowed,
                                fixes.format_upgrade)
      /\ pp.windowed => pp.rate = requested.rate
      /\ pp.lockable => requested.lockable
      /\ pp.interval # requested.interval => pp.interval = "immediate"
  BY InFlightFits DEF IInv
<1> DEFINE q == [pp EXCEPT !.format = f]
<1>3. /\ q.windowed = pp.windowed /\ q.format = f /\ q.rate = pp.rate
      /\ q.lockable = pp.lockable /\ q.interval = pp.interval
  BY <1>1 DEF Params
<1>4. /\ requested.format \in Format /\ requested.windowed \in BOOLEAN
      /\ pp.format \in Format
  BY <1>1 DEF Params
<1>5. pp.format = "UNKNOWN" => requested.format = "UNKNOWN"
  BY <1>2, <1>4 DEF FormatPlan, Upgraded, Format, Deep, Shallow
<1>6. /\ pp.format # requested.format => pp.format \in Deep
      /\ requested.format = "A8R8G8B8" /\ requested.windowed => pp.format = requested.format
      /\ requested.format = "X8R8G8B8" => pp.format = requested.format
      /\ ~requested.windowed => pp.format # "A8R8G8B8"
  BY <1>2, <1>4 DEF FormatPlan, Upgraded, Format, Deep, Shallow
<1> HIDE DEF q
<1> QED BY <1>2, <1>3, <1>4, <1>5, <1>6 DEF Device!Grants, Device!Wide, Deep, q

\* Every step of a call, down to the last rollback, is a stutter or one step
\* of DeviceCall: the ladder is atomic to the game.
THEOREM ImplementsDeviceCall == Spec => KeepsDeviceCall
<1>1. Init => Device!Init
  BY DEF Init, InFlight, Device!Init
<1>2. IInv /\ [Next]_vars => [Device!Next]_(Device!vars)
  <2> SUFFICES ASSUME IInv, [Next]_vars
               PROVE  Device!Next \/ UNCHANGED Device!vars
    OBVIOUS
  <2> DEFINE seen == IF InFlight THEN requested ELSE pp
  <2>1. ASSUME NEW c \in Calls, NEW req \in Request, NEW a \in Adapter,
               Enter(c, req, a)
        PROVE  Device!Next
    <3>1. call' = c /\ requested' = req /\ live' = live
      BY <2>1 DEF Enter
    <3>2. seen' = req
      BY <3>1 DEF InFlight, Calls
    <3> QED BY <3>1, <3>2 DEF Device!Next, Device!Ask
  <2>2. ASSUME NEW req \in Request, NEW hr \in Failures \cup {"passed"},
               PassReset(req, hr)
        PROVE  Device!Next
    <3>1. /\ ~InFlight' /\ pp' = req /\ live # "none"
          /\ live' \in IF hr # "passed" THEN {live}
                       ELSE IF req.format = "UNKNOWN" THEN Deep ELSE {req.format}
      BY <2>2 DEF PassReset, InFlight
    <3>2. seen' = req
      BY <3>1
    <3>3. CASE hr = "passed"
      <4>1. live' \in IF req.format = "UNKNOWN" THEN Device!Wide ELSE {req.format}
        BY <3>1, <3>3 DEF Device!Wide, Deep
      <4>2. Device!Plain(req)
        BY <3>1, <3>2, <4>1 DEF Device!Plain
      <4> QED BY <4>2 DEF Device!Next
    <3>4. CASE hr # "passed"
      BY <3>1, <3>2, <3>4 DEF Device!Next, Device!Ask
    <3> QED BY <3>3, <3>4
  <2>3. CASE Succeeds
    <3>1. /\ InFlight /\ ~InFlight' /\ pp' = [pp EXCEPT !.format = live']
          /\ live' \in IF pp.format = "UNKNOWN" THEN Deep ELSE {pp.format}
      BY <2>3 DEF Succeeds, Return, InFlight
    <3>2. pp \in Params
      BY DEF IInv, TypeOK
    <3>3. /\ live' \in Format
          /\ live' = pp.format \/ (pp.format = "UNKNOWN" /\ live' \in Deep)
      <4>1. pp.format \in Format
        BY <3>2 DEF Params
      <4>2. Deep \subseteq Format
        BY DEF Format
      <4> QED BY <3>1, <4>1, <4>2
    <3>4. Device!Grants(requested, pp')
      BY <3>1, <3>3, AttemptGranted
    <3>5. live' = pp'.format
      BY <3>1, <3>2 DEF Params
    <3> QED BY <3>1, <3>4, <3>5 DEF Device!Next, Device!Grant
  <2>4. CASE NullOnSuccess
    BY <2>4 DEF NullOnSuccess, Return, InFlight, Device!vars
  <2>5. ASSUME NEW hr \in Failures, Fails(hr) PROVE UNCHANGED Device!vars
    <3>1. InFlight
      BY <2>5 DEF Fails
    <3>2. CASE GiveUp(hr)
      BY <3>1, <3>2 DEF GiveUp, Return, InFlight, Device!vars
    <3>3. ASSUME NEW fx, NEW n, Proceed(fx, n) PROVE UNCHANGED Device!vars
      BY <3>1, <3>3 DEF Proceed, InFlight, Device!vars
    <3> QED BY <2>5, <3>2, <3>3 DEF Fails, NextRound
  <2>6. CASE UNCHANGED vars
    BY <2>6 DEF vars, InFlight, Device!vars
  <2> QED BY <2>1, <2>2, <2>3, <2>4, <2>5, <2>6 DEF Next
<1> QED BY <1>1, <1>2, Invariance, PTL DEF Spec, KeepsDeviceCall, Device!Spec
=============================================================================
