------------------------------ MODULE FixLadder ------------------------------
(***************************************************************************)
(* How neopatch_core/src/d3d9.rs carries one CreateDevice or Reset call of *)
(* the game to Direct3D 9Ex: the game's present parameters are rewritten,  *)
(* the call is attempted, and what fails is attempted again with fewer or  *)
(* more modifications, down a ladder of at most two rounds of a primary    *)
(* attempt and a rollback to the game's own refresh rate.                  *)
(*                                                                         *)
(* The Direct3D 9 runtime is the environment: every attempt may succeed,   *)
(* fail for good or fail transiently (device lost).  pp is the struct in   *)
(* the game's memory, so the game reads what a call leaves there.          *)
(* Sizes, swap effects and the other fields that are never rewritten are   *)
(* not modelled.  A null pp is passed on bare, changes nothing here, and   *)
(* is left out.                                                            *)
(***************************************************************************)
EXTENDS Integers, Sequences, FiniteSetsExt

CONSTANTS
    Rate,      \* refresh rates that occur, 0 and 1 being magic values
    Request,   \* present parameters that the game may ask for
    Adapter,   \* what the adapter may report when a call begins
    Session    \* the settings that a session may run with

Deep == {"X8R8G8B8", "A8R8G8B8"}
Shallow == {"R5G6B5", "X1R5G5B5", "A1R5G5B5"}
Format == Deep \cup Shallow \cup {"UNKNOWN"}
Params == [windowed : BOOLEAN, format : Format, rate : Rate,
           lockable : BOOLEAN, interval : {"game", "immediate"}]
FixSet == [rate_override : BOOLEAN, format_upgrade : BOOLEAN]
\* 0 stands for a display mode that could not be read: like a magic rate,
\* it is never used.
AdapterType == [desktop : Rate, win32 : Rate, modes : [Format -> SUBSET Rate]]
RefreshRateMode == [kind : {"Native", "NativeMultiple", "Fixed"}, target : Rate]
SessionType == [keep_lockable : BOOLEAN, upgrade_16bit : BOOLEAN,
                paced : BOOLEAN, mode : RefreshRateMode, reset_ex : BOOLEAN]

ASSUME RateAssumption ==
    /\ Rate \subseteq Nat /\ {0, 1, 60} \subseteq Rate
    /\ \A S \in (SUBSET Rate) \ {{}} :
          \E lo, hi \in S : \A r \in S : lo <= r /\ r <= hi
ASSUME InputsAssumption ==
    /\ Request \subseteq Params
    /\ Adapter \subseteq AdapterType
    /\ Session \subseteq SessionType

VARIABLES
    session,    \* present-parameter policy, pacer and refresh-rate settings
    pp,         \* D3DPRESENT_PARAMETERS, in the game's memory
    requested,  \* the game's request, copied when the call begins
    snap,       \* AdapterSnapshot of the call
    call,       \* "none", or the entry point that the attempts go to
    fixes,      \* the FixSet of the attempt that is in flight
    round,      \* 1 or 2
    tried,      \* the attempts of the call that have come back
    result,     \* how the last call ended, as the game sees it
    active,     \* ACTIVE_BACK_BUFFER_FORMAT, UNKNOWN before the first device
    live        \* D3D9: the live device's back buffer format, if any

vars == <<session, pp, requested, snap, call, fixes, round, tried, result,
          active, live>>

Calls == {"CreateDeviceEx", "ResetEx", "Reset"}
Failures == {"transient", "refused"}
InFlight == call # "none"

-----------------------------------------------------------------------------
(* Refresh rates                                                           *)

IsReal(r) == r > 1

\* Rates are compared with a skew of one, for 59.94 Hz is reported as 59.
Near(S, desktop) == {r \in S : r <= desktop + 1}

NativeRate(S, desktop) ==
    IF S = {} THEN desktop
    ELSE IF Near(S, desktop) = {} THEN Min(S) ELSE Max(Near(S, desktop))

Multiples(S) == {r \in S : r % 60 = 0 \/ (r + 1) % 60 = 0}

PickRate(mode, S, desktop) ==
    CASE mode.kind = "Fixed" ->
            IF mode.target \in S THEN mode.target
            ELSE IF mode.target - 1 \in S THEN mode.target - 1
            ELSE mode.target
      [] mode.kind = "NativeMultiple"
            /\ Near(Multiples(S), desktop) # {} ->
            Max(Near(Multiples(S), desktop))
      [] OTHER -> NativeRate(S, desktop)

-----------------------------------------------------------------------------
(* Back buffer formats                                                     *)

Escalatable(f) == f \in Shallow

Upgraded(f) ==
    CASE f \in {"R5G6B5", "X1R5G5B5"} -> "X8R8G8B8"
      [] f = "A1R5G5B5" -> "A8R8G8B8"
      [] OTHER -> f

\* A8R8G8B8 cannot be scanned out, so a fullscreen back buffer never has it.
FormatPlan(f, windowed, upgrade) ==
    LET up == IF upgrade THEN Upgraded(f) ELSE f
    IN  IF ~windowed /\ up = "A8R8G8B8" THEN "X8R8G8B8" ELSE up

-----------------------------------------------------------------------------
(* The adapter, sampled once per call                                      *)

Enumerated(modes) == {r \in modes : IsReal(r)}

\* The formats whose rates a fullscreen call may need.
Sampled(req, upgrade) ==
    {FormatPlan(req.format, FALSE, upgrade), FormatPlan(req.format, FALSE, TRUE)}

WillPick(req) == session.paced \/ ~IsReal(req.rate)

Capture(req, a) ==
    IF req.windowed THEN [desktop |-> 0, desktop_rate |-> 60,
                          formats |-> {}, rates |-> [f \in Format |-> {}]]
    ELSE LET S == Sampled(req, session.upgrade_16bit)
         IN  [desktop |-> a.desktop,
              desktop_rate |-> IF ~WillPick(req) THEN 60
                               ELSE IF IsReal(a.desktop) THEN a.desktop
                               ELSE IF IsReal(a.win32) THEN a.win32
                               ELSE 60,
              formats |-> S,
              rates |-> [f \in Format |->
                            IF f \in S THEN Enumerated(a.modes[f]) ELSE {}]]

-----------------------------------------------------------------------------
(* The ladder                                                              *)

\* One round, or a second one that upgrades a 16-bit request which the
\* policy of the session would have left alone.
Upgrades(req, policy) ==
    IF ~policy /\ Escalatable(req.format) THEN <<FALSE, TRUE>> ELSE <<policy>>

Rewritten(req, upgrade) ==
    [req EXCEPT !.format = FormatPlan(req.format, req.windowed, upgrade),
                !.lockable = @ /\ session.keep_lockable,
                !.interval = IF session.paced THEN "immediate" ELSE @]

\* Faulty variant: a magic rate is only resolved when it was picked.
OverrideRateMagic(req, rates, desktop_rate) ==
    IF session.paced /\ IsReal(session.mode.target)
    THEN PickRate(session.mode, rates, desktop_rate)
    ELSE req.rate

\* The rate of a primary attempt: the configured pick, and never a magic one.
OverrideRate(req, rates, desktop_rate) ==
    LET r == IF session.paced THEN PickRate(session.mode, rates, desktop_rate)
             ELSE req.rate
    IN  IF IsReal(r) THEN r ELSE NativeRate(rates, desktop_rate)

\* The rate of a rollback: the game's own. The Ex calls take it in a display
\* mode as well, where a magic value has to become a real one.
RollbackRate(req, s, consumes) ==
    IF IsReal(req.rate) \/ ~consumes THEN req.rate
    ELSE IF IsReal(s.desktop) THEN s.desktop ELSE 60

Consumes(c) == c # "Reset"

Materialize(req, fx, s, c) ==
    LET p == Rewritten(req, fx.format_upgrade) IN
    IF p.windowed THEN p
    ELSE [p EXCEPT !.rate =
            IF fx.rate_override
            THEN OverrideRate(req, s.rates[p.format], s.desktop_rate)
            ELSE RollbackRate(req, s, Consumes(c))]

Primary(upgrade) == [rate_override |-> TRUE, format_upgrade |-> upgrade]
Rollback(upgrade) == [rate_override |-> FALSE, format_upgrade |-> upgrade]

OverrodeRate == ~pp.windowed /\ pp.rate # requested.rate

-----------------------------------------------------------------------------
(* A call, attempt by attempt                                              *)

NoSnapshot == [desktop |-> 0, desktop_rate |-> 60, formats |-> {},
               rates |-> [f \in Format |-> {}]]

Init ==
    /\ session \in Session
    /\ pp \in Request /\ requested = pp
    /\ snap = NoSnapshot
    /\ call = "none" /\ fixes = Primary(FALSE) /\ round = 1
    /\ tried = <<>> /\ result = "none"
    /\ active = "UNKNOWN" /\ live = "none"

Attempt(req, s, c, fx, n) ==
    /\ pp' = Materialize(req, fx, s, c)
    /\ fixes' = fx /\ round' = n

\* hook_create_device, and hook_reset once the device's parent is known.
Enter(c, req, a) ==
    LET s == Capture(req, a)
    IN  /\ ~InFlight
        /\ c = "CreateDeviceEx" \/ live # "none"
        /\ c # (IF session.reset_ex THEN "Reset" ELSE "ResetEx")
        /\ call' = c /\ requested' = req /\ snap' = s
        /\ tried' = <<>> /\ result' = "none"
        /\ Attempt(req, s, c,
                   Primary(Head(Upgrades(req, session.upgrade_16bit))), 1)
        /\ UNCHANGED <<session, active, live>>

\* hook_reset when the parent query failed: the game's own Reset goes through.
PassReset(req, hr) ==
    /\ ~InFlight /\ live # "none"
    /\ requested' = req /\ pp' = req /\ tried' = <<>> /\ result' = hr
    /\ live' \in IF hr # "passed" THEN {live}
                 ELSE IF req.format = "UNKNOWN" THEN Deep ELSE {req.format}
    /\ UNCHANGED <<session, snap, call, fixes, round, active>>

Returned(hr) == Append(tried, [pp |-> pp, fixes |-> fixes, hr |-> hr])

Return(hr) ==
    /\ call' = "none" /\ result' = hr
    /\ snap' = NoSnapshot /\ fixes' = Primary(FALSE) /\ round' = 1
    /\ UNCHANGED <<session, requested>>

\* An UNKNOWN request leaves the format to the runtime and is not recorded.
Recorded(attempt) ==
    IF attempt.format = "UNKNOWN" THEN active ELSE attempt.format

\* The runtime writes the format it settled on back to the game's struct.
Succeeds ==
    /\ InFlight
    /\ tried' = Returned("ok")
    /\ live' \in IF pp.format = "UNKNOWN" THEN Deep ELSE {pp.format}
    /\ pp' = [pp EXCEPT !.format = live']
    /\ active' = Recorded(pp)
    /\ Return("ok")

\* CreateDeviceEx reports success without a device.
NullOnSuccess ==
    /\ call = "CreateDeviceEx"
    /\ tried' = Returned("null")
    /\ pp' = requested
    /\ Return("null")
    /\ UNCHANGED <<active, live>>

\* Faulty variant: leaves the last rewrite in the game's struct.
GiveUpRewritten(hr) ==
    /\ Return(hr)
    /\ UNCHANGED <<pp, active, live>>

GiveUp(hr) ==
    /\ pp' = requested
    /\ Return(hr)
    /\ UNCHANGED <<active, live>>

Proceed(fx, n) ==
    /\ Attempt(requested, snap, call, fx, n)
    /\ UNCHANGED <<session, requested, snap, call, result, active, live>>

\* The round is over; only a failure for good leads to the next one.
NextRound(hr) ==
    LET up == Upgrades(requested, session.upgrade_16bit)
    IN  IF hr = "refused" /\ round < Len(up)
        THEN Proceed(Primary(up[round + 1]), round + 1)
        ELSE GiveUp(hr)

Fails(hr) ==
    /\ InFlight
    /\ tried' = Returned(hr)
    /\ IF fixes.rate_override /\ OverrodeRate
       THEN IF hr = "transient" THEN GiveUp(hr)
            ELSE Proceed(Rollback(fixes.format_upgrade), round)
       ELSE NextRound(hr)

Next ==
    \/ \E c \in Calls, req \in Request, a \in Adapter : Enter(c, req, a)
    \/ \E req \in Request, hr \in Failures \cup {"passed"} : PassReset(req, hr)
    \/ Succeeds
    \/ NullOnSuccess
    \/ \E hr \in Failures : Fails(hr)

Spec == Init /\ [][Next]_vars

-----------------------------------------------------------------------------
(* Properties                                                              *)

AttemptType == [pp : Params, fixes : FixSet, hr : Failures \cup {"ok", "null"}]
SnapshotType == [desktop : Rate, desktop_rate : Rate, formats : SUBSET Format,
                 rates : [Format -> SUBSET Rate]]

\* The state keeps its type; every rate that is ever put in the game's
\* struct is one that the game, the adapter or the configuration named.
TypeOK ==
    /\ session \in Session
    /\ pp \in Params /\ requested \in Request
    /\ snap \in SnapshotType
    /\ call \in Calls \cup {"none"}
    /\ fixes \in FixSet /\ round \in 1..2
    /\ tried \in Seq(AttemptType)
    /\ result \in Failures \cup {"none", "ok", "null", "passed"}
    /\ active \in Format /\ live \in (Format \ {"UNKNOWN"}) \cup {"none"}

Failed == result \in Failures \cup {"null"}
Own(a) == ~a.fixes.format_upgrade

\* A call that fails leaves the game's request as the game wrote it, so that
\* a retry starts from the game's own values and not from our rewrites.
FailureRestores == ~InFlight /\ Failed => pp = requested

\* Nothing is attempted after a transient failure, or after a success: a
\* lost device is not an answer about the parameters.
TransientEndsIt ==
    \A i \in 1..Len(tried) :
        tried[i].hr # "refused" => ~InFlight /\ i = Len(tried)

\* A fullscreen request is refused for good only after the game's own refresh
\* rate was tried in every format that was.
OwnRateTried ==
    ~InFlight /\ result = "refused" /\ ~requested.windowed /\ IsReal(requested.rate)
    => \A i \in 1..Len(tried) :
          \E j \in 1..Len(tried) : /\ tried[j].pp.format = tried[i].pp.format
                                   /\ tried[j].pp.rate = requested.rate

\* The display mode of a fullscreen Ex call never carries a magic rate,
\* whatever the game asked for and whatever the adapter failed to report.
ModesAreReal ==
    InFlight /\ Consumes(call) /\ ~pp.windowed => IsReal(pp.rate)

\* A substituted format is the last resort of a session that does not upgrade
\* up front: the game's own format was refused first, in every way it can be.
UpgradeIsLastResort ==
    InFlight /\ fixes.format_upgrade /\ ~session.upgrade_16bit
    => /\ tried # <<>> /\ Own(Head(tried))
       /\ \E i \in 1..Len(tried) :
             /\ Own(tried[i])
             /\ requested.windowed \/ tried[i].pp.rate = requested.rate
                \/ ~IsReal(requested.rate)

\* The rates that an attempt picks from were enumerated for the very format
\* it asks for; capture works the formats out apart from materialize.
RatesWereSampled ==
    InFlight /\ ~pp.windowed => pp.format \in snap.formats

\* After a success through the ladder, the recorded format is the live one,
\* whichever attempt it was that succeeded.
ActiveIsLive ==
    ~InFlight /\ result = "ok" /\ requested.format # "UNKNOWN" => active = live

\* What the documentation of active_back_buffer_format promises: "the back
\* buffer format the live device was actually created or last reset with".
\* Requests that leave the format to the runtime are the documented exception.
ActiveFormatOfLiveDevice ==
    ~InFlight /\ result \in {"ok", "passed"} /\ requested.format # "UNKNOWN"
    => active = live

(* What the game sees, which is not what is in its struct during a call.   *)
Device == INSTANCE DeviceCall
    WITH params <- IF InFlight THEN requested ELSE pp, device <- live

\* The ladder is one step to the game: a call fails and changes nothing, or
\* succeeds and grants what was asked up to the documented substitutions.
KeepsDeviceCall == Device!Spec
=============================================================================
