----------------------------- MODULE DeviceCall -----------------------------
(***************************************************************************)
(* What a game relies on when it creates or resets its device: it fills in *)
(* its present parameters and calls; the call fails and leaves them alone, *)
(* or succeeds, and then they describe the device that is now live.  That  *)
(* several attempts may lie between the two is not for the game to see.    *)
(***************************************************************************)
EXTENDS Integers

CONSTANT Request
VARIABLES params, device

vars == <<params, device>>

Wide == {"X8R8G8B8", "A8R8G8B8"}

\* A format may be replaced by a 32-bit one and by nothing else, and a format
\* with alpha only by its scanout-compatible counterpart.
Grants(p, q) ==
    /\ q.windowed = p.windowed
    /\ q.format # p.format => q.format \in Wide
    /\ p.format = "A8R8G8B8" /\ p.windowed => q.format = p.format
    /\ p.format = "X8R8G8B8" => q.format = p.format
    /\ ~q.windowed => q.format # "A8R8G8B8" \/ p.format = "UNKNOWN"
    /\ q.windowed => q.rate = p.rate
    /\ q.lockable => p.lockable
    /\ q.interval # p.interval => q.interval = "immediate"

Init == params \in Request /\ device = "none"

Ask(req) == params' = req /\ device' = device

Grant ==
    /\ Grants(params, params')
    /\ device' = params'.format

\* A Reset that goes through to the runtime as it is.
Plain(req) ==
    /\ device # "none"
    /\ params' = req
    /\ device' \in IF req.format = "UNKNOWN" THEN Wide ELSE {req.format}

Next ==
    \/ \E req \in Request : Ask(req) \/ Plain(req)
    \/ Grant

Spec == Init /\ [][Next]_vars
=============================================================================
