--------------------------------- MODULE Attach ---------------------------------
(***************************************************************************)
(* Attachment to a game: install_hooks of a game's DllMain, with the code  *)
(* patches (patches.rs) and the import hooks (iat.rs) it installs, the     *)
(* pinned timer resolution (timer_period.rs), and the audit at the first   *)
(* Direct3DCreate.                                                         *)
(*                                                                         *)
(* The patches come first: they are all in, or the game runs untouched, or *)
(* it does not run.  Then the imports are hooked one by one; every hook    *)
(* keeps the pointer it displaced.  Other writers may change the code      *)
(* while the patches go in, and other tools bind the same imports before   *)
(* and after us.  DllMain itself runs on one thread while no other runs    *)
(* game code, so one installation is one step.                             *)
(***************************************************************************)
EXTENDS Integers, FiniteSets, Sequences

CONSTANTS
    Sites,       \* how many patch sites the game has
    MaxTracked,  \* the installs the audit can cover
    MaxRequests  \* bound on the game's own timer requests in force

ASSUME SitesAssumption == Sites \in Nat \ {0}
\* The timer hooks are the first on record, and there is room for both.
ASSUME MaxTrackedAssumption == MaxTracked \in Nat /\ MaxTracked >= 2

ASSUME MaxRequestsAssumption == MaxRequests \in Nat \ {0}

Site == 1..Sites

\* The imports of the model, one of each sort: the two timer calls, whose hooks
\* are stubs, one whose hook forwards, and one that patched call sites reach
\* without the import table.
Order == <<"timeBeginPeriod", "timeEndPeriod", "ExitProcess", "DialogBoxParamA">>
Import == {Order[k] : k \in DOMAIN Order}
Timer == {"timeBeginPeriod", "timeEndPeriod"}
Rewritten == {"DialogBoxParamA"}

VARIABLES
    phase,     \* where install_hooks is: precheck, write, verify, pin,
               \* imports; or how it ended: game, vanilla, aborted
    at,        \* the patch site, then the import it has come to
    code,      \* what each site holds: expected, ours, foreign
    patched,   \* history: the sites neopatch has written
    slot,      \* what each import holds: real, tool, ours, or null
    imported,  \* the imports the game has
    original,  \* what each hook captured, "none" before
    tool,      \* what the tool's hook of each import calls, "none" if unused
    tracked,   \* INSTALLED: the imports on record
    pinned,    \* pin_ok
    warned,    \* the log has warned that the stubs are not both in place
    requests,  \* requests for a fine timer resolution in force
    inFrame,   \* the game is between its begin and its end
    audited,   \* AUDITED
    displaced  \* what the audit reported

patching == <<code, patched>>
hooks == <<slot, original, tracked>>
timer == <<pinned, warned, requests, inFrame>>
audit == <<audited, displaced>>
vars == <<phase, at, patching, hooks, imported, tool, timer, audit>>

Init ==
    /\ phase = "precheck" /\ at = 1
    /\ code \in [Site -> {"expected", "foreign"}]
    /\ patched = {}
    /\ imported \in SUBSET Import
    /\ slot \in [Import -> {"real", "tool", "null"}]
    /\ \A i \in Import : i \notin imported => slot[i] = "real"
    /\ \A i \in Timer : slot[i] # "null"
    /\ original = [i \in Import |-> "none"]
    /\ tool = [i \in Import |-> IF slot[i] = "tool" THEN "real" ELSE "none"]
    /\ tracked = {}
    /\ pinned = FALSE /\ warned = FALSE /\ requests = 0 /\ inFrame = FALSE
    /\ audited = FALSE /\ displaced = {}

-----------------------------------------------------------------------------
(* Code patches                                                            *)

\* sites_hold: nothing is written unless every site holds what is expected.
Precheck ==
    /\ phase = "precheck"
    /\ phase' = IF \A s \in Site : code[s] = "expected" THEN "write" ELSE "vanilla"
    /\ UNCHANGED <<at, patching, hooks, imported, tool, timer, audit>>

\* The site's bytes are written.
WriteSite ==
    /\ phase = "write"
    /\ code' = [code EXCEPT ![at] = "ours"]
    /\ patched' = patched \cup {at}
    /\ phase' = "verify"
    /\ UNCHANGED <<at, hooks, imported, tool, timer, audit>>

\* The protection cannot be changed: the game runs untouched if this is the
\* first site, and not at all otherwise.
WriteRefused ==
    /\ phase = "write"
    /\ phase' = IF at = 1 THEN "vanilla" ELSE "aborted"
    /\ UNCHANGED <<at, patching, hooks, imported, tool, timer, audit>>

\* Faulty variant: any failure at the first site counts as nothing written.
VerifySiteLenient ==
    /\ phase = "verify"
    /\ IF code[at] # "ours"
       THEN phase' = (IF at = 1 THEN "vanilla" ELSE "aborted") /\ at' = at
       ELSE IF at < Sites THEN phase' = "write" /\ at' = at + 1
       ELSE phase' = "pin" /\ at' = 1
    /\ UNCHANGED <<patching, hooks, imported, tool, timer, audit>>

\* The bytes are read back; a difference ends the process.
VerifySite ==
    /\ phase = "verify"
    /\ IF code[at] # "ours" THEN phase' = "aborted" /\ at' = at
       ELSE IF at < Sites THEN phase' = "write" /\ at' = at + 1
       ELSE phase' = "pin" /\ at' = 1
    /\ UNCHANGED <<patching, hooks, imported, tool, timer, audit>>

\* Another writer of the game's code, while it matters to the patches.
ForeignWrite(s) ==
    /\ phase \in {"precheck", "write", "verify"}
    /\ code[s] # "foreign"
    /\ code' = [code EXCEPT ![s] = "foreign"]
    /\ UNCHANGED <<phase, at, patched, hooks, imported, tool, timer, audit>>

-----------------------------------------------------------------------------
(* Import hooks                                                            *)

\* timer_period::install asks for the resolution once; unless it gets it, the
\* game's timer calls are left alone, with a warning.
Pin ==
    /\ phase = "pin"
    /\ phase' = "imports"
    /\ \/ pinned' = TRUE /\ requests' = 1 /\ at' = 1 /\ warned' = FALSE
       \/ pinned' = FALSE /\ requests' = 0 /\ at' = Cardinality(Timer) + 1
          /\ warned' = TRUE
    /\ UNCHANGED <<patching, hooks, imported, tool, inFrame, audit>>

\* Faulty variant: a warning only when both are missing.
WarnsBothMissing(i, s) ==
    i = "timeEndPeriod" /\ s[i] # "ours" /\ s["timeBeginPeriod"] # "ours"

\* Whether the stubs are in place is compared when both have been tried.
Warns(i, s) ==
    i = "timeEndPeriod" /\ (s[i] = "ours") # (s["timeBeginPeriod"] = "ours")

\* The next import, or the game.
Proceed(i) ==
    /\ IF at < Len(Order) THEN phase' = phase /\ at' = at + 1
       ELSE phase' = "game" /\ at' = at
    /\ warned' = (warned \/ Warns(i, slot'))

\* The registry keeps as many records as it has room for.
Recorded(i) ==
    IF Cardinality(tracked) < MaxTracked THEN tracked \cup {i} ELSE tracked

\* Faulty variant: the original is read after the hook is in place.
InstallLate(i) ==
    /\ phase = "imports" /\ Order[at] = i
    /\ i \in imported /\ slot[i] # "null"
    /\ slot' = [slot EXCEPT ![i] = "ours"]
    /\ original' = [original EXCEPT ![i] = slot'[i]]
    /\ tracked' = Recorded(i)
    /\ Proceed(i)
    /\ UNCHANGED <<patching, imported, tool, pinned, requests, inFrame, audit>>

\* install: the slot's pointer is captured and the hook written.
Install(i) ==
    /\ phase = "imports" /\ Order[at] = i
    /\ i \in imported /\ slot[i] # "null"
    /\ original' = [original EXCEPT ![i] = slot[i]]
    /\ slot' = [slot EXCEPT ![i] = "ours"]
    /\ tracked' = Recorded(i)
    /\ Proceed(i)
    /\ UNCHANGED <<patching, imported, tool, pinned, requests, inFrame, audit>>

\* The slot cannot be made writable; the captured original stays.
InstallRefused(i) ==
    /\ phase = "imports" /\ Order[at] = i
    /\ i \in imported /\ slot[i] # "null"
    /\ original' = [original EXCEPT ![i] = slot[i]]
    /\ UNCHANGED <<slot, tracked>>
    /\ Proceed(i)
    /\ UNCHANGED <<patching, imported, tool, pinned, requests, inFrame, audit>>

\* The game does not import it, or the slot is null.
InstallMissed(i) ==
    /\ phase = "imports" /\ Order[at] = i
    /\ i \notin imported \/ slot[i] = "null"
    /\ UNCHANGED hooks
    /\ Proceed(i)
    /\ UNCHANGED <<patching, imported, tool, pinned, requests, inFrame, audit>>

InstallStep(i) == Install(i) \/ InstallRefused(i) \/ InstallMissed(i)

\* install_hooks, step by step
AttachStep ==
    \/ Precheck \/ WriteSite \/ WriteRefused \/ VerifySite \/ Pin
    \/ \E i \in Import : InstallStep(i)

-----------------------------------------------------------------------------
(* The chain of a call                                                     *)

\* The function that f calls for the import i: a hook without an original
\* panics, unless it has a fallback.
Forward(i, f) ==
    CASE f = "tool" -> tool[i]
      [] f = "ours" /\ i \in Timer -> "stub"
      [] f = "ours" /\ i \notin Timer ->
            IF original[i] = "none"
            THEN IF i \in Rewritten THEN "real" ELSE "panic"
            ELSE original[i]
      [] OTHER -> f

\* Where a call begins: at the hook itself where the call site was rewritten.
Entry(i) == IF i \in Rewritten THEN "ours" ELSE slot[i]

\* A call passes one tool and one hook of ours at most.
Reaches(i) == Forward(i, Forward(i, Forward(i, Entry(i))))

-----------------------------------------------------------------------------
(* The game and other tools                                                *)

\* A tool binds an import, before or after us, and forwards to what it found
\* or straight to the exporting module.
ToolBinds(i) ==
    /\ phase \in {"precheck", "game"}
    /\ i \in imported /\ tool[i] = "none" /\ slot[i] # "null"
    /\ tool' = [tool EXCEPT ![i] = slot[i]]
          \/ tool' = [tool EXCEPT ![i] = "real"]
    /\ slot' = [slot EXCEPT ![i] = "tool"]
    /\ UNCHANGED <<phase, at, patching, original, tracked, imported, timer, audit>>

\* A tool puts back what its hook calls; the hook itself stays callable.
ToolUnbinds(i) ==
    /\ phase \in {"precheck", "game"}
    /\ slot[i] = "tool"
    /\ slot' = [slot EXCEPT ![i] = tool[i]]
    /\ UNCHANGED <<phase, at, patching, original, tracked, imported, tool, timer, audit>>

\* Each frame the game asks for the resolution and gives it up again.
BeginFrame ==
    /\ phase = "game" /\ ~inFrame /\ Timer \subseteq imported
    /\ inFrame' = TRUE
    /\ requests < MaxRequests
    /\ requests' = IF Reaches("timeBeginPeriod") = "real"
                   THEN requests + 1 ELSE requests
    /\ UNCHANGED <<phase, at, patching, hooks, imported, tool, pinned, warned, audit>>

EndFrame ==
    /\ phase = "game" /\ inFrame
    /\ inFrame' = FALSE
    /\ requests' = IF Reaches("timeEndPeriod") = "real" /\ requests > 0
                   THEN requests - 1 ELSE requests
    /\ UNCHANGED <<phase, at, patching, hooks, imported, tool, pinned, warned, audit>>

\* audit_installed, once: the recorded slots that do not hold our hook.
Audit ==
    /\ phase = "game" /\ ~audited
    /\ audited' = TRUE
    /\ displaced' = {i \in tracked : slot[i] # "ours"}
    /\ UNCHANGED <<phase, at, patching, hooks, imported, tool, timer>>

Next ==
    \/ AttachStep
    \/ \E s \in Site : ForeignWrite(s)
    \/ \E i \in Import : ToolBinds(i) \/ ToolUnbinds(i)
    \/ BeginFrame \/ EndFrame \/ Audit

Spec == Init /\ [][Next]_vars

-----------------------------------------------------------------------------
(* Properties                                                              *)

Phase == {"precheck", "write", "verify", "pin", "imports",
          "game", "vanilla", "aborted"}

\* Types: the steps of install_hooks and what iat.rs keeps for each import.
TypeOK ==
    /\ phase \in Phase /\ at \in 1..Len(Order) \cup Site
    /\ code \in [Site -> {"expected", "ours", "foreign"}]
    /\ patched \subseteq Site /\ imported \subseteq Import
    /\ slot \in [Import -> {"real", "tool", "ours", "null"}]
    /\ original \in [Import -> {"none", "real", "tool", "ours"}]
    /\ tool \in [Import -> {"none", "real", "ours"}]
    /\ tracked \subseteq Import /\ displaced \subseteq tracked
    /\ {pinned, warned, inFrame, audited} \subseteq BOOLEAN
    /\ requests \in 0..MaxRequests

\* Whoever else writes the game's code, and whichever write fails, a game that
\* runs on either has no byte and no import of neopatch's, or every site was
\* written (patches.rs, install_all; lib.rs, install_hooks).
AllOrNothing ==
    /\ phase = "vanilla" =>
        patched = {} /\ tracked = {} /\ requests = 0
        /\ \A i \in Import : slot[i] # "ours"
    /\ phase \in {"pin", "imports", "game"} => patched = Site

\* Every call of the patched game comes to the real function or to a stub,
\* whichever installations failed and whichever tools lie below or above ours
\* (iat.rs, IatHook::original, iat_hook! fallback): none panics in a hook that
\* captured nothing, and none goes round in a circle.
ImportsArrive ==
    phase = "game" =>
        \A i \in Import :
            slot[i] # "null" \/ i \in Rewritten =>
                Reaches(i) \in {"real", "stub"}

\* The pinned resolution stays in force under a game that begins and ends a
\* period each frame, unless the log has warned that only one of the stubs is
\* in place, or a tool has bound one of the two afterwards (timer_period.rs).
ResolutionHeld ==
    pinned /\ requests = 0 =>
        warned \/ \E i \in Timer \cap tracked : slot[i] # "ours"
=================================================================================
