------------------------------- MODULE LogSession -------------------------------
(***************************************************************************)
(* Log sessions (log.rs): how the games that run at the same time share    *)
(* the log roots.                                                          *)
(*                                                                         *)
(* At its start a game names its session after the second and its process  *)
(* id, claims a directory of that name under the first candidate root that *)
(* takes it, prunes the oldest sessions of that root, and then writes its  *)
(* manifest and opens its event log.  Other games do the same meanwhile,   *)
(* any of them may end or be killed between two steps, the clock may be    *)
(* set back, and a process id may be given out again.  What a directory    *)
(* holds is abstracted to what retention asks: whether it has a manifest   *)
(* or an event log.  Listing a root is one step.                           *)
(***************************************************************************)
EXTENDS Integers, FiniteSets

CONSTANTS
    Pid,          \* process ids, each by its rank in the order of their texts
    Time,         \* the seconds the clock may show
    Candidates,   \* how many roots are tried: override, install, appdata, temp
    Keep,         \* sessions_to_keep
    MaxLaunches   \* bound on the launches of a behaviour

ASSUME PidAssumption == Pid \subseteq Int /\ IsFiniteSet(Pid)
ASSUME TimeAssumption == Time \subseteq Int /\ IsFiniteSet(Time)
ASSUME CandidatesAssumption == Candidates \in Nat
ASSUME KeepAssumption == Keep \in Nat \ {0}
ASSUME MaxLaunchesAssumption == MaxLaunches \in Nat

\* YYYYMMDD_HHMMSS_pPID
Id == Time \X Pid

Root == 1..Candidates

VARIABLES
    now,       \* GetSystemTime
    pc,        \* where each process is in init; "off" when it does not run
    id,        \* the session id of each process
    cand,      \* the candidate root it tries or has claimed
    doomed,    \* the sessions its retention has yet to remove
    disk,      \* each session directory of each root: absent, bare, written
    launches,  \* launches so far
    \* history: the sessions ever written to in each root; whether a claimed
    \* directory is the first of its name; the sessions written since a
    \* process listed its root, and since the last retention that removed all
    \* it had listed
    ever, fresh, late, since

program == <<now, pc, id, cand, doomed, disk, launches>>
history == <<ever, fresh, late, since>>
vars == <<program, history>>

-----------------------------------------------------------------------------
(* Names and listings                                                      *)

\* Names sort by second, then by the text of the process id, "10" before "9".
Newer(a, b) == a[1] > b[1] \/ (a[1] = b[1] /\ a[2] > b[2])

Written(r) == {i \in Id : disk[<<r, i>>] = "written"}

\* Faulty variant: every directory with a session's name.
ListedBare(r, own) == {i \in Id : disk[<<r, i>>] # "absent"} \ {own}

\* The sessions apply_retention looks at: session ids other than its own, with
\* a manifest or an event log.
Listed(r, own) == Written(r) \ {own}

\* Faulty variant: sorted the other way around.
DoomedNewest(ids) ==
    {i \in ids : Cardinality({j \in ids : Newer(i, j)}) >= Keep - 1}

\* Faulty variant: no room is reserved for the session about to be written.
DoomedUnreserved(ids) ==
    {i \in ids : Cardinality({j \in ids : Newer(j, i)}) >= Keep}

\* All but the newest Keep - 1 of them.
Doomed(ids) == {i \in ids : Cardinality({j \in ids : Newer(j, i)}) >= Keep - 1}

-----------------------------------------------------------------------------
(* Steps of init                                                           *)

\* The value of id while no process has the process id.
Unnamed(p) == CHOOSE i \in Id : i[2] = p

Init ==
    /\ now \in Time
    /\ pc = [p \in Pid |-> "off"]
    /\ id = [p \in Pid |-> Unnamed(p)]
    /\ cand = [p \in Pid |-> 0]
    /\ doomed = [p \in Pid |-> {}]
    /\ disk = [d \in Root \X Id |-> "absent"]
    /\ launches = 0
    /\ ever = [r \in Root |-> {}]
    /\ fresh = [p \in Pid |-> FALSE]
    /\ late = [p \in Pid |-> {}]
    /\ since = [r \in Root |-> {}]

\* The clock runs, or is set.
Clock ==
    /\ now' \in Time \ {now}
    /\ UNCHANGED <<pc, id, cand, doomed, disk, launches, history>>

\* A game starts under an id no running process has; with the level off init
\* returns at once and the process plays no part.
Launch(p) ==
    /\ launches < MaxLaunches
    /\ pc[p] = "off"
    /\ pc' = [pc EXCEPT ![p] = "claim"]
    /\ id' = [id EXCEPT ![p] = <<now, p>>]
    /\ cand' = [cand EXCEPT ![p] = 1]
    /\ launches' = launches + 1
    /\ UNCHANGED <<now, doomed, disk, history>>

\* A candidate whose variable is unset, or whose directory cannot be created,
\* is passed over.
SkipRoot(p) ==
    /\ pc[p] = "claim" /\ cand[p] \in Root
    /\ cand' = [cand EXCEPT ![p] = @ + 1]
    /\ UNCHANGED <<now, pc, id, doomed, disk, launches, history>>

NoRoot(p) ==
    /\ pc[p] = "claim" /\ cand[p] \notin Root
    /\ pc' = [pc EXCEPT ![p] = "unlogged"]
    /\ UNCHANGED <<now, id, cand, doomed, disk, launches, history>>

\* create_dir_all, which takes a directory that is already there.
CreateDir(p) ==
    /\ pc[p] = "claim" /\ cand[p] \in Root
    /\ LET d == <<cand[p], id[p]>> IN
        /\ disk' = [disk EXCEPT ![d] = IF @ = "absent" THEN "bare" ELSE @]
        /\ fresh' = [fresh EXCEPT ![p] = id[p] \notin ever[cand[p]]]
    /\ pc' = [pc EXCEPT ![p] = "check"]
    /\ UNCHANGED <<now, id, cand, doomed, launches, ever, late, since>>

\* The directory is where its path says.
Accept(p) ==
    /\ pc[p] = "check"
    /\ pc' = [pc EXCEPT ![p] = "list"]
    /\ UNCHANGED <<now, id, cand, doomed, disk, launches, history>>

\* It does not resolve, or was redirected: an empty directory is removed (which
\* may fail) and the next candidate is tried.
Reject(p) ==
    /\ pc[p] = "check"
    /\ LET d == <<cand[p], id[p]>> IN
        disk' \in {disk, [disk EXCEPT ![d] = IF @ = "bare" THEN "absent" ELSE @]}
    /\ pc' = [pc EXCEPT ![p] = "claim"]
    /\ cand' = [cand EXCEPT ![p] = @ + 1]
    /\ UNCHANGED <<now, id, doomed, launches, history>>

\* apply_retention lists the root.
List(p) ==
    /\ pc[p] = "list"
    /\ doomed' = [doomed EXCEPT ![p] = Doomed(Listed(cand[p], id[p]))]
    /\ pc' = [pc EXCEPT ![p] = "prune"]
    /\ late' = [late EXCEPT ![p] = {id[p]}]
    /\ UNCHANGED <<now, id, cand, disk, launches, ever, fresh, since>>

\* The listing failed.
ListFailed(p) ==
    /\ pc[p] = "list"
    /\ pc' = [pc EXCEPT ![p] = "manifest"]
    /\ UNCHANGED <<now, id, cand, doomed, disk, launches, history>>

\* remove_dir_all of the oldest: it succeeds, or fails at the start or half-way.
Prune(p) ==
    /\ pc[p] = "prune"
    /\ \E i \in doomed[p] :
        /\ \A j \in doomed[p] \ {i} : Newer(j, i)
        /\ LET d == <<cand[p], i>> IN
            \E left \in {"absent", disk[d]} \cup ({"bare"} \ {disk[d]}) :
                /\ disk[d] = "absent" => left = "absent"
                /\ disk' = [disk EXCEPT ![d] = left]
                /\ late' = IF left = "written"
                           THEN [late EXCEPT ![p] = @ \cup {i}] ELSE late
        /\ doomed' = [doomed EXCEPT ![p] = @ \ {i}]
    /\ UNCHANGED <<now, pc, id, cand, launches, ever, fresh, since>>

Pruned(p) ==
    /\ pc[p] = "prune" /\ doomed[p] = {}
    /\ pc' = [pc EXCEPT ![p] = "manifest"]
    /\ since' = [since EXCEPT ![cand[p]] = late[p]]
    /\ late' = [late EXCEPT ![p] = {}]
    /\ UNCHANGED <<now, id, cand, doomed, disk, launches, ever, fresh>>

\* A file appears in the directory of p.
Write(p) ==
    LET r == cand[p] i == id[p] IN
    /\ disk[<<r, i>>] # "absent"
    /\ disk' = [disk EXCEPT ![<<r, i>>] = "written"]
    /\ ever' = [ever EXCEPT ![r] = @ \cup {i}]
    /\ late' = [q \in Pid |->
            IF pc[q] = "prune" /\ cand[q] = r THEN late[q] \cup {i} ELSE late[q]]
    /\ since' = [since EXCEPT ![r] = @ \cup {i}]

\* Whether the manifest could be written or not, the event log is opened next.
Manifest(p) ==
    /\ pc[p] = "manifest"
    /\ Write(p) \/ UNCHANGED <<disk, ever, late, since>>
    /\ pc' = [pc EXCEPT ![p] = "events"]
    /\ UNCHANGED <<now, id, cand, doomed, launches, fresh>>

\* The event log is created, and published with its handle and directory.
OpenLog(p) ==
    /\ pc[p] = "events"
    /\ Write(p)
    /\ pc' = [pc EXCEPT ![p] = "logging"]
    /\ UNCHANGED <<now, id, cand, doomed, launches, fresh>>

OpenFailed(p) ==
    /\ pc[p] = "events"
    /\ pc' = [pc EXCEPT ![p] = "unlogged"]
    /\ UNCHANGED <<now, id, cand, doomed, disk, launches, history>>

\* The process ends, or is killed between two steps of init.
End(p) ==
    /\ pc[p] # "off"
    /\ pc' = [pc EXCEPT ![p] = "off"]
    /\ id' = [id EXCEPT ![p] = Unnamed(p)]
    /\ cand' = [cand EXCEPT ![p] = 0]
    /\ doomed' = [doomed EXCEPT ![p] = {}]
    /\ fresh' = [fresh EXCEPT ![p] = FALSE]
    /\ late' = [late EXCEPT ![p] = {}]
    /\ UNCHANGED <<now, disk, launches, ever, since>>

Next ==
    \/ Clock
    \/ \E p \in Pid :
        \/ Launch(p) \/ SkipRoot(p) \/ NoRoot(p)
        \/ CreateDir(p) \/ Accept(p) \/ Reject(p)
        \/ List(p) \/ ListFailed(p) \/ Prune(p) \/ Pruned(p)
        \/ Manifest(p) \/ OpenLog(p) \/ OpenFailed(p)
        \/ End(p)

Spec == Init /\ [][Next]_vars

-----------------------------------------------------------------------------
(* Properties                                                              *)

Stage == {"off", "claim", "check", "list", "prune", "manifest", "events",
          "logging", "unlogged"}

\* Types: the stages of init (log.rs, init), names of the form make_session_id
\* gives them, and directories as retention sees them.
TypeOK ==
    /\ now \in Time
    /\ pc \in [Pid -> Stage]
    /\ id \in [Pid -> Id] /\ \A p \in Pid : id[p][2] = p
    /\ cand \in [Pid -> 0..Candidates + 1]
    /\ \A p \in Pid :
        pc[p] \in {"check", "list", "prune", "manifest", "events", "logging"} =>
            cand[p] \in Root
    /\ doomed \in [Pid -> SUBSET Id]
    /\ disk \in [Root \X Id -> {"absent", "bare", "written"}]
    /\ launches \in 0..MaxLaunches
    /\ ever \in [Root -> SUBSET Id]
    /\ fresh \in [Pid -> BOOLEAN]
    /\ late \in [Pid -> SUBSET Id]
    /\ since \in [Root -> SUBSET Id]

\* A process that has claimed a directory of a new name finds it when it comes
\* to write its manifest (log.rs, claim_session_dir to write_manifest): the
\* retention of no other process takes a directory that has no content yet.
ClaimSurvives ==
    \A p \in Pid :
        pc[p] \in {"list", "prune", "manifest"} /\ fresh[p] =>
            disk[<<cand[p], id[p]>>] # "absent"

\* However the retentions of concurrent games interleave, the Keep - 1 newest
\* sessions ever written in a root are never removed (log.rs, apply_retention):
\* the log of a running game is lost only to that many newer sessions.
NewestSurvive ==
    \A r \in Root : \A i \in ever[r] :
        Cardinality({j \in ever[r] : Newer(j, i)}) < Keep - 1 =>
            disk[<<r, i>>] = "written"

\* sessions_to_keep bounds a root (log.rs, init): besides the Keep - 1 sessions
\* a completed retention left, a root holds only those that were written since
\* that retention listed it, or that it failed to remove.
BudgetHolds ==
    \A r \in Root :
        Cardinality(Written(r) \ since[r]) <= Keep - 1
=================================================================================
