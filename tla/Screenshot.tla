----------------------------- MODULE Screenshot -----------------------------
(***************************************************************************)
(* Screenshots (screenshot.rs).  A game saves one at once, or stashes the  *)
(* name and leaves the capture to its next Present; the stash is for one   *)
(* rendering context and dies with it.  The image is written to a          *)
(* temporary file that then replaces the destination; every step may fail  *)
(* and the process may die between any two, and what is left on disk meets *)
(* the next session.                                                       *)
(*                                                                         *)
(* Everything here runs on the render thread, which does nothing else      *)
(* while it saves.                                                         *)
(***************************************************************************)
CONSTANTS
    Device,     \* device addresses
    Path,       \* file names that the game passes
    None        \* no device, no path

ASSUME NoneAssumption == None \notin Device \cup Path

VARIABLES
    recorded,   \* DEVICE_MIRROR: the device that passes the gate
    pinned,     \* DEVICE_PIN
    pending,    \* PENDING_CAPTURE
    context,    \* whether the context pending was stashed for still exists
    job,        \* the image being written: its file, the step, and whether it
                \* shows the context that the game asked for
    dest,       \* the files of the player
    tmp         \* the temporary files beside them

memory == <<recorded, pinned, pending, context, job>>
files == <<dest, tmp>>
shotVars == <<recorded, pinned, pending, context, job, dest, tmp>>

File == {"absent", "torn", "whole"}
Step == {"idle", "delete", "create", "write", "move", "discard"}
NoJob == [path |-> None, pc |-> "idle", own |-> TRUE]
Saving == job.pc # "idle"

ShotTypeOK ==
    /\ recorded \in Device \cup {None} /\ pinned \in {recorded, None}
    /\ pending \in Path \cup {None} /\ context \in BOOLEAN
    /\ job \in [path : Path \cup {None}, pc : Step, own : BOOLEAN]
    /\ dest \in [Path -> File] /\ tmp \in [Path -> File]

ShotMemoryInit ==
    /\ recorded = None /\ pinned = None /\ pending = None /\ context = TRUE
    /\ job = NoJob

ShotInit ==
    /\ ShotMemoryInit
    /\ dest = [p \in Path |-> "absent"] /\ tmp = [p \in Path |-> "absent"]

-----------------------------------------------------------------------------
(* The life of a context                                                   *)

\* The context ends and the stash is kept for the next one.
KeepPending == context' = FALSE /\ pending' = pending

\* drop_pending
DropPending == context' = FALSE /\ pending' = None

\* device_creating and on_device_creating: the pin goes, the identity stays.
OnDeviceCreating ==
    /\ pinned' = None /\ DropPending
    /\ UNCHANGED <<recorded, job, files>>

\* post_device_alive, after a creation or a Reset that succeeded
RecordDevice(d) ==
    /\ recorded' = d /\ pinned' = d
    /\ UNCHANGED <<pending, context, job, files>>

\* hook_reset of the game's device: the stash is dropped before the attempt.
OnPreReset(ok) ==
    /\ recorded # None /\ DropPending
    /\ pinned' = IF ok THEN recorded ELSE pinned
    /\ UNCHANGED <<recorded, job, files>>

-----------------------------------------------------------------------------
(* The requests                                                            *)

\* capture_live_and_write up to the encoded image: it may fail anywhere.
Capture(p, own) ==
    job' = job \/ job' = [path |-> p, pc |-> "delete", own |-> own]

\* save_live; without a pinned device the save is refused.
SaveLive(p) ==
    /\ pinned # None /\ Capture(p, TRUE)
    /\ UNCHANGED <<recorded, pinned, pending, context, files>>

\* set_pending_cached_save: a later stash replaces an earlier one.
SaveDeferred(p) ==
    /\ pinned # None /\ pending' = p /\ context' = TRUE
    /\ UNCHANGED <<recorded, pinned, job, files>>

\* on_pre_present, on the device that passed the gate of hook_present
OnPrePresent ==
    /\ recorded # None /\ pinned = recorded /\ pending # None
    /\ pending' = None /\ Capture(pending, context)
    /\ UNCHANGED <<recorded, pinned, context, files>>

-----------------------------------------------------------------------------
(* write_atomic                                                            *)

Goto(pc) == job' = IF pc = "idle" THEN NoJob ELSE [job EXCEPT !.pc = pc]

\* DeleteFileA may fail, also on a file that is there.
Deleted == tmp' = tmp \/ tmp' = [tmp EXCEPT ![job.path] = "absent"]

DeleteLeftover ==
    /\ job.pc = "delete" /\ Deleted /\ Goto("create")
    /\ UNCHANGED dest

CreateTmp ==
    /\ job.pc = "create"
    /\ \/ tmp' = [tmp EXCEPT ![job.path] = "torn"] /\ Goto("write")
       \/ tmp' = tmp /\ Goto("idle")
    /\ UNCHANGED dest

\* A short write taken for a success.
WriteTmpUnchecked ==
    /\ job.pc = "write"
    /\ \/ tmp' = [tmp EXCEPT ![job.path] = "whole"] /\ Goto("move")
       \/ tmp' = tmp /\ (Goto("move") \/ Goto("discard"))
    /\ UNCHANGED dest

\* WriteFile writes it all, or fails or falls short and leaves a torn file.
WriteTmp ==
    /\ job.pc = "write"
    /\ \/ tmp' = [tmp EXCEPT ![job.path] = "whole"] /\ Goto("move")
       \/ tmp' = tmp /\ Goto("discard")
    /\ UNCHANGED dest

\* MoveFileExA replaces the destination in one step, or does nothing.
MoveTmp ==
    /\ job.pc = "move"
    /\ \/ /\ dest' = [dest EXCEPT ![job.path] = tmp[job.path]]
          /\ tmp' = [tmp EXCEPT ![job.path] = "absent"]
          /\ Goto("idle")
       \/ UNCHANGED files /\ Goto("discard")

Discard ==
    /\ job.pc = "discard" /\ Deleted /\ Goto("idle")
    /\ UNCHANGED dest

WriteStep ==
    /\ DeleteLeftover \/ CreateTmp \/ WriteTmp \/ MoveTmp \/ Discard
    /\ UNCHANGED <<recorded, pinned, pending, context>>
=============================================================================
