------------------------------ MODULE ProcessState -----------------------------
(***************************************************************************)
(* What neopatch keeps of the process it runs in, from its first event     *)
(* line to the end: the state of crash.rs, console.rs, exit_hooks.rs and   *)
(* the event layer of log.rs, and what must always hold of it.  How it     *)
(* changes is in ProcessLife.                                              *)
(*                                                                         *)
(* Any thread may fault, also in the middle of a line or of a report, and  *)
(* the handlers then run on top of what it was doing.  A thread is         *)
(* therefore a stack of activations, the running one last.  Console events *)
(* run on threads of their own.                                            *)
(***************************************************************************)
EXTENDS Integers, SequencesExt

CONSTANTS
    Game,        \* threads of the game
    Main,        \* the one it starts on
    Console,     \* threads the system starts for console events
    Free,        \* the holder of a mutex nobody holds
    MaxLines,    \* bound on the lines the hooks emit, those of exit calls included
    MaxFaults,   \* bound on the exceptions
    MaxCtrl      \* bound on the console events

ASSUME ThreadAssumption ==
    Main \in Game /\ Game \cap Console = {} /\ Free \notin Game \cup Console
ASSUME BoundsAssumption ==
    MaxLines \in Nat /\ MaxFaults \in Nat /\ MaxCtrl \in Nat

Thread == Game \cup Console

VARIABLES
    stack,      \* the activations of each thread
    up,         \* the threads of the game that exist
    inEvent,    \* IN_EVENT of each thread
    writer,     \* which thread holds FILE_WRITER
    inFilter,   \* IN_FILTER
    dumpSeq,    \* DUMP_SEQ
    quit,       \* QUIT_REQUESTED
    ended,      \* how the process ended, and on which thread
    cache,      \* lines written but not committed to disk: whose, of which fault
    lines, ctrls,
    benign,     \* of each exception so far: whether its code is a benign one
    \* history: exceptions whose latest report is complete; whether a last-chance
    \* report was begun; whether a WM_CLOSE was ever posted
    reported, lastChance, posted

log == <<inEvent, writer, cache>>
crash == <<inFilter, dumpSeq, reported, lastChance>>
console == <<quit, posted>>
rest == <<up, ended, lines, ctrls, benign>>

-----------------------------------------------------------------------------
(* Activations                                                             *)

\* What is running, the exception it is about (0: none), and whether it is the
\* last-chance filter.
Act(at, f) == [at |-> at, fault |-> f, last |-> FALSE]

Top(t) == Last(stack[t])

Idle(t) == stack[t] = <<>>

At(t, at) == ended.how = "no" /\ ~Idle(t) /\ Top(t).at = at

\* The running activation of t goes on as a.
Becomes(t, a) == [stack EXCEPT ![t] = Append(Front(@), a)]

Goes(t, at) == Becomes(t, [Top(t) EXCEPT !.at = at])

Popped(t) == [stack EXCEPT ![t] = Front(@)]

\* A thread of the game that runs the game's code.
AtGame(t) == ended.how = "no" /\ t \in up /\ Idle(t)

-----------------------------------------------------------------------------
(* Properties                                                              *)

\* The latch is held by a report that is under way, or by a last-chance report
\* (crash.rs, handle_exception): no first-chance report that is over, of a
\* benign code or not, keeps the next exception from being reported.
LatchIsHeld ==
    inFilter =>
        \/ lastChance
        \/ \E t \in Thread : \E i \in DOMAIN stack[t] :
            stack[t][i].at \in {"log", "dump", "flush", "leave"}

\* What was logged about an exception is on disk when its report is complete,
\* and what the thread that ends the process logged is on disk when it ends
\* through an exit hook or the console (crash.rs, handle_exception;
\* exit_hooks.rs; console.rs).
DurableInTime ==
    /\ \A line \in cache : line[2] \notin reported
    /\ ended.how \in {"exit", "ctrl"} => \A line \in cache : line[1] # ended.by

\* The flag that makes a handler swallow its Ctrl-C is up only once a WM_CLOSE
\* went to the main window (console.rs, handler), however the handlers of several
\* events, each on its own thread, overlap and whichever of them cannot post.
QuitWasPosted == quit => posted
===============================================================================
