------------------------------ MODULE ProcessLife ------------------------------
(***************************************************************************)
(* How the process logs, faults and ends (crash.rs, console.rs,            *)
(* exit_hooks.rs and the event layer of log.rs).                           *)
(*                                                                         *)
(* Every thread may emit event lines, which one mutex serialises; any of   *)
(* them may fault at any time, and the handlers then run on top of what it *)
(* was doing.  The text of a line and of a dump is left out; the lines of  *)
(* one report that follow each other are one line.                         *)
(***************************************************************************)
EXTENDS ProcessState

vars == <<stack, log, crash, console, rest>>

-----------------------------------------------------------------------------
(* Event lines                                                             *)

\* Faulty variant: no guard against re-entry.
EmitUnguarded(t, s, f) ==
    /\ stack' = [s EXCEPT ![t] = Append(@, Act("lock", f))]
    /\ inEvent' = [inEvent EXCEPT ![t] = TRUE]

\* on_event, about f, after which t goes on as in s.  A thread that is inside
\* on_event already drops the line.
Emit(t, s, f) ==
    IF inEvent[t]
    THEN stack' = s /\ inEvent' = inEvent
    ELSE /\ stack' = [s EXCEPT ![t] = Append(@, Act("lock", f))]
         /\ inEvent' = [inEvent EXCEPT ![t] = TRUE]

Lock(t) ==
    /\ At(t, "lock") /\ writer = Free
    /\ writer' = t
    /\ stack' = Goes(t, "write")
    /\ UNCHANGED <<inEvent, cache, crash, console, rest>>

\* The line goes to the system's file cache, the mutex is released, and the
\* thread may emit again.
WriteLine(t) ==
    /\ At(t, "write")
    /\ cache' = cache \cup {<<t, Top(t).fault>>}
    /\ writer' = Free
    /\ inEvent' = [inEvent EXCEPT ![t] = FALSE]
    /\ stack' = Popped(t)
    /\ UNCHANGED <<crash, console, rest>>

\* A hook emits a line: any of the patches, a message box, a created thread.
HookLine(t) ==
    /\ AtGame(t) /\ lines < MaxLines
    /\ lines' = lines + 1
    /\ Emit(t, stack, 0)
    /\ UNCHANGED <<writer, cache, crash, console, up, ended, ctrls, benign>>

\* CreateThread: the new thread, then the line about it.
CreateThread(t) ==
    /\ AtGame(t) /\ lines < MaxLines
    /\ \E u \in Game \ up : up' = up \cup {u}
    /\ lines' = lines + 1
    /\ Emit(t, stack, 0)
    /\ UNCHANGED <<writer, cache, crash, console, ended, ctrls, benign>>

-----------------------------------------------------------------------------
(* Exceptions                                                              *)

\* An exception, with a benign code only in the game's code; the vectored
\* handler runs first.
Raise(t) ==
    /\ ended.how = "no" /\ t \in up \cup Console
    /\ Idle(t) => t \in Game
    /\ ~Idle(t) => Top(t).at \in {"lock", "write", "log", "flush"}
    /\ Len(benign) < MaxFaults
    /\ \E b \in BOOLEAN :
        /\ b => Idle(t)
        /\ benign' = Append(benign, b)
    /\ stack' = [stack EXCEPT ![t] = Append(@, Act("enter", Len(benign) + 1))]
    /\ UNCHANGED <<log, crash, console, up, ended, lines, ctrls>>

\* Faulty variant: the latch is set for good also by the first-chance report.
AfterReportKept(t) ==
    /\ inFilter' = inFilter
    /\ stack' = Goes(t, IF Top(t).last THEN "die" ELSE "search")

\* release_filter, and back to the system's search.
AfterReport(t) ==
    /\ inFilter' = Top(t).last
    /\ stack' = Goes(t, IF Top(t).last THEN "die" ELSE "search")

\* handle_exception, when no other report is under way.
Enter(t) ==
    /\ At(t, "enter") /\ ~inFilter
    /\ inFilter' = TRUE
    /\ lastChance' = (lastChance \/ Top(t).last)
    /\ reported' = reported \ {Top(t).fault}
    /\ stack' = Goes(t, "log")
    /\ UNCHANGED <<log, dumpSeq, console, rest>>

\* When one is, on this thread or another.
Skip(t) ==
    /\ At(t, "enter") /\ inFilter
    /\ stack' = Goes(t, IF Top(t).last THEN "die" ELSE "search")
    /\ UNCHANGED <<log, crash, console, rest>>

\* log_exception, for a code that is not benign.
LogException(t) ==
    /\ At(t, "log") /\ ~benign[Top(t).fault]
    /\ Emit(t, Goes(t, "dump"), Top(t).fault)
    /\ UNCHANGED <<writer, cache, crash, console, rest>>

\* For a benign code, or without a record: a debug line at most, and a dump
\* only at the last chance.
LogBenign(t) ==
    /\ At(t, "log") /\ benign[Top(t).fault]
    /\ LET then == Goes(t, IF Top(t).last THEN "dump" ELSE "leave") IN
        \/ Emit(t, then, Top(t).fault)
        \/ stack' = then /\ inEvent' = inEvent
    /\ UNCHANGED <<writer, cache, crash, console, rest>>

\* Faulty variant: what is written is committed before the line on the dump.
NoteLate(t) ==
    /\ Emit(t, Goes(t, "leave"), Top(t).fault)
    /\ cache' = {}
    /\ reported' = reported \cup {Top(t).fault}

\* minidump_written or minidump_skipped.
Note(t) ==
    /\ Emit(t, Goes(t, "flush"), Top(t).fault)
    /\ cache' = cache /\ reported' = reported

\* write_minidump, during which the other threads are suspended and which may
\* fail, and the line about it.
WriteMinidump(t) ==
    /\ At(t, "dump")
    /\ dumpSeq' = dumpSeq + 1
    /\ Note(t)
    /\ UNCHANGED <<writer, inFilter, lastChance, console, rest>>

\* flush takes no mutex.
FlushReport(t) ==
    /\ At(t, "flush")
    /\ cache' = {}
    /\ reported' = reported \cup {Top(t).fault}
    /\ AfterReport(t)
    /\ UNCHANGED <<inEvent, writer, dumpSeq, lastChance, console, rest>>

\* The report of a benign code, which flushes nothing.
Leave(t) ==
    /\ At(t, "leave")
    /\ AfterReport(t)
    /\ UNCHANGED <<log, dumpSeq, reported, lastChance, console, rest>>

\* A frame of the game handles an exception of the game's code.  One of neopatch's
\* own, in a line or a report, is taken to end the process.
Handled(t) ==
    /\ At(t, "search") /\ Len(stack[t]) = 1
    /\ stack' = Popped(t)
    /\ UNCHANGED <<log, crash, console, rest>>

\* None does: our unhandled filter runs, or the one that displaced it.
Unhandled(t) ==
    /\ At(t, "search")
    /\ stack' \in {Becomes(t, [Act("enter", Top(t).fault) EXCEPT !.last = TRUE]),
                   Goes(t, "die")}
    /\ UNCHANGED <<log, crash, console, rest>>

Die(t) ==
    /\ At(t, "die")
    /\ ended' = [how |-> "crash", by |-> t]
    /\ UNCHANGED <<stack, log, crash, console, up, lines, ctrls, benign>>

-----------------------------------------------------------------------------
(* Exit                                                                    *)

\* ExitProcess and TerminateProcess log, flush and go on to the real call.
ExitCalled(t) ==
    /\ AtGame(t) /\ lines < MaxLines
    /\ lines' = lines + 1
    /\ \E real \in {"exit", "terminate"} :
        Emit(t, [stack EXCEPT ![t] = Append(@, Act(real, 0))], 0)
    /\ UNCHANGED <<writer, cache, crash, console, up, ended, ctrls, benign>>

\* flush and the real call; TerminateProcess may be about another process, or
\* fail, and returns.
RealExit(t) ==
    /\ At(t, "exit") \/ At(t, "terminate")
    /\ cache' = {}
    /\ \/ ended' = [how |-> "exit", by |-> t] /\ stack' = stack
       \/ At(t, "terminate") /\ ended' = ended /\ stack' = Popped(t)
    /\ UNCHANGED <<inEvent, writer, crash, console, up, lines, ctrls, benign>>

-----------------------------------------------------------------------------
(* The console                                                             *)

CtrlEvent(c) ==
    /\ ended.how = "no" /\ Idle(c) /\ ctrls < MaxCtrl
    /\ ctrls' = ctrls + 1
    /\ stack' = [stack EXCEPT ![c] = <<Act("ctrl", 0)>>]
    /\ UNCHANGED <<log, crash, console, up, ended, lines, benign>>

\* Not Ctrl-C or Ctrl-Break: the system ends the process.
CtrlOther(c) ==
    /\ At(c, "ctrl")
    /\ ended' = [how |-> "killed", by |-> c]
    /\ UNCHANGED <<stack, log, crash, console, up, lines, ctrls, benign>>

\* HANDLED, after a hint on the console.
CtrlAgain(c) ==
    /\ At(c, "ctrl") /\ quit
    /\ Emit(c, Popped(c), 0)
    /\ UNCHANGED <<writer, cache, crash, console, rest>>

\* Faulty variant: the flag is tested and set at once, before anything is posted.
CtrlFirstSwaps(c) ==
    /\ At(c, "ctrl") /\ ~quit
    /\ quit' = TRUE /\ posted' = posted
    /\ stack' = Goes(c, "post")
    /\ UNCHANGED <<log, crash, rest>>

\* No handler has posted and said so yet; another may be about to.
CtrlFirst(c) ==
    /\ At(c, "ctrl") /\ ~quit
    /\ stack' = Goes(c, "post")
    /\ UNCHANGED <<log, crash, console, rest>>

\* WM_CLOSE to the main window.  There may be none yet, or it may be gone; then
\* there is nothing more we can do.
CtrlPost(c) ==
    /\ At(c, "post")
    /\ \/ posted' = TRUE /\ stack' = Goes(c, "posted") /\ inEvent' = inEvent
       \/ posted' = posted /\ Emit(c, Goes(c, "refuse"), 0)
    /\ quit' = quit
    /\ UNCHANGED <<writer, cache, crash, rest>>

\* HANDLED.
CtrlPosted(c) ==
    /\ At(c, "posted")
    /\ quit' = TRUE
    /\ Emit(c, Popped(c), 0)
    /\ UNCHANGED <<writer, cache, posted, crash, rest>>

\* flush, UNHANDLED: another handler takes it, or the system ends the process.
CtrlRefused(c) ==
    /\ At(c, "refuse")
    /\ cache' = {}
    /\ \/ ended' = ended /\ stack' = Popped(c)
       \/ ended' = [how |-> "ctrl", by |-> c] /\ stack' = stack
    /\ UNCHANGED <<inEvent, writer, crash, console, up, lines, ctrls, benign>>

-----------------------------------------------------------------------------
Init ==
    /\ stack = [t \in Thread |-> <<>>]
    /\ up = {Main}
    /\ inEvent = [t \in Thread |-> FALSE]
    /\ writer = Free
    /\ inFilter = FALSE
    /\ dumpSeq = 0
    /\ quit = FALSE
    /\ ended = [how |-> "no", by |-> Free]
    /\ cache = {}
    /\ lines = 0 /\ ctrls = 0 /\ benign = <<>>
    /\ reported = {} /\ lastChance = FALSE /\ posted = FALSE

\* What neopatch does once it has been called, and the system for a thread that
\* faulted.
Step(t) ==
    \/ Lock(t) \/ WriteLine(t)
    \/ Enter(t) \/ Skip(t) \/ LogException(t) \/ LogBenign(t)
    \/ WriteMinidump(t) \/ FlushReport(t) \/ Leave(t)
    \/ Handled(t) \/ Unhandled(t) \/ Die(t)
    \/ RealExit(t)
    \/ CtrlOther(t) \/ CtrlAgain(t)
    \/ CtrlFirst(t) \/ CtrlPost(t) \/ CtrlPosted(t) \/ CtrlRefused(t)

Next ==
    \/ \E t \in Thread : Step(t) \/ Raise(t)
    \/ \E t \in Game : HookLine(t) \/ CreateThread(t) \/ ExitCalled(t)
    \/ \E c \in Console : CtrlEvent(c)

\* The system runs every thread that can run.
Spec == Init /\ [][Next]_vars /\ \A t \in Thread : WF_vars(Step(t))

-----------------------------------------------------------------------------
(* Properties                                                              *)

\* No thread stays in a line, a report or a handler (log.rs, IN_EVENT; crash.rs,
\* IN_FILTER): wherever a fault comes, nobody waits for the writer mutex
\* for good, and the process goes on or ends.  A fault on top of neopatch's own
\* code is nobody's to handle (Handled).
HandlersReturn ==
    \A t \in Thread : (~Idle(t)) ~> (Idle(t) \/ ended.how # "no")
===============================================================================
