---------------------------- MODULE MCProcessLife ----------------------------
(***************************************************************************)
(* ProcessLife with a bound on exceptions and console events together, so  *)
(* that two handlers of console events may overlap, on two threads, with a *)
(* fault in either, or two exceptions with one such handler.               *)
(***************************************************************************)
EXTENDS ProcessLife

CONSTANT MaxTrouble  \* bound on the exceptions and console events together

\* One console thread is used beside the first only, never alone.
InOrder ==
    LET first == CHOOSE c \in Console : TRUE IN
    \A c \in Console \ {first} : Idle(c) /\ ~Idle(c)' => ~Idle(first)

MCNext == Next /\ Len(benign') + ctrls' <= MaxTrouble /\ InOrder

\* Both bounds hold back what comes from outside, never a step of a thread.
MCSpec == Init /\ [][MCNext]_vars /\ \A t \in Thread : WF_vars(Step(t))
=============================================================================
