------------------------------ MODULE HookSlots ------------------------------
(***************************************************************************)
(* The vtable slots that neopatch hooks in place (vtable.rs), shared with  *)
(* the defining module, which may re-point its own entries, and with other *)
(* tools, which hook the same slots and give them back as they please.     *)
(*                                                                         *)
(* Every writer remembers what it displaced and forwards to it, so that a  *)
(* call walks a chain of functions.  intercept keeps one original for all  *)
(* vtables of a kind (FnSlot) and runs on the render thread; a slot that   *)
(* exists in several genuinely distinct vtables has a pool of hooks, each  *)
(* bound to the original of one vtable (IndexedFnSlots), and is visited by *)
(* whichever thread creates the object.  A visit reads, decides and writes *)
(* in steps that other threads can come between, inside a window in which  *)
(* the page with the vtables is writable (protect.rs); a write on the page *)
(* while it is protected ends the process, here a step never enabled.      *)
(***************************************************************************)
EXTENDS Integers, FiniteSets

CONSTANTS
    Plain,     \* vtables visited by intercept
    Pooled,    \* vtables visited by intercept_indexed
    Resolved,  \* the vtables whose defining module is known
    PoolSize,  \* N of IndexedFnSlots
    Tool,      \* the hooks of other tools, each with room for one original
    Thread,    \* threads that visit pooled vtables
    Render,    \* the render thread, the only one to visit the plain ones
    Null       \* the null pointer, no vtable

Vtable == Plain \cup Pooled
Index == 1..PoolSize

ASSUME VtableAssumption == Plain \cap Pooled = {} /\ Resolved \subseteq Vtable
ASSUME PoolAssumption == PoolSize \in Nat
ASSUME ToolAssumption == IsFiniteSet(Tool)
ASSUME ThreadAssumption == IsFiniteSet(Thread)
ASSUME NullAssumption == Null \notin Vtable

\* Functions: the two that a module may point an entry at, what a tool puts
\* there, our hook for the plain vtables, our instances for the pooled ones.
Real(v) == [kind |-> "real", of |-> v]
Alternative(v) == [kind |-> "alternative", of |-> v]
ToolHook(f) == [kind |-> "tool", of |-> f]
PlainHook == [kind |-> "hook", of |-> 0]
PoolHook(i) == [kind |-> "hook", of |-> i]
Nothing == [kind |-> "null", of |-> Null]

VARIABLES
    slot,      \* what each vtable's entry holds
    original,  \* the FnSlot of the plain vtables
    entry,     \* the pool: key and original of each entry
    next,      \* entries of the pool handed out
    tool,      \* for each tool's hook: whether it is unused, in place or
               \* given back, where, and what it forwards to
    visit,     \* each thread's visit, and the protection it found
    page,      \* the protection of the page the vtables lie on
    warned     \* whether writable_window_overlap was logged

window == <<page, warned>>
vars == <<slot, original, entry, next, tool, visit, page, warned>>

Fn == [kind : {"real", "alternative"}, of : Vtable]
      \cup [kind : {"tool"}, of : Tool]
      \cup [kind : {"hook"}, of : 0..PoolSize] \cup {Nothing}

Protection == {"protected", "writable"}
Visitors == Thread \cup {Render}
Visit == [pc : {"idle", "decide", "claim", "take", "store", "write", "close"},
          of : Vtable \cup {Null}, seen : Fn, idx : 0..PoolSize,
          saved : Protection]
NoVisit == [pc |-> "idle", of |-> Null, seen |-> Nothing, idx |-> 0,
            saved |-> "protected"]

TypeOK ==
    /\ slot \in [Vtable -> Fn]
    /\ original \in Fn
    /\ entry \in [Index -> [key : Vtable \cup {Null}, original : Fn]]
    /\ next \in 0..PoolSize
    /\ tool \in [Tool -> [state : {"unused", "placed", "returned"},
                          at : Vtable \cup {Null}, chain : Fn]]
    /\ visit \in [Visitors -> Visit]
    /\ page \in Protection /\ warned \in BOOLEAN

Init ==
    /\ slot = [v \in Vtable |-> Real(v)]
    /\ original = Nothing
    /\ entry = [i \in Index |-> [key |-> Null, original |-> Nothing]]
    /\ next = 0
    /\ tool = [f \in Tool |-> [state |-> "unused", at |-> Null, chain |-> Nothing]]
    /\ visit = [t \in Visitors |-> NoVisit]
    /\ page = "protected" /\ warned = FALSE

-----------------------------------------------------------------------------
(* The chain of a call                                                     *)

\* The function that f calls.  A module's own function calls none.
Forward(f) ==
    CASE f.kind = "tool" -> tool[f.of].chain
      [] f.kind = "hook" -> IF f.of = 0 THEN original ELSE entry[f.of].original
      [] OTHER -> f

\* As many steps as there are functions that forward.
Longest == Cardinality(Tool) + PoolSize + 2
Call(v) ==
    LET c[n \in 0..Longest] == IF n = 0 THEN slot[v] ELSE Forward(c[n - 1])
    IN  c

-----------------------------------------------------------------------------
(* A visit                                                                 *)

\* code of the module that defines v, as far as that is known
InModule(v, f) == v \in Resolved /\ f.kind \in {"real", "alternative"} /\ f.of = v

\* classify_revisit: to reapply, or to leave the slot to whoever owns it.
Reapplies(v, kept, seen) == seen = kept \/ InModule(v, seen)

Goto(t, pc) == visit' = [visit EXCEPT ![t].pc = pc]
Closing(saved) == [NoVisit EXCEPT !.pc = "close", !.saved = saved]
EndVisit(t) == visit' = [visit EXCEPT ![t] = Closing(visit[t].saved)]

\* ACTIVE_WINDOWS
Windows == Cardinality({t \in Visitors : visit[t].pc # "idle"})

\* An overlap told of only from the third window on.
OverlapsLate == Windows > 1

Overlaps == Windows > 0

\* install_vtable and resolve_slot: the window is opened and the slot read.
\* Code of ours and null end the visit at once.
Read(t, v) ==
    /\ visit[t].pc = "idle"
    /\ t = Render \/ v \in Pooled
    /\ visit' = [visit EXCEPT ![t] =
                    IF slot[v].kind \in {"hook", "null"} THEN Closing(page)
                    ELSE [pc |-> "decide", of |-> v, seen |-> slot[v],
                          idx |-> 0, saved |-> page]]
    /\ page' = "writable" /\ warned' = (warned \/ Overlaps)
    /\ UNCHANGED <<slot, original, entry, next, tool>>

\* with_writable: the protection that was found is put back.
Close(t) ==
    /\ visit[t].pc = "close"
    /\ visit' = [visit EXCEPT ![t] = NoVisit]
    /\ page' = visit[t].saved
    /\ UNCHANGED <<slot, original, entry, next, tool, warned>>

\* The pointer found on a revisit adopted in place of the captured one.
DecideAdopting(t) ==
    /\ visit[t].pc = "decide" /\ visit[t].of \in Plain
    /\ original' = visit[t].seen /\ Goto(t, "write")
    /\ UNCHANGED <<slot, entry, next, tool, window>>

\* A revisited slot taken back from whoever owns it.
DecideTakingBack(t) ==
    /\ visit[t].pc = "decide" /\ visit[t].of \in Plain
    /\ original' = IF original = Nothing THEN visit[t].seen ELSE original
    /\ Goto(t, "write")
    /\ UNCHANGED <<slot, entry, next, tool, window>>

\* The hook written into a slot whose original was not captured.
DecideUncaptured(t) ==
    /\ visit[t].pc = "decide" /\ visit[t].of \in Plain
    /\ original' = original
    /\ IF original = Nothing \/ Reapplies(visit[t].of, original, visit[t].seen)
       THEN Goto(t, "write") ELSE EndVisit(t)
    /\ UNCHANGED <<slot, entry, next, tool, window>>

\* intercept: the first pointer captured is kept for good.
Decide(t) ==
    /\ visit[t].pc = "decide" /\ visit[t].of \in Plain
    /\ IF original = Nothing
       THEN original' = visit[t].seen /\ Goto(t, "write")
       ELSE /\ original' = original
            /\ IF Reapplies(visit[t].of, original, visit[t].seen)
               THEN Goto(t, "write") ELSE EndVisit(t)
    /\ UNCHANGED <<slot, entry, next, tool, window>>

\* lookup: the first entry with the key.
Keyed(v) == {i \in Index : entry[i].key = v}

\* position finds the lowest one.
First(s) == CHOOSE i \in s : \A j \in s : i <= j

\* intercept_indexed: a known vtable is revisited, another claims an entry.
Look(t) ==
    /\ visit[t].pc = "decide" /\ visit[t].of \in Pooled
    /\ LET v == visit[t].of IN
       IF Keyed(v) = {} THEN Goto(t, "claim")
       ELSE LET i == First(Keyed(v)) IN
            IF Reapplies(v, entry[i].original, visit[t].seen)
            THEN visit' = [visit EXCEPT ![t].pc = "write", ![t].idx = i]
            ELSE EndVisit(t)
    /\ UNCHANGED <<slot, original, entry, next, tool, window>>

\* claim: looks once more, and installs without more ado what it finds.
Claim(t) ==
    /\ visit[t].pc = "claim"
    /\ LET k == Keyed(visit[t].of) IN
       IF k = {} THEN Goto(t, "take")
       ELSE visit' = [visit EXCEPT ![t].pc = "write", ![t].idx = First(k)]
    /\ UNCHANGED <<slot, original, entry, next, tool, window>>

Take(t) ==
    /\ visit[t].pc = "take"
    /\ IF next < PoolSize
       THEN /\ next' = next + 1
            /\ visit' = [visit EXCEPT ![t].pc = "store", ![t].idx = next + 1]
       ELSE next' = next /\ EndVisit(t)
    /\ UNCHANGED <<slot, original, entry, tool, window>>

\* The key published without the original.
StoreKeyOnly(t) ==
    /\ visit[t].pc = "store"
    /\ entry' = [entry EXCEPT ![visit[t].idx].key = visit[t].of]
    /\ Goto(t, "write")
    /\ UNCHANGED <<slot, original, next, tool, window>>

\* The original, then the key that makes the entry findable.
Store(t) ==
    /\ visit[t].pc = "store"
    /\ entry' = [entry EXCEPT ![visit[t].idx] =
                    [key |-> visit[t].of, original |-> visit[t].seen]]
    /\ Goto(t, "write")
    /\ UNCHANGED <<slot, original, next, tool, window>>

\* write_hook, with PlainHook as instance 0
Write(t) ==
    /\ visit[t].pc = "write" /\ page = "writable"
    /\ slot' = [slot EXCEPT ![visit[t].of] = PoolHook(visit[t].idx)]
    /\ EndVisit(t)
    /\ UNCHANGED <<original, entry, next, tool, window>>

VisitStep(t) ==
    \/ Decide(t) \/ Look(t) \/ Claim(t) \/ Take(t) \/ Store(t) \/ Write(t)
    \/ Close(t)

-----------------------------------------------------------------------------
(* The others                                                              *)

\* A tool displaces whatever is in a slot.  Its hook has room for one
\* original, so it does so once.
ToolPatches(f, v) ==
    /\ tool[f].state = "unused" /\ slot[v] # Nothing
    /\ tool' = [tool EXCEPT ![f] = [state |-> "placed", at |-> v, chain |-> slot[v]]]
    /\ slot' = [slot EXCEPT ![v] = ToolHook(f)]
    /\ UNCHANGED <<original, entry, next, visit, window>>

\* It puts back what it displaced, whatever is there now.
ToolRestores(f) ==
    /\ tool[f].state = "placed"
    /\ tool' = [tool EXCEPT ![f].state = "returned"]
    /\ slot' = [slot EXCEPT ![tool[f].at] = tool[f].chain]
    /\ UNCHANGED <<original, entry, next, visit, window>>

\* The defining module points its entry at a function of its own.
ModuleWrites(v, f) ==
    /\ f \in {Real(v), Alternative(v)} /\ slot[v] # f
    /\ slot' = [slot EXCEPT ![v] = f]
    /\ UNCHANGED <<original, entry, next, tool, visit, window>>

Others ==
    \/ \E f \in Tool : ToolRestores(f) \/ \E v \in Vtable : ToolPatches(f, v)
    \/ \E v \in Vtable : ModuleWrites(v, Real(v)) \/ ModuleWrites(v, Alternative(v))

Next ==
    \/ Others
    \/ \E t \in Visitors : VisitStep(t) \/ \E v \in Vtable : Read(t, v)

Spec == Init /\ [][Next]_vars

-----------------------------------------------------------------------------
(* Properties                                                              *)

\* Whatever was hooked, displaced and given back in between, a call through
\* a vtable ends in a module's function: no trampoline finds its original
\* uncaptured, and no chain of hooks comes back to itself.
CallsArrive ==
    \A v \in Vtable : slot[v] # Nothing =>
        Call(v)[Longest].kind \in {"real", "alternative"}

\* A call runs our hook at most once, although a tool that chains to it may
\* lie on top of it when the vtable is visited again.
HookRunsOnce ==
    \A v \in Vtable :
        Cardinality({n \in 0..Longest : Call(v)[n].kind = "hook"}) <= 1

\* Two windows that overlap may leave the page protected under a visit's
\* write, or writable for good; the log tells before either can happen.
OverlapIsWarned == ~warned => (page = "writable" <=> Windows > 0)

\* When nothing came between the read and the write of a visit to one of
\* these vtables, the tool whose hook it overwrites is still called.
StaysChained(vtables) ==
    \A v \in vtables, t \in Visitors :
        /\ Write(t) /\ visit[t].of = v /\ visit[t].seen = slot[v]
        /\ slot[v].kind = "tool"
        => \E n \in 0..Longest : Call(v)'[n] = slot[v]

\* A visit never cuts a tool off, which intercept keeps by declining what
\* others own.
PlainStaysChained == [][StaysChained(Plain)]_vars

\* The same of every visit, also of one that claims an entry of the pool.
ToolsStayChained == [][StaysChained(Vtable)]_vars
=============================================================================
