--------------------------- MODULE MCHookSlots_proof ---------------------------
(***************************************************************************)
(* The vtable slots and the controller that is their client: for any       *)
(* vtables, tools and threads and any size of the pool, a call through a   *)
(* vtable arrives and runs our hook at most once, an overlap of windows is *)
(* told of before it does harm, and a visit of a plain vtable cuts no tool *)
(* off; and for any numbers a driver may report, the hat steers each       *)
(* device that is due.                                                     *)
(*                                                                         *)
(* That a walk ends follows from a rank that each function gets when it is *)
(* first linked to another: it is above that of the function it forwards   *)
(* to and never above the number of links, and no step changes where a     *)
(* linked function forwards to.  That it meets one hook follows from a set *)
(* of quiet functions, which lead to none: a vtable that was never hooked  *)
(* holds a quiet function, so that what a first visit captures is quiet.   *)
(* A rank and such a set exist in each reachable state; the invariant says *)
(* that they do, and each step that makes a link extends both.             *)
(*                                                                         *)
(* Call is a recursive function; that it unfolds, and what holds all along *)
(* a walk, is shown by the least number for which it would fail.           *)
(***************************************************************************)
EXTENDS MCHookSlots, FiniteSetTheorems, WellFoundedInduction, TLAPS

-----------------------------------------------------------------------------
(* Induction, and the functions a call walks through                       *)

\* A set of natural numbers has a least element.
LEMMA LeastNatural ==
    ASSUME NEW S \in SUBSET Nat, S # {}
    PROVE  \E n \in S : \A m \in S : n <= m
  <1> DEFINE R == OpToRel(<, Nat)
  <1>1. IsWellFoundedOn(R, Nat)
    BY NatLessThanWellFounded
  <1>2. \A x, y \in Nat : <<y, x>> \in R <=> y < x
    BY DEF OpToRel
  <1> HIDE DEF R
  <1>3. PICK n \in S : \A m \in S : ~(<<m, n>> \in R)
    BY <1>1, WFMin
  <1>4. \A m \in S : ~(m < n)
    BY <1>2, <1>3
  <1> QED BY <1>4

\* What holds first and goes on from each step to the next holds to the end.
LEMMA StepByStep ==
    ASSUME NEW L \in Nat, NEW S, 0 \in S, \A n \in 0..L : n > 0 /\ n - 1 \in S => n \in S
    PROVE  \A n \in 0..L : n \in S
  <1> SUFFICES ASSUME NEW k \in 0..L, k \notin S PROVE FALSE
    OBVIOUS
  <1>1. PICK n \in {i \in 0..L : i \notin S} : \A m \in {i \in 0..L : i \notin S} : n <= m
    <2> DEFINE T == {i \in 0..L : i \notin S}
    <2>1. T \in SUBSET Nat /\ T # {}
      OBVIOUS
    <2> QED BY <2>1, LeastNatural
  <1>2. n > 0 /\ n - 1 \in 0..L
    BY <1>1
  <1>3. n - 1 \in S
    BY <1>1, <1>2
  <1> QED BY <1>1, <1>2, <1>3

\* A walk has a length.
LEMMA LongestIsNatural == Longest \in Nat /\ Longest > 0
  BY ToolAssumption, PoolAssumption, FS_CardinalityType DEF Longest

\* The walk that Call defines exists: one step longer for each step.
LEMMA WalkExists ==
    ASSUME NEW v
    PROVE  \E c : c = [n \in 0..Longest |-> IF n = 0 THEN slot[v] ELSE Forward(c[n - 1])]
  <1> DEFINE Walk(L) == \E c : c = [n \in 0..L |-> IF n = 0 THEN slot[v] ELSE Forward(c[n - 1])]
             S == {L \in Nat : Walk(L)}
  <1>1. Walk(0)
    <2> DEFINE c == [n \in 0..0 |-> slot[v]]
    <2>1. c = [n \in 0..0 |-> IF n = 0 THEN slot[v] ELSE Forward(c[n - 1])]
      OBVIOUS
    <2> QED BY <2>1
  <1>2. ASSUME NEW L \in Nat, L > 0, Walk(L - 1)
        PROVE  Walk(L)
    <2>1. PICK b : b = [n \in 0..(L - 1) |-> IF n = 0 THEN slot[v] ELSE Forward(b[n - 1])]
      BY <1>2
    <2> DEFINE c == [n \in 0..L |-> IF n < L THEN b[n] ELSE Forward(b[L - 1])]
    <2>2. \A n \in 0..L : c[n] = IF n = 0 THEN slot[v] ELSE Forward(c[n - 1])
      <3> SUFFICES ASSUME NEW n \in 0..L
                   PROVE  c[n] = IF n = 0 THEN slot[v] ELSE Forward(c[n - 1])
        OBVIOUS
      <3>1. CASE n = 0
        BY <1>2, <2>1, <3>1
      <3>2. CASE n > 0
        <4>1. n - 1 \in 0..(L - 1) /\ c[n - 1] = b[n - 1]
          BY <3>2
        <4>2. CASE n < L
          BY <2>1, <3>2, <4>1, <4>2
        <4>3. CASE n = L
          BY <3>2, <4>1, <4>3
        <4> QED BY <4>2, <4>3
      <3> QED BY <3>1, <3>2
    <2>3. c = [n \in 0..L |-> IF n = 0 THEN slot[v] ELSE Forward(c[n - 1])]
      BY <2>2
    <2> QED BY <2>3
  <1>3. 0 \in S /\ \A n \in 0..Longest : n > 0 /\ n - 1 \in S => n \in S
    BY <1>1, <1>2
  <1>4. Longest \in S
    <2> HIDE DEF S
    <2> QED BY <1>3, LongestIsNatural, StepByStep
  <1> QED BY <1>4

\* Call is what its recursive definition says.
LEMMA CallUnfolds ==
    \A v : \A n \in 0..Longest :
        Call(v)[n] = IF n = 0 THEN slot[v] ELSE Forward(Call(v)[n - 1])
  <1> SUFFICES ASSUME NEW v
               PROVE  \A n \in 0..Longest :
                        Call(v)[n] = IF n = 0 THEN slot[v] ELSE Forward(Call(v)[n - 1])
    OBVIOUS
  <1> DEFINE Walk(c) == c = [n \in 0..Longest |-> IF n = 0 THEN slot[v] ELSE Forward(c[n - 1])]
  <1>1. Walk(CHOOSE c : Walk(c))
    <2>1. \E c : Walk(c)
      BY WalkExists
    <2> HIDE DEF Walk
    <2> QED BY <2>1, Zenon
  <1>2. Walk(Call(v))
    BY <1>1 DEF Call
  <1> QED BY <1>2

-----------------------------------------------------------------------------
(* Types                                                                   *)

\* A function is told by its kind.
LEMMA FnKinds ==
    /\ \A f \in Fn : f.kind \in {"real", "alternative", "tool", "hook", "null"}
    /\ \A f \in Fn : f.kind = "tool" => f.of \in Tool /\ f = ToolHook(f.of)
    /\ \A f \in Fn : f.kind = "hook" => f.of \in 0..PoolSize /\ f = PoolHook(f.of)
    /\ \A f \in Fn : f.kind = "null" <=> f = Nothing
  BY DEF Fn, ToolHook, PoolHook, Nothing

\* What is written anywhere is a function.
LEMMA FnMade ==
    /\ \A v \in Vtable : Real(v) \in Fn /\ Alternative(v) \in Fn
    /\ \A f \in Tool : ToolHook(f) \in Fn
    /\ \A i \in 0..PoolSize : PoolHook(i) \in Fn
    /\ Nothing \in Fn
  BY DEF Fn, Real, Alternative, ToolHook, PoolHook, Nothing

\* A visit begins, goes on with an index, or closes its window.
LEMMA VisitMade ==
    /\ NoVisit \in Visit
    /\ \A saved \in Protection : Closing(saved) \in Visit
    /\ \A w \in Visit, i \in 0..PoolSize,
          pc \in {"decide", "claim", "take", "store", "write"} :
        [w EXCEPT !.pc = pc] \in Visit /\ [w EXCEPT !.pc = pc, !.idx = i] \in Visit
    /\ \A v \in Vtable, f \in Fn, saved \in Protection :
        [pc |-> "decide", of |-> v, seen |-> f, idx |-> 0, saved |-> saved] \in Visit
  <1>1. NoVisit \in Visit
    BY FnMade, PoolAssumption DEF NoVisit, Visit, Protection
  <1>2. \A saved \in Protection : Closing(saved) \in Visit
    BY <1>1 DEF Closing, Visit
  <1>3. \A w \in Visit, i \in 0..PoolSize,
          pc \in {"decide", "claim", "take", "store", "write"} :
        [w EXCEPT !.pc = pc] \in Visit /\ [w EXCEPT !.pc = pc, !.idx = i] \in Visit
    BY DEF Visit
  <1>4. \A v \in Vtable, f \in Fn, saved \in Protection :
        [pc |-> "decide", of |-> v, seen |-> f, idx |-> 0, saved |-> saved] \in Visit
    BY PoolAssumption DEF Visit
  <1> QED BY <1>1, <1>2, <1>3, <1>4

\* The first state is typed.
LEMMA TypeInit == Init => TypeOK
  <1> SUFFICES ASSUME Init PROVE TypeOK
    OBVIOUS
  <1>1. slot \in [Vtable -> Fn] /\ original \in Fn
    BY FnMade DEF Init
  <1>2. entry \in [Index -> [key : Vtable \cup {Null}, original : Fn]]
    BY FnMade DEF Init
  <1>3. tool \in [Tool -> [state : {"unused", "placed", "returned"},
                           at : Vtable \cup {Null}, chain : Fn]]
    <2> DEFINE r == [state |-> "unused", at |-> Null, chain |-> Nothing]
    <2>1. r \in [state : {"unused", "placed", "returned"},
                 at : Vtable \cup {Null}, chain : Fn]
      BY FnMade
    <2>2. tool = [f \in Tool |-> r]
      BY DEF Init
    <2> HIDE DEF r
    <2> QED BY <2>1, <2>2
  <1>4. visit \in [Visitors -> Visit]
    BY VisitMade DEF Init
  <1>5. next \in 0..PoolSize /\ page \in Protection
    <2>1. next = 0 /\ page = "protected"
      BY DEF Init
    <2> QED BY <2>1, PoolAssumption DEF Protection
  <1>6. warned \in BOOLEAN
    BY DEF Init
  <1> QED BY <1>1, <1>2, <1>3, <1>4, <1>5, <1>6 DEF TypeOK

\* A search that finds something finds an entry with the key.
LEMMA FirstIsKeyed == \A v : Keyed(v) # {} => First(Keyed(v)) \in Keyed(v)
  <1> SUFFICES ASSUME NEW v, Keyed(v) # {} PROVE First(Keyed(v)) \in Keyed(v)
    OBVIOUS
  <1>1. Keyed(v) \in SUBSET Nat
    BY PoolAssumption DEF Keyed, Index
  <1> QED BY <1>1, LeastNatural DEF First

\* Every step keeps the types.
LEMMA TypeStep ==
    ASSUME TypeOK, [Next]_vars
    PROVE  TypeOK'
  <1> USE PoolAssumption DEF TypeOK, window
  <1>1. CASE UNCHANGED vars
    BY <1>1 DEF vars
  <1>2. ASSUME NEW t \in Visitors, NEW w \in Visit, visit' = [visit EXCEPT ![t] = w]
        PROVE  visit' \in [Visitors -> Visit]
    BY <1>2
  <1>3. ASSUME NEW t \in Visitors, NEW pc \in {"decide", "claim", "take", "store", "write"},
               Goto(t, pc)
        PROVE  visit' \in [Visitors -> Visit]
    BY <1>3, VisitMade DEF Goto
  <1>4. ASSUME NEW t \in Visitors, EndVisit(t)
        PROVE  visit' \in [Visitors -> Visit]
    <2>1. visit[t].saved \in Protection
      BY DEF Visit
    <2> QED BY <1>4, <2>1, VisitMade DEF EndVisit
  <1>5. ASSUME NEW t \in Visitors, NEW i \in 0..PoolSize,
               NEW pc \in {"decide", "claim", "take", "store", "write"},
               visit' = [visit EXCEPT ![t].pc = pc, ![t].idx = i]
        PROVE  visit' \in [Visitors -> Visit]
    BY <1>5, VisitMade
  <1>6. ASSUME NEW t \in Visitors, VisitStep(t) PROVE TypeOK'
    <2>0. visit[t] \in Visit
      OBVIOUS
    <2>1. CASE Decide(t)
      <3>1. original' \in Fn
        BY <2>0, <2>1 DEF Decide, Visit
      <3>2. Goto(t, "write") \/ EndVisit(t)
        BY <2>1 DEF Decide
      <3> QED BY <1>3, <1>4, <2>1, <3>1, <3>2 DEF Decide
    <2>2. CASE Look(t)
      <3>1. visit' \in [Visitors -> Visit]
        <4>1. CASE Goto(t, "claim") \/ EndVisit(t)
          BY <1>3, <1>4, <4>1
        <4>2. CASE ~(Goto(t, "claim") \/ EndVisit(t))
          <5> DEFINE k == Keyed(visit[t].of)
          <5>1. k # {} /\ visit' = [visit EXCEPT ![t].pc = "write", ![t].idx = First(k)]
            BY <2>2, <4>2 DEF Look
          <5>2. PICK i \in 0..PoolSize : i = First(k)
            <6>1. First(k) \in k
              BY <5>1, FirstIsKeyed
            <6>2. k \subseteq 0..PoolSize
              BY DEF Keyed, Index
            <6> QED BY <6>1, <6>2
          <5>3. visit' = [visit EXCEPT ![t].pc = "write", ![t].idx = i]
            BY <5>1, <5>2
          <5> QED BY <1>5, <5>3
        <4> QED BY <4>1, <4>2
      <3> QED BY <2>2, <3>1 DEF Look
    <2>3. CASE Claim(t)
      <3>1. visit' \in [Visitors -> Visit]
        <4>1. CASE Goto(t, "take")
          BY <1>3, <4>1
        <4>2. CASE ~Goto(t, "take")
          <5> DEFINE k == Keyed(visit[t].of)
          <5>1. k # {} /\ visit' = [visit EXCEPT ![t].pc = "write", ![t].idx = First(k)]
            BY <2>3, <4>2 DEF Claim
          <5>2. PICK i \in 0..PoolSize : i = First(k)
            <6>1. First(k) \in k
              BY <5>1, FirstIsKeyed
            <6>2. k \subseteq 0..PoolSize
              BY DEF Keyed, Index
            <6> QED BY <6>1, <6>2
          <5>3. visit' = [visit EXCEPT ![t].pc = "write", ![t].idx = i]
            BY <5>1, <5>2
          <5> QED BY <1>5, <5>3
        <4> QED BY <4>1, <4>2
      <3> QED BY <2>3, <3>1 DEF Claim
    <2>4. CASE Take(t)
      <3>1. CASE next < PoolSize
        <4>1. next' = next + 1 /\ next' \in 0..PoolSize
              /\ visit' = [visit EXCEPT ![t].pc = "store", ![t].idx = next + 1]
          BY <2>4, <3>1 DEF Take
        <4>2. visit' \in [Visitors -> Visit]
          BY <1>5, <4>1
        <4> QED BY <2>4, <4>1, <4>2 DEF Take
      <3>2. CASE ~(next < PoolSize)
        <4>1. next' = next /\ EndVisit(t)
          BY <2>4, <3>2 DEF Take
        <4>2. visit' \in [Visitors -> Visit]
          BY <1>4, <4>1
        <4> QED BY <2>4, <4>1, <4>2 DEF Take
      <3> QED BY <3>1, <3>2
    <2>5. CASE Store(t)
      <3>1. visit' \in [Visitors -> Visit]
        BY <1>3, <2>5 DEF Store
      <3>2. [key |-> visit[t].of, original |-> visit[t].seen]
              \in [key : Vtable \cup {Null}, original : Fn]
        BY <2>0 DEF Visit
      <3>3. entry' \in [Index -> [key : Vtable \cup {Null}, original : Fn]]
        BY <2>5, <3>2 DEF Store
      <3> QED BY <2>5, <3>1, <3>3 DEF Store
    <2>6. CASE Write(t)
      <3>1. PoolHook(visit[t].idx) \in Fn
        BY <2>0, FnMade DEF Visit
      <3>2. slot' \in [Vtable -> Fn] /\ visit' \in [Visitors -> Visit]
        BY <1>4, <2>6, <3>1 DEF Write
      <3> QED BY <2>6, <3>2 DEF Write
    <2>7. CASE Close(t)
      <3>1. visit' \in [Visitors -> Visit]
        BY <1>2, <2>7, VisitMade DEF Close
      <3>2. page' \in Protection
        BY <2>0, <2>7 DEF Close, Visit
      <3> QED BY <2>7, <3>1, <3>2 DEF Close
    <2> QED BY <1>6, <2>1, <2>2, <2>3, <2>4, <2>5, <2>6, <2>7 DEF VisitStep
  <1>7. ASSUME NEW t \in Visitors, NEW v \in Vtable, Read(t, v) PROVE TypeOK'
    <2>1. visit' \in [Visitors -> Visit]
      BY <1>2, <1>7, VisitMade DEF Read
    <2>2. page' \in Protection /\ warned' \in BOOLEAN
      BY <1>7 DEF Read, Protection
    <2> QED BY <1>7, <2>1, <2>2 DEF Read
  <1>8. ASSUME NEW f \in Tool, NEW v \in Vtable, ToolPatches(f, v) PROVE TypeOK'
    BY <1>8, FnMade DEF ToolPatches
  <1>9. ASSUME NEW f \in Tool, ToolRestores(f) PROVE TypeOK'
    BY <1>9 DEF ToolRestores
  <1>10. ASSUME NEW v \in Vtable, ModuleWrites(v, Real(v)) \/ ModuleWrites(v, Alternative(v))
         PROVE  TypeOK'
    BY <1>10, FnMade DEF ModuleWrites
  <1> QED BY <1>1, <1>6, <1>7, <1>8, <1>9, <1>10 DEF Next, Others

-----------------------------------------------------------------------------
(* The invariant                                                           *)

\* Functions of modules, and those that forward to another: the hooks of tools
\* that were put somewhere, and ours once they have an original.
Ends == {f \in Fn : f.kind \in {"real", "alternative"}}
ToolLinks == {ToolHook(f) : f \in {g \in Tool : tool[g].state # "unused"}}
Captured == {i \in 0..PoolSize : IF i = 0 THEN original # Nothing ELSE entry[i].key # Null}
HookLinks == {PoolHook(i) : i \in Captured}
Links == ToolLinks \cup HookLinks
Known == Ends \cup Links

\* A vtable that one of our visits went through with.
Hooked(v) == IF v \in Plain THEN original # Nothing ELSE Keyed(v) # {}

\* Quiet functions lead to no hook of ours, and none of ours leads to another.
Quiet(P) ==
    /\ Ends \subseteq P /\ P \subseteq Known
    /\ \A f \in P : f.kind # "hook" /\ Forward(f) \in P
    /\ \A f \in HookLinks : Forward(f) \in P

\* Every function forwards to one that was there before it.
Ranked(R) ==
    /\ R \in [Fn -> Nat]
    /\ \A f \in Ends : R[f] = 0
    /\ \A f \in Links : /\ R[f] <= Cardinality(Links)
                        /\ Forward(f) \in Known /\ R[Forward(f)] < R[f]

\* What is found at a vtable is quiet unless it was hooked.
FoundAt(P, v, f) == f \in Known /\ (f \in P \/ Hooked(v))

Placed(P) ==
    /\ \A v \in Vtable : FoundAt(P, v, slot[v])
    /\ \A f \in Tool : tool[f].state # "unused" =>
          tool[f].at \in Vtable /\ FoundAt(P, tool[f].at, tool[f].chain)

\* A visit, by how far it is.
Visiting(P, t) ==
    LET pc == visit[t].pc
        v == visit[t].of
        i == visit[t].idx
    IN  /\ pc \notin {"idle", "close"} => v \in Vtable /\ FoundAt(P, v, visit[t].seen)
        /\ pc \in {"claim", "take", "store"} => v \in Pooled /\ visit[t].seen \in P
        /\ pc = "decide" => i = 0
        /\ pc = "store" => i \in 1..next /\ entry[i].key = Null
        /\ pc = "write" => i \in Captured
        /\ pc = "write" /\ v \in Plain =>
              i = 0 /\ Reapplies(v, original, visit[t].seen)
        /\ pc = "write" /\ v \in Pooled => i \in Index /\ entry[i].key = v

\* Entries are handed out once.
Allotted ==
    /\ \A i \in Index : entry[i].key # Null => i <= next
    /\ \A t, u \in Visitors :
          t # u /\ visit[t].pc = "store" /\ visit[u].pc = "store" =>
              visit[t].idx # visit[u].idx

Woven(P, R) ==
    Quiet(P) /\ Ranked(R) /\ Placed(P) /\ \A t \in Visitors : Visiting(P, t)

ChainInv == TypeOK /\ Allotted /\ \E P \in SUBSET Fn, R \in [Fn -> Nat] : Woven(P, R)

-----------------------------------------------------------------------------
(* The links                                                               *)

\* There are fewer links than a walk has steps.
LEMMA LinksAreFinite ==
    /\ IsFiniteSet(Links) /\ Cardinality(Links) \in Nat
    /\ Cardinality(Links) < Longest
  <1> DEFINE T == {ToolHook(f) : f \in Tool}
             H == {PoolHook(i) : i \in 0..PoolSize}
             n == Cardinality(Tool)
  <1>1. n \in Nat
    BY ToolAssumption, FS_CardinalityType
  <1>2. IsFiniteSet(T) /\ Cardinality(T) <= n
    <2> DEFINE g == [f \in Tool |-> ToolHook(f)]
    <2>1. g \in Surjection(Tool, T)
      BY DEF Surjection
    <2> HIDE DEF g, T
    <2> QED BY <2>1, ToolAssumption, FS_Surjection
  <1>3. IsFiniteSet(H) /\ Cardinality(H) <= PoolSize + 1
    <2> DEFINE g == [i \in 0..PoolSize |-> PoolHook(i)]
    <2>1. g \in Surjection(0..PoolSize, H)
      BY DEF Surjection
    <2>2. IsFiniteSet(0..PoolSize) /\ Cardinality(0..PoolSize) = PoolSize + 1
      BY PoolAssumption, FS_Interval
    <2> HIDE DEF g, H
    <2> QED BY <2>1, <2>2, FS_Surjection
  <1>4. Links \in SUBSET (T \cup H)
    BY DEF Links, ToolLinks, HookLinks, Captured
  <1> HIDE DEF T, H
  <1>5. /\ IsFiniteSet(T \cup H) /\ Cardinality(T) \in Nat /\ Cardinality(H) \in Nat
        /\ Cardinality(T \cap H) \in Nat
        /\ Cardinality(T \cup H) = Cardinality(T) + Cardinality(H) - Cardinality(T \cap H)
    BY <1>2, <1>3, FS_Union, FS_Intersection, FS_CardinalityType
  <1>6. IsFiniteSet(Links) /\ Cardinality(Links) <= Cardinality(T \cup H)
    BY <1>4, <1>5, FS_Subset
  <1>7. Cardinality(Links) \in Nat
    BY <1>6, FS_CardinalityType
  <1> QED BY <1>1, <1>2, <1>3, <1>5, <1>6, <1>7, PoolAssumption DEF Longest

\* A step that makes no link leaves everything about the links as it was.
LEMMA NoLinkAdded ==
    ASSUME UNCHANGED <<original, entry>>,
           \A f \in Tool : tool'[f].chain = tool[f].chain,
           \A f \in Tool : tool'[f].state = "unused" <=> tool[f].state = "unused",
           NEW P, NEW R
    PROVE  /\ Quiet(P) => Quiet(P)'
           /\ Ranked(R) => Ranked(R)'
           /\ Captured' = Captured
           /\ \A v \in Vtable : \A f : FoundAt(P, v, f) => FoundAt(P, v, f)'
  <1>1. Captured' = Captured
    BY DEF Captured
  <1>2. HookLinks' = HookLinks /\ ToolLinks' = ToolLinks
    BY <1>1 DEF HookLinks, ToolLinks
  <1>3. Links' = Links /\ Known' = Known /\ Ends' = Ends
    BY <1>2 DEF Links, Known, Ends
  <1>4. \A f \in Fn : Forward(f)' = Forward(f)
    BY FnKinds DEF Forward
  <1>5. Known \subseteq Fn
    BY FnMade DEF Known, Links, ToolLinks, HookLinks, Ends, Captured
  <1>6. \A v : Hooked(v)' = Hooked(v)
    BY DEF Hooked, Keyed
  <1>7. Quiet(P) => Quiet(P)'
    BY <1>2, <1>3, <1>4, <1>5 DEF Quiet, Known, Links
  <1>8. Ranked(R) => Ranked(R)'
    BY <1>3, <1>4, <1>5 DEF Ranked, Known
  <1>9. \A v \in Vtable : \A f : FoundAt(P, v, f) => FoundAt(P, v, f)'
    BY <1>3, <1>6 DEF FoundAt
  <1> QED BY <1>1, <1>7, <1>8, <1>9

\* A new link x to y, both as they should be.
LEMMA LinkAdded ==
    ASSUME NEW P \in SUBSET Fn, NEW R \in [Fn -> Nat], Quiet(P), Ranked(R),
           NEW x \in Fn, x \notin Known, NEW y \in Known, Forward(x)' = y,
           \A f \in Known : Forward(f)' = Forward(f),
           \/ x.kind = "hook" /\ y \in P /\ HookLinks' = HookLinks \cup {x}
                /\ ToolLinks' = ToolLinks
           \/ x.kind = "tool" /\ HookLinks' = HookLinks /\ ToolLinks' = ToolLinks \cup {x},
           \A v \in Vtable : Hooked(v) => Hooked(v)'
    PROVE  \E Q \in SUBSET Fn, S \in [Fn -> Nat] :
              /\ Quiet(Q)' /\ Ranked(S)' /\ P \subseteq Q
              /\ x.kind = "tool" /\ y \in P => x \in Q
              /\ \A v \in Vtable : \A f : FoundAt(P, v, f) => FoundAt(Q, v, f)'
  <1> DEFINE Q == IF x.kind = "tool" /\ y \in P THEN P \cup {x} ELSE P
             S == [R EXCEPT ![x] = R[y] + 1]
  <1>1. Links' = Links \cup {x} /\ Ends' = Ends /\ Known' = Known \cup {x}
    BY DEF Links, Ends, Known
  <1>2. Cardinality(Links') = Cardinality(Links) + 1 /\ Cardinality(Links) \in Nat
    BY <1>1, LinksAreFinite, FS_AddElement DEF Known
  <1>3. Known \subseteq Fn
    BY FnMade DEF Known, Links, ToolLinks, HookLinks, Ends, Captured
  <1>4. Quiet(Q)'
    <2>1. Ends' \subseteq Q /\ Q \subseteq Known'
      BY <1>1 DEF Quiet
    <2>2. \A f \in Q : f.kind # "hook" /\ Forward(f)' \in Q
      BY DEF Quiet
    <2>3. \A f \in HookLinks' : Forward(f)' \in Q
      BY DEF Quiet, Known, Links
    <2> QED BY <2>1, <2>2, <2>3 DEF Quiet
  <1>5. Ranked(S)'
    <2>1. R[y] \in Nat /\ R[y] <= Cardinality(Links)
      BY <1>2, <1>3 DEF Ranked, Known
    <2>2. \A f \in Known : S[f] = R[f] /\ R[f] \in Nat
      BY <1>3
    <2>3. S \in [Fn -> Nat] /\ S[x] = R[y] + 1
      BY <2>1
    <2>4. \A f \in Ends' : S[f] = 0
      BY <1>1, <2>2 DEF Ranked, Known
    <2>5. \A f \in Links : /\ S[f] <= Cardinality(Links')
                           /\ Forward(f)' \in Known' /\ S[Forward(f)'] < S[f]
      <3> SUFFICES ASSUME NEW f \in Links
                   PROVE  /\ S[f] <= Cardinality(Links')
                          /\ Forward(f)' \in Known' /\ S[Forward(f)'] < S[f]
        OBVIOUS
      <3>1. f \in Known /\ Forward(f) \in Known
        BY DEF Ranked, Known
      <3>2. R[f] <= Cardinality(Links) /\ R[Forward(f)] < R[f]
        BY DEF Ranked
      <3>3. S[f] = R[f] /\ S[Forward(f)] = R[Forward(f)] /\ R[f] \in Nat
        BY <2>2, <3>1
      <3>4. Forward(f)' = Forward(f)
        BY <3>1
      <3> QED BY <1>1, <1>2, <3>1, <3>2, <3>3, <3>4
    <2>6. /\ S[x] <= Cardinality(Links')
          /\ Forward(x)' \in Known' /\ S[Forward(x)'] < S[x]
      BY <1>1, <1>2, <2>1, <2>2, <2>3
    <2> HIDE DEF S
    <2> QED BY <1>1, <2>3, <2>4, <2>5, <2>6 DEF Ranked
  <1>6. \A v \in Vtable : \A f : FoundAt(P, v, f) => FoundAt(Q, v, f)'
    BY <1>1 DEF FoundAt
  <1>7. Q \in SUBSET Fn /\ S \in [Fn -> Nat]
    BY <1>3
  <1> HIDE DEF Q, S
  <1>8. P \subseteq Q /\ (x.kind = "tool" /\ y \in P => x \in Q)
    BY DEF Q
  <1> QED BY <1>4, <1>5, <1>6, <1>7, <1>8

-----------------------------------------------------------------------------
(* The steps                                                               *)

\* At first nothing is linked.
LEMMA ChainInit == Init => ChainInv
  <1> SUFFICES ASSUME Init PROVE ChainInv
    OBVIOUS
  <1> DEFINE R == [f \in Fn |-> 0]
  <1>1. original = Nothing /\ \A i \in Index : entry[i].key = Null
    BY DEF Init
  <1>2. Captured = {}
    BY <1>1 DEF Captured, Index
  <1>3. ToolLinks = {}
    BY DEF Init, ToolLinks
  <1>4. Links = {} /\ HookLinks = {} /\ Known = Ends
    BY <1>2, <1>3 DEF Links, HookLinks, Known
  <1>5. Quiet(Ends)
    BY <1>4 DEF Quiet, Ends, Forward
  <1>6. Ranked(R)
    BY <1>4 DEF Ranked, Ends
  <1>7. Placed(Ends)
    <2>1. \A v \in Vtable : slot[v] \in Ends
      BY FnMade DEF Init, Ends, Real
    <2>2. \A f \in Tool : tool[f].state = "unused"
      BY DEF Init
    <2> QED BY <1>4, <2>1, <2>2 DEF Placed, FoundAt
  <1>8. \A t \in Visitors : visit[t].pc = "idle"
    BY DEF Init, NoVisit
  <1>9. \A t \in Visitors : Visiting(Ends, t)
    BY <1>8 DEF Visiting
  <1>10. Allotted
    BY <1>1, <1>8 DEF Allotted
  <1>11. Ends \in SUBSET Fn /\ R \in [Fn -> Nat]
    BY DEF Ends
  <1> HIDE DEF R
  <1> QED BY TypeInit, <1>5, <1>6, <1>7, <1>9, <1>10, <1>11 DEF ChainInv, Woven

\* What a visit found and got stays good while it waits.
LEMMA VisitWaits ==
    ASSUME TypeOK, NEW P, NEW Q, P \subseteq Q,
           \A v \in Vtable : \A f : FoundAt(P, v, f) => FoundAt(Q, v, f)',
           NEW t \in Visitors, visit'[t] = visit[t], Visiting(P, t),
           next' \in Nat, next' >= next,
           original # Nothing => original' = original,
           \A i \in Index : entry[i].key # Null => entry'[i].key = entry[i].key,
           visit[t].pc = "store" => entry'[visit[t].idx].key = entry[visit[t].idx].key
    PROVE  Visiting(Q, t)'
  <1> DEFINE pc == visit[t].pc
             v == visit[t].of
             i == visit[t].idx
  <1>1. /\ pc \notin {"idle", "close"} => v \in Vtable /\ FoundAt(P, v, visit[t].seen)
        /\ pc \in {"claim", "take", "store"} => v \in Pooled /\ visit[t].seen \in P
        /\ pc = "decide" => i = 0
        /\ pc = "store" => i \in 1..next /\ entry[i].key = Null
        /\ pc = "write" => i \in Captured
        /\ pc = "write" /\ v \in Plain =>
              i = 0 /\ Reapplies(v, original, visit[t].seen)
        /\ pc = "write" /\ v \in Pooled => i \in Index /\ entry[i].key = v
    BY DEF Visiting
  <1>2. pc \notin {"idle", "close"} => FoundAt(Q, v, visit[t].seen)'
    <2>1. PICK w, g : w = v /\ g = visit[t].seen
      OBVIOUS
    <2>2. w \in Vtable => (FoundAt(P, w, g) => FoundAt(Q, w, g)')
      OBVIOUS
    <2>3. w = v' /\ g = visit'[t].seen
      BY <2>1
    <2> QED BY <1>1, <2>1, <2>2, <2>3 DEF FoundAt
  <1>3. pc = "store" => i \in 1..next' /\ entry'[i].key = Null
    BY <1>1 DEF TypeOK
  <1>4. pc = "write" => i \in Captured'
    BY <1>1, PoolAssumption DEF Captured, Index
  <1>5. pc = "write" /\ v \in Plain => i = 0 /\ Reapplies(v, original', visit[t].seen)
    BY <1>1 DEF Captured
  <1>6. pc = "write" /\ v \in Pooled => i \in Index /\ entry'[i].key = v
    BY <1>1, NullAssumption DEF Vtable
  <1> QED BY <1>1, <1>2, <1>3, <1>4, <1>5, <1>6 DEF Visiting

\* What the slots and the tools hold stays good when neither is written.
LEMMA PlacesStay ==
    ASSUME NEW P, NEW Q, Placed(P),
           \A v \in Vtable : \A f : FoundAt(P, v, f) => FoundAt(Q, v, f)',
           UNCHANGED <<slot, tool>>
    PROVE  Placed(Q)'
  <1>1. \A v \in Vtable : FoundAt(Q, v, slot[v])'
    <2> SUFFICES ASSUME NEW v \in Vtable PROVE FoundAt(Q, v, slot[v])'
      OBVIOUS
    <2>1. PICK f : f = slot[v]
      OBVIOUS
    <2>2. FoundAt(P, v, f) /\ f = slot'[v]
      BY <2>1 DEF Placed
    <2>3. FoundAt(Q, v, f)'
      BY <2>2
    <2> QED BY <2>2, <2>3 DEF FoundAt
  <1>2. ASSUME NEW g \in Tool, tool[g].state # "unused"
        PROVE  tool[g].at \in Vtable /\ FoundAt(Q, tool[g].at, tool[g].chain)'
    <2>1. PICK v, f : v = tool[g].at /\ f = tool[g].chain
      OBVIOUS
    <2>2. v \in Vtable /\ FoundAt(P, v, f) /\ v = tool'[g].at /\ f = tool'[g].chain
      BY <1>2, <2>1 DEF Placed
    <2>3. FoundAt(Q, v, f)'
      BY <2>2
    <2> QED BY <2>1, <2>2, <2>3 DEF FoundAt
  <1> QED BY <1>1, <1>2 DEF Placed

\* A visit's step that makes no link.
LEMMA StepWithoutLink ==
    ASSUME TypeOK, TypeOK', NEW P \in SUBSET Fn, NEW R \in [Fn -> Nat], Woven(P, R),
           NEW t \in Visitors, \A u \in Visitors \ {t} : visit'[u] = visit[u],
           UNCHANGED <<original, entry, tool>>, next' >= next,
           Placed(P)', Visiting(P, t)', Allotted'
    PROVE  ChainInv'
  <1>1. /\ Quiet(P)' /\ Ranked(R)'
        /\ \A v \in Vtable : \A f : FoundAt(P, v, f) => FoundAt(P, v, f)'
    BY NoLinkAdded DEF Woven
  <1>2. ASSUME NEW u \in Visitors \ {t} PROVE Visiting(P, u)'
    <2>1. Visiting(P, u) /\ visit'[u] = visit[u] /\ next' \in Nat
      BY DEF Woven, TypeOK
    <2> QED BY <1>1, <2>1, VisitWaits
  <1>3. \A u \in Visitors : Visiting(P, u)'
    BY <1>2
  <1> QED BY <1>1, <1>3 DEF ChainInv, Woven

\* A step that hands out no entry.
LEMMA StillAllotted ==
    ASSUME Allotted, NEW t \in Visitors, UNCHANGED <<entry, next>>,
           \A u \in Visitors \ {t} : visit'[u] = visit[u], visit'[t].pc # "store"
    PROVE  Allotted'
  BY DEF Allotted

\* What a visit reads may be found there.
LEMMA ChainRead ==
    ASSUME ChainInv, TypeOK', NEW t \in Visitors, NEW v \in Vtable, Read(t, v)
    PROVE  ChainInv'
  <1> PICK P \in SUBSET Fn, R \in [Fn -> Nat] : Woven(P, R)
    BY DEF ChainInv
  <1>1. /\ UNCHANGED <<slot, original, entry, next, tool>>
        /\ \A u \in Visitors \ {t} : visit'[u] = visit[u]
        /\ visit'[t] = IF slot[v].kind \in {"hook", "null"} THEN Closing(page)
                       ELSE [pc |-> "decide", of |-> v, seen |-> slot[v],
                             idx |-> 0, saved |-> page]
    BY DEF Read, ChainInv, TypeOK
  <1>2. /\ Placed(P) /\ \A w \in Vtable : \A f : FoundAt(P, w, f) => FoundAt(P, w, f)'
    BY <1>1, NoLinkAdded DEF Woven
  <1>3. Placed(P)'
    BY <1>1, <1>2, PlacesStay
  <1>4. visit'[t].pc \in {"close", "decide"}
    BY <1>1 DEF Closing, NoVisit
  <1>5. Visiting(P, t)'
    <2>1. CASE visit'[t].pc = "close"
      BY <2>1 DEF Visiting
    <2>2. CASE visit'[t].pc = "decide"
      <3>1. visit'[t].of = v /\ visit'[t].seen = slot'[v] /\ visit'[t].idx = 0
        BY <1>1, <2>2 DEF Closing, NoVisit
      <3>2. FoundAt(P, v, slot[v])'
        BY <1>3 DEF Placed
      <3>3. FoundAt(P, visit[t].of, visit[t].seen)'
        BY <3>1, <3>2 DEF FoundAt
      <3> QED BY <2>2, <3>1, <3>3 DEF Visiting
    <2> QED BY <1>4, <2>1, <2>2
  <1>6. Allotted'
    BY <1>1, <1>4, StillAllotted DEF ChainInv
  <1>7. next' >= next
    BY <1>1 DEF ChainInv, TypeOK
  <1> QED BY <1>1, <1>3, <1>5, <1>6, <1>7, StepWithoutLink DEF ChainInv

\* A visit that is over.
LEMMA ChainEnds ==
    ASSUME ChainInv, TypeOK', NEW t \in Visitors, UNCHANGED <<slot, original, entry, next, tool>>,
           \A u \in Visitors \ {t} : visit'[u] = visit[u], visit'[t].pc \in {"close", "idle"}
    PROVE  ChainInv'
  <1> PICK P \in SUBSET Fn, R \in [Fn -> Nat] : Woven(P, R)
    BY DEF ChainInv
  <1>1. /\ Placed(P) /\ \A w \in Vtable : \A f : FoundAt(P, w, f) => FoundAt(P, w, f)'
    BY NoLinkAdded DEF Woven
  <1>2. Placed(P)'
    BY <1>1, PlacesStay
  <1>3. Visiting(P, t)'
    BY DEF Visiting
  <1>4. Allotted' /\ next' >= next
    BY StillAllotted DEF ChainInv, TypeOK
  <1> QED BY <1>2, <1>3, <1>4, StepWithoutLink DEF ChainInv

\* The visits when one ends.
LEMMA EndVisitShape ==
    ASSUME TypeOK, NEW t \in Visitors, EndVisit(t)
    PROVE  /\ \A u \in Visitors \ {t} : visit'[u] = visit[u]
           /\ visit'[t].pc = "close"
  BY DEF EndVisit, Closing, NoVisit, TypeOK

\* The visits when one goes on.
LEMMA GotoShape ==
    ASSUME TypeOK, NEW t \in Visitors, NEW pc, Goto(t, pc)
    PROVE  /\ \A u \in Visitors \ {t} : visit'[u] = visit[u]
           /\ visit'[t] = [visit[t] EXCEPT !.pc = pc]
           /\ visit'[t].pc = pc /\ visit'[t].of = visit[t].of
           /\ visit'[t].seen = visit[t].seen /\ visit'[t].idx = visit[t].idx
  BY DEF Goto, TypeOK, Visit

\* A visit goes on to a place where it has made no entry yet.
LEMMA ChainGoes ==
    ASSUME ChainInv, TypeOK', NEW t \in Visitors, NEW pc \in {"claim", "take", "write"},
           NEW i \in 0..PoolSize, UNCHANGED <<slot, original, entry, next, tool>>,
           \A u \in Visitors \ {t} : visit'[u] = visit[u],
           visit[t].pc \in {"decide", "claim"},
           visit'[t].pc = pc, visit'[t].of = visit[t].of, visit'[t].seen = visit[t].seen,
           visit'[t].idx = i,
           pc \in {"claim", "take"} =>
              visit[t].of \in Pooled /\ (visit[t].pc = "claim" \/ ~Hooked(visit[t].of)),
           pc = "write" => i \in Captured,
           pc = "write" /\ visit[t].of \in Plain =>
              i = 0 /\ Reapplies(visit[t].of, original, visit[t].seen),
           pc = "write" /\ visit[t].of \in Pooled =>
              i \in Index /\ entry[i].key = visit[t].of
    PROVE  ChainInv'
  <1> PICK P \in SUBSET Fn, R \in [Fn -> Nat] : Woven(P, R)
    BY DEF ChainInv
  <1>1. /\ Placed(P) /\ \A w \in Vtable : \A f : FoundAt(P, w, f) => FoundAt(P, w, f)'
        /\ Captured' = Captured
    BY NoLinkAdded DEF Woven
  <1>2. Placed(P)'
    BY <1>1, PlacesStay
  <1>3. Allotted' /\ next' >= next
    BY StillAllotted DEF ChainInv, TypeOK
  <1>4. PICK v, f : v = visit[t].of /\ f = visit[t].seen
    OBVIOUS
  <1>5. v \in Vtable /\ FoundAt(P, v, f) /\ (visit[t].pc = "claim" => f \in P)
    BY <1>4 DEF Woven, Visiting
  <1>6. FoundAt(P, v, f)' /\ v = visit'[t].of /\ f = visit'[t].seen
    BY <1>1, <1>4, <1>5
  <1>7. FoundAt(P, visit[t].of, visit[t].seen)'
    BY <1>6 DEF FoundAt
  <1>8. pc \in {"claim", "take"} => v \in Pooled /\ f \in P
    BY <1>4, <1>5 DEF FoundAt
  <1>9. pc = "write" /\ v \in Plain => i = 0 /\ Reapplies(v, original', f)
    BY <1>4
  <1>10. Visiting(P, t)'
    BY <1>1, <1>4, <1>5, <1>6, <1>7, <1>8, <1>9 DEF Visiting
  <1> QED BY <1>2, <1>3, <1>10, StepWithoutLink DEF ChainInv

\* The pool is searched.
LEMMA ChainLook ==
    ASSUME ChainInv, TypeOK', NEW t \in Visitors, Look(t)
    PROVE  ChainInv'
  <1> DEFINE v == visit[t].of
  <1>0. TypeOK /\ UNCHANGED <<slot, original, entry, next, tool>>
        /\ visit[t].pc = "decide" /\ v \in Pooled /\ v \notin Plain
    BY VtableAssumption DEF Look, ChainInv, window
  <1>1. CASE Keyed(v) = {}
    <2>1. Goto(t, "claim") /\ ~Hooked(v)
      BY <1>0, <1>1 DEF Look, Hooked
    <2>2. visit[t].idx \in 0..PoolSize
      BY <1>0 DEF TypeOK, Visit
    <2> QED BY <1>0, <2>1, <2>2, GotoShape, ChainGoes
  <1>2. CASE EndVisit(t)
    BY <1>0, <1>2, EndVisitShape, ChainEnds
  <1>3. CASE Keyed(v) # {} /\ ~EndVisit(t)
    <2>1. PICK i \in Index : i = First(Keyed(v)) /\ entry[i].key = v
      BY <1>3, FirstIsKeyed DEF Keyed
    <2>2. visit' = [visit EXCEPT ![t].pc = "write", ![t].idx = i]
      BY <1>0, <1>3, <2>1 DEF Look
    <2>3. /\ \A u \in Visitors \ {t} : visit'[u] = visit[u]
          /\ visit'[t].pc = "write" /\ visit'[t].of = visit[t].of
          /\ visit'[t].seen = visit[t].seen /\ visit'[t].idx = i
      BY <1>0, <2>2 DEF TypeOK, Visit
    <2>4. i \in 0..PoolSize /\ i \in Captured
      <3>1. i \in 0..PoolSize /\ i # 0 /\ v # Null
        BY <1>0, PoolAssumption, NullAssumption DEF Index, Vtable
      <3> QED BY <2>1, <3>1 DEF Captured
    <2> QED BY <1>0, <2>1, <2>3, <2>4, ChainGoes
  <1> QED BY <1>1, <1>2, <1>3

\* The pool is searched once more.
LEMMA ChainClaim ==
    ASSUME ChainInv, TypeOK', NEW t \in Visitors, Claim(t)
    PROVE  ChainInv'
  <1> DEFINE v == visit[t].of
  <1>0. TypeOK /\ UNCHANGED <<slot, original, entry, next, tool>>
        /\ visit[t].pc = "claim" /\ v \in Pooled /\ v \notin Plain
    BY VtableAssumption DEF Claim, ChainInv, window, Woven, Visiting
  <1>1. CASE Keyed(v) = {}
    <2>1. Goto(t, "take")
      BY <1>0, <1>1 DEF Claim
    <2>2. visit[t].idx \in 0..PoolSize
      BY <1>0 DEF TypeOK, Visit
    <2> QED BY <1>0, <2>1, <2>2, GotoShape, ChainGoes
  <1>2. CASE Keyed(v) # {}
    <2>1. PICK i \in Index : i = First(Keyed(v)) /\ entry[i].key = v
      BY <1>2, FirstIsKeyed DEF Keyed
    <2>2. visit' = [visit EXCEPT ![t].pc = "write", ![t].idx = i]
      BY <1>0, <1>2, <2>1 DEF Claim
    <2>3. /\ \A u \in Visitors \ {t} : visit'[u] = visit[u]
          /\ visit'[t].pc = "write" /\ visit'[t].of = visit[t].of
          /\ visit'[t].seen = visit[t].seen /\ visit'[t].idx = i
      BY <1>0, <2>2 DEF TypeOK, Visit
    <2>4. i \in 0..PoolSize /\ i \in Captured
      <3>1. i \in 0..PoolSize /\ i # 0 /\ v # Null
        BY <1>0, PoolAssumption, NullAssumption DEF Index, Vtable
      <3> QED BY <2>1, <3>1 DEF Captured
    <2> QED BY <1>0, <2>1, <2>3, <2>4, ChainGoes
  <1> QED BY <1>1, <1>2

\* An entry of the pool is handed out.
LEMMA ChainTake ==
    ASSUME ChainInv, TypeOK', NEW t \in Visitors, Take(t)
    PROVE  ChainInv'
  <1>0. TypeOK /\ UNCHANGED <<slot, original, entry, tool>> /\ visit[t].pc = "take"
    BY DEF Take, ChainInv, window
  <1>1. CASE next < PoolSize
    <2> PICK P \in SUBSET Fn, R \in [Fn -> Nat] : Woven(P, R)
      BY DEF ChainInv
    <2>0. next \in Nat
      BY <1>0, PoolAssumption DEF TypeOK
    <2>1. /\ next' = next + 1
          /\ visit' = [visit EXCEPT ![t].pc = "store", ![t].idx = next + 1]
      BY <1>1 DEF Take
    <2>2. /\ \A u \in Visitors \ {t} : visit'[u] = visit[u]
          /\ visit'[t].pc = "store" /\ visit'[t].of = visit[t].of
          /\ visit'[t].seen = visit[t].seen /\ visit'[t].idx = next + 1
      BY <1>0, <2>1 DEF TypeOK, Visit
    <2>3. /\ Placed(P) /\ \A w \in Vtable : \A f : FoundAt(P, w, f) => FoundAt(P, w, f)'
      BY <1>0, NoLinkAdded DEF Woven
    <2>4. Placed(P)'
      BY <1>0, <2>3, PlacesStay
    <2>5. PICK v, f : v = visit[t].of /\ f = visit[t].seen
      OBVIOUS
    <2>6. v \in Vtable /\ FoundAt(P, v, f) /\ v \in Pooled /\ f \in P
      BY <1>0, <2>5 DEF Woven, Visiting
    <2>7. FoundAt(P, v, f)' /\ v = visit'[t].of /\ f = visit'[t].seen
      BY <2>2, <2>3, <2>5, <2>6
    <2>8. FoundAt(P, visit[t].of, visit[t].seen)'
      BY <2>7 DEF FoundAt
    <2>9. next + 1 \in Index /\ next + 1 \in 1..next'
      BY <1>1, <2>0, <2>1, PoolAssumption DEF Index
    <2>10. entry[next + 1].key = Null
      BY <2>0, <2>9 DEF ChainInv, Allotted
    <2>11. Visiting(P, t)'
      BY <1>0, <2>2, <2>6, <2>7, <2>8, <2>9, <2>10 DEF Visiting
    <2>12. \A u \in Visitors : visit[u].pc = "store" => visit[u].idx \in 1..next
      BY DEF Woven, Visiting
    <2>13. Allotted'
      <3>1. \A i \in Index : entry'[i].key # Null => i <= next'
        BY <1>0, <2>0, <2>1, PoolAssumption DEF ChainInv, Allotted, Index
      <3>2. ASSUME NEW r \in Visitors, NEW u \in Visitors, r # u,
                   visit'[r].pc = "store", visit'[u].pc = "store"
            PROVE  visit'[r].idx # visit'[u].idx
        <4>0. ASSUME NEW s \in Visitors, s # t, visit'[s].pc = "store"
              PROVE  visit'[s].idx # next + 1
          <5>1. visit[s].idx \in 1..next /\ visit'[s] = visit[s]
            BY <2>2, <2>12, <4>0
          <5> QED BY <2>0, <5>1
        <4>1. CASE r = t
          BY <2>2, <3>2, <4>0, <4>1
        <4>2. CASE u = t
          BY <2>2, <3>2, <4>0, <4>2
        <4>3. CASE r # t /\ u # t
          BY <2>2, <3>2, <4>3 DEF ChainInv, Allotted
        <4> QED BY <4>1, <4>2, <4>3
      <3> QED BY <3>1, <3>2 DEF Allotted
    <2>14. next' >= next
      BY <2>0, <2>1
    <2> QED BY <1>0, <2>2, <2>4, <2>11, <2>13, <2>14, StepWithoutLink
  <1>2. CASE ~(next < PoolSize)
    BY <1>0, <1>2, EndVisitShape, ChainEnds DEF Take
  <1> QED BY <1>1, <1>2

\* The original of the plain vtables captured, and the hook's visit at hand.
LEMMA ChainDecide ==
    ASSUME ChainInv, TypeOK', NEW t \in Visitors, Decide(t)
    PROVE  ChainInv'
  <1>0. /\ TypeOK /\ UNCHANGED <<slot, entry, next, tool>>
        /\ visit[t].pc = "decide" /\ visit[t].of \in Plain
    BY DEF Decide, ChainInv, window
  <1> PICK P \in SUBSET Fn, R \in [Fn -> Nat] : Woven(P, R)
    BY DEF ChainInv
  <1>01. PICK v, f : v = visit[t].of /\ f = visit[t].seen
    OBVIOUS
  <1>02. /\ v \in Plain /\ v \in Vtable /\ v \notin Pooled
         /\ FoundAt(P, v, f) /\ visit[t].idx = 0
    BY <1>0, <1>01, VtableAssumption DEF Woven, Visiting, Vtable
  <1>1. CASE original = Nothing
    <2>1. original' = f /\ Goto(t, "write")
      BY <1>1, <1>01 DEF Decide
    <2>2. f \in Known /\ f \in P
      BY <1>1, <1>02 DEF FoundAt, Hooked
    <2>3. f # Nothing
      BY <2>2 DEF Woven, Quiet, Known, Ends, Links, ToolLinks, HookLinks, ToolHook, PoolHook, Nothing
    <2>4. PICK x : x = PoolHook(0)
      OBVIOUS
    <2>5. x \in Fn /\ x.kind = "hook" /\ x.of = 0
      BY <2>4, FnMade, PoolAssumption DEF PoolHook
    <2>6. x \notin Known
      BY <1>1, <2>4 DEF Known, Ends, Links, ToolLinks, HookLinks, ToolHook, PoolHook, Captured
    <2>7. Forward(x)' = f
      BY <2>1, <2>5 DEF Forward
    <2>8. \A g \in Known : Forward(g)' = Forward(g)
      <3> SUFFICES ASSUME NEW g \in Known PROVE Forward(g)' = Forward(g)
        OBVIOUS
      <3>1. g.kind = "hook" => g.of # 0
        BY <2>4, <2>6 DEF Known, Ends, Links, ToolLinks, HookLinks, ToolHook, PoolHook
      <3> QED BY <1>0, <3>1 DEF Forward
    <2>9. Captured' = Captured \cup {0}
      BY <1>0, <2>1, <2>3, PoolAssumption DEF Captured
    <2>10. HookLinks' = HookLinks \cup {x} /\ ToolLinks' = ToolLinks
      BY <1>0, <2>4, <2>9 DEF HookLinks, ToolLinks
    <2>11. \A w \in Vtable : Hooked(w) => Hooked(w)'
      BY <1>0, <1>1 DEF Hooked, Keyed
    <2>12. PICK Q \in SUBSET Fn, S \in [Fn -> Nat] :
              /\ Quiet(Q)' /\ Ranked(S)' /\ P \subseteq Q
              /\ \A w \in Vtable : \A g : FoundAt(P, w, g) => FoundAt(Q, w, g)'
      BY <2>2, <2>5, <2>6, <2>7, <2>8, <2>10, <2>11, LinkAdded DEF Woven
    <2>13. /\ \A u \in Visitors \ {t} : visit'[u] = visit[u]
           /\ visit'[t].pc = "write" /\ visit'[t].of = v
           /\ visit'[t].seen = f /\ visit'[t].idx = 0
      BY <1>0, <1>01, <1>02, <2>1, GotoShape
    <2>14. Placed(Q)'
      BY <1>0, <2>12, PlacesStay DEF Woven
    <2>15. Visiting(Q, t)'
      <3>1. FoundAt(Q, v, f)'
        BY <1>02, <2>12
      <3>2. FoundAt(Q, visit[t].of, visit[t].seen)'
        BY <2>13, <3>1 DEF FoundAt
      <3>3. Reapplies(v, original', f)
        BY <2>1 DEF Reapplies
      <3> QED BY <1>02, <2>9, <2>13, <3>2, <3>3 DEF Visiting
    <2>16. ASSUME NEW u \in Visitors \ {t} PROVE Visiting(Q, u)'
      <3>1. Visiting(P, u) /\ visit'[u] = visit[u] /\ next' \in Nat /\ next' >= next
        BY <1>0, <2>13, PoolAssumption DEF Woven, TypeOK
      <3> QED BY <1>0, <1>1, <2>12, <3>1, VisitWaits
    <2>17. Allotted'
      BY <1>0, <2>13, StillAllotted DEF ChainInv
    <2>18. \A u \in Visitors : Visiting(Q, u)'
      BY <2>15, <2>16
    <2> QED BY <2>12, <2>14, <2>17, <2>18 DEF ChainInv, Woven
  <1>2. CASE original # Nothing
    <2>1. original' = original
      BY <1>2 DEF Decide
    <2>2. CASE EndVisit(t)
      BY <1>0, <2>1, <2>2, EndVisitShape, ChainEnds
    <2>3. CASE ~EndVisit(t)
      <3>1. Goto(t, "write") /\ Reapplies(v, original, f)
        BY <1>2, <1>01, <2>3 DEF Decide
      <3>2. 0 \in Captured /\ 0 \in 0..PoolSize
        BY <1>2, PoolAssumption DEF Captured
      <3> QED BY <1>0, <1>01, <1>02, <2>1, <3>1, <3>2, GotoShape, ChainGoes
    <2> QED BY <2>2, <2>3
  <1> QED BY <1>1, <1>2

\* An entry of the pool made, for the first time and by nobody else.
LEMMA ChainStore ==
    ASSUME ChainInv, TypeOK', NEW t \in Visitors, Store(t)
    PROVE  ChainInv'
  <1>0. /\ TypeOK /\ UNCHANGED <<slot, original, next, tool>>
        /\ visit[t].pc = "store" /\ Goto(t, "write")
    BY DEF Store, ChainInv, window
  <1> PICK P \in SUBSET Fn, R \in [Fn -> Nat] : Woven(P, R)
    BY DEF ChainInv
  <1>1. PICK v, f, i : v = visit[t].of /\ f = visit[t].seen /\ i = visit[t].idx
    OBVIOUS
  <1>2. /\ v \in Pooled /\ v \in Vtable /\ v \notin Plain /\ f \in P
        /\ FoundAt(P, v, f) /\ i \in 1..next /\ entry[i].key = Null
    BY <1>0, <1>1, VtableAssumption DEF Woven, Visiting, Vtable
  <1>3. i \in Index /\ i \in 0..PoolSize /\ i # 0 /\ next \in Nat /\ v # Null
    BY <1>0, <1>2, PoolAssumption, NullAssumption DEF TypeOK, Index, Vtable
  <1>4. entry' = [entry EXCEPT ![i] = [key |-> v, original |-> f]]
    BY <1>1 DEF Store
  <1>5. /\ entry'[i] = [key |-> v, original |-> f]
        /\ \A j \in Index \ {i} : entry'[j] = entry[j]
    BY <1>0, <1>3, <1>4 DEF TypeOK
  <1>6. PICK x : x = PoolHook(i)
    OBVIOUS
  <1>7. x \in Fn /\ x.kind = "hook" /\ x.of = i
    BY <1>3, <1>6, FnMade DEF PoolHook
  <1>8. x \notin Known
    BY <1>2, <1>3, <1>6 DEF Known, Ends, Links, ToolLinks, HookLinks, ToolHook, PoolHook, Captured
  <1>9. Forward(x)' = f
    BY <1>3, <1>5, <1>7 DEF Forward
  <1>10. \A g \in Known : Forward(g)' = Forward(g)
    <2> SUFFICES ASSUME NEW g \in Known PROVE Forward(g)' = Forward(g)
      OBVIOUS
    <2>1. g.kind = "hook" => g.of # i /\ g.of \in 0..PoolSize
      BY <1>6, <1>8 DEF Known, Ends, Links, ToolLinks, HookLinks, ToolHook, PoolHook, Captured
    <2> QED BY <1>0, <1>5, <2>1, PoolAssumption DEF Forward, Index
  <1>11. Captured' = Captured \cup {i}
    BY <1>0, <1>3, <1>5, PoolAssumption DEF Captured, Index
  <1>12. HookLinks' = HookLinks \cup {x} /\ ToolLinks' = ToolLinks
    BY <1>0, <1>6, <1>11 DEF HookLinks, ToolLinks
  <1>13. \A w \in Vtable : Hooked(w) => Hooked(w)'
    BY <1>0, <1>2, <1>5, NullAssumption DEF Hooked, Keyed
  <1>14. PICK Q \in SUBSET Fn, S \in [Fn -> Nat] :
            /\ Quiet(Q)' /\ Ranked(S)' /\ P \subseteq Q
            /\ \A w \in Vtable : \A g : FoundAt(P, w, g) => FoundAt(Q, w, g)'
    <2>1. f \in Known
      BY <1>2 DEF FoundAt
    <2> QED BY <1>2, <1>7, <1>8, <1>9, <1>10, <1>12, <1>13, <2>1, LinkAdded DEF Woven
  <1>15. /\ \A u \in Visitors \ {t} : visit'[u] = visit[u]
         /\ visit'[t].pc = "write" /\ visit'[t].of = v
         /\ visit'[t].seen = f /\ visit'[t].idx = i
    BY <1>0, <1>1, GotoShape
  <1>16. Placed(Q)'
    BY <1>0, <1>14, PlacesStay DEF Woven
  <1>17. Visiting(Q, t)'
    <2>1. FoundAt(Q, v, f)'
      BY <1>2, <1>14
    <2>2. FoundAt(Q, visit[t].of, visit[t].seen)'
      BY <1>15, <2>1 DEF FoundAt
    <2> QED BY <1>2, <1>3, <1>5, <1>11, <1>15, <2>2 DEF Visiting
  <1>18. ASSUME NEW u \in Visitors \ {t} PROVE Visiting(Q, u)'
    <2>1. Visiting(P, u) /\ visit'[u] = visit[u] /\ next' \in Nat /\ next' >= next
      BY <1>0, <1>3, <1>15 DEF Woven
    <2>2. \A j \in Index : entry[j].key # Null => entry'[j].key = entry[j].key
      BY <1>2, <1>5
    <2>3. visit[u].pc = "store" => entry'[visit[u].idx].key = entry[visit[u].idx].key
      <3>1. CASE visit[u].pc = "store"
        <4>1. visit[u].idx \in 1..next /\ visit[u].idx # i
          BY <1>0, <1>1, <2>1, <3>1 DEF Visiting, ChainInv, Allotted
        <4>2. visit[u].idx \in Index
          BY <1>0, <4>1, PoolAssumption DEF TypeOK, Index
        <4> QED BY <1>5, <4>1, <4>2
      <3> QED BY <3>1
    <2> QED BY <1>0, <1>14, <2>1, <2>2, <2>3, VisitWaits
  <1>19. Allotted'
    <2>1. \A j \in Index : entry'[j].key # Null => j <= next'
      BY <1>0, <1>2, <1>3, <1>5 DEF ChainInv, Allotted
    <2>2. \A r, u \in Visitors :
            r # u /\ visit'[r].pc = "store" /\ visit'[u].pc = "store" =>
              visit'[r].idx # visit'[u].idx
      BY <1>15 DEF ChainInv, Allotted
    <2> QED BY <2>1, <2>2 DEF Allotted
  <1>20. \A u \in Visitors : Visiting(Q, u)'
    BY <1>17, <1>18
  <1> QED BY <1>14, <1>16, <1>19, <1>20 DEF ChainInv, Woven

\* No tool's hook is put anywhere, and none forwards elsewhere.
SameTools ==
    \A g \in Tool : /\ tool'[g].chain = tool[g].chain /\ tool'[g].at = tool[g].at
                    /\ tool'[g].state = "unused" <=> tool[g].state = "unused"

\* A slot given something that may be found there.
LEMMA SlotGiven ==
    ASSUME TypeOK, NEW P, NEW v \in Vtable, NEW f, slot' = [slot EXCEPT ![v] = f],
           Placed(P), FoundAt(P, v, f)',
           \A w \in Vtable : \A g : FoundAt(P, w, g) => FoundAt(P, w, g)',
           SameTools
    PROVE  Placed(P)'
  <1>1. ASSUME NEW w \in Vtable PROVE FoundAt(P, w, slot[w])'
    <2>1. CASE w = v
      <3>1. slot'[v] = f
        BY DEF TypeOK
      <3> QED BY <2>1, <3>1 DEF FoundAt
    <2>2. CASE w # v
      <3>1. PICK g : g = slot[w]
        OBVIOUS
      <3>2. FoundAt(P, w, g) /\ g = slot'[w]
        BY <2>2, <3>1 DEF Placed, TypeOK
      <3>3. FoundAt(P, w, g)'
        BY <3>2
      <3> QED BY <3>2, <3>3 DEF FoundAt
    <2> QED BY <2>1, <2>2
  <1>2. ASSUME NEW g \in Tool, tool'[g].state # "unused"
        PROVE  tool'[g].at \in Vtable /\ FoundAt(P, tool[g].at, tool[g].chain)'
    <2>1. PICK w, h : w = tool[g].at /\ h = tool[g].chain
      OBVIOUS
    <2>2. w \in Vtable /\ FoundAt(P, w, h) /\ w = tool'[g].at /\ h = tool'[g].chain
      BY <1>2, <2>1 DEF Placed, SameTools
    <2>3. FoundAt(P, w, h)'
      BY <2>2
    <2> QED BY <2>2, <2>3 DEF FoundAt
  <1> QED BY <1>1, <1>2 DEF Placed

\* Our hook written over what was found.
LEMMA ChainWrite ==
    ASSUME ChainInv, TypeOK', NEW t \in Visitors, Write(t)
    PROVE  ChainInv'
  <1>0. TypeOK /\ UNCHANGED <<original, entry, next, tool>> /\ visit[t].pc = "write"
        /\ EndVisit(t)
    BY DEF Write, ChainInv, window
  <1> PICK P \in SUBSET Fn, R \in [Fn -> Nat] : Woven(P, R)
    BY DEF ChainInv
  <1>1. PICK v, i : v = visit[t].of /\ i = visit[t].idx
    OBVIOUS
  <1>2. v \in Vtable /\ i \in Captured /\ (v \in Plain => i = 0)
        /\ (v \in Pooled => i \in Index /\ entry[i].key = v)
    BY <1>0, <1>1 DEF Woven, Visiting
  <1>3. Hooked(v) /\ PoolHook(i) \in Known
    BY <1>2, VtableAssumption DEF Hooked, Keyed, Vtable, Captured, Known, Links, HookLinks
  <1>4. FoundAt(P, v, PoolHook(i))
    BY <1>3 DEF FoundAt
  <1>5. \A w \in Vtable : \A f : FoundAt(P, w, f) => FoundAt(P, w, f)'
    BY <1>0, NoLinkAdded
  <1>6. FoundAt(P, v, PoolHook(i))'
    BY <1>2, <1>4, <1>5
  <1>7. slot' = [slot EXCEPT ![v] = PoolHook(i)] /\ Placed(P)
    BY <1>1 DEF Write, Woven
  <1>8. Placed(P)'
    <2>1. PICK f : f = PoolHook(i)
      OBVIOUS
    <2>2. FoundAt(P, v, f)' /\ slot' = [slot EXCEPT ![v] = f]
      BY <1>6, <1>7, <2>1
    <2>3. SameTools
      BY <1>0 DEF SameTools
    <2> QED BY <1>0, <1>2, <1>5, <1>7, <2>2, <2>3, SlotGiven
  <1>9. /\ \A u \in Visitors \ {t} : visit'[u] = visit[u]
        /\ visit'[t].pc = "close"
    BY <1>0, EndVisitShape
  <1>10. Visiting(P, t)' /\ Allotted' /\ next' >= next
    BY <1>0, <1>9, StillAllotted, PoolAssumption DEF Visiting, ChainInv, TypeOK
  <1> QED BY <1>0, <1>8, <1>9, <1>10, StepWithoutLink

\* The visits when one closes its window.
LEMMA CloseShape ==
    ASSUME TypeOK, NEW t \in Visitors, Close(t)
    PROVE  /\ \A u \in Visitors \ {t} : visit'[u] = visit[u]
           /\ visit'[t].pc = "idle"
  BY DEF Close, NoVisit, TypeOK

\* A slot given something that may be found there, by no visit.
LEMMA ChainOther ==
    ASSUME TypeOK, TypeOK', Allotted, UNCHANGED <<original, entry, next, visit>>,
           NEW P \in SUBSET Fn, NEW R \in [Fn -> Nat], Woven(P, R),
           NEW v \in Vtable, NEW f, slot' = [slot EXCEPT ![v] = f], FoundAt(P, v, f),
           SameTools
    PROVE  ChainInv'
  <1>1. /\ Quiet(P)' /\ Ranked(R)'
        /\ \A w \in Vtable : \A g : FoundAt(P, w, g) => FoundAt(P, w, g)'
    BY NoLinkAdded DEF Woven, SameTools
  <1>2. FoundAt(P, v, f)'
    BY <1>1
  <1>3. Placed(P)'
    BY <1>1, <1>2, SlotGiven DEF Woven
  <1>4. ASSUME NEW u \in Visitors PROVE Visiting(P, u)'
    <2>1. Visiting(P, u) /\ visit'[u] = visit[u] /\ next' \in Nat /\ next' >= next
      BY PoolAssumption DEF Woven, TypeOK
    <2> QED BY <1>1, <2>1, VisitWaits
  <1>5. Allotted'
    BY DEF Allotted
  <1> QED BY <1>1, <1>3, <1>4, <1>5 DEF ChainInv, Woven

\* A tool gives back what it displaced, which is still good.
LEMMA ChainRestores ==
    ASSUME ChainInv, TypeOK', NEW g \in Tool, ToolRestores(g)
    PROVE  ChainInv'
  <1> PICK P \in SUBSET Fn, R \in [Fn -> Nat] : Woven(P, R)
    BY DEF ChainInv
  <1>0. TypeOK /\ Allotted /\ UNCHANGED <<original, entry, next, visit>>
    BY DEF ChainInv, ToolRestores
  <1>1. PICK v, f : v = tool[g].at /\ f = tool[g].chain
    OBVIOUS
  <1>2. v \in Vtable /\ FoundAt(P, v, f)
    BY <1>1 DEF ToolRestores, Woven, Placed
  <1>3. slot' = [slot EXCEPT ![v] = f]
    BY <1>1 DEF ToolRestores
  <1>4. SameTools
    <2>1. tool' = [tool EXCEPT ![g] = [tool[g] EXCEPT !.state = "returned"]]
          /\ tool[g].state = "placed"
      BY DEF ToolRestores
    <2> QED BY <1>0, <2>1 DEF TypeOK, SameTools
  <1> QED BY <1>0, <1>2, <1>3, <1>4, ChainOther

\* A module writes a function that ends every walk.
LEMMA ChainModule ==
    ASSUME ChainInv, TypeOK', NEW v \in Vtable, NEW f \in {Real(v), Alternative(v)},
           ModuleWrites(v, f)
    PROVE  ChainInv'
  <1> PICK P \in SUBSET Fn, R \in [Fn -> Nat] : Woven(P, R)
    BY DEF ChainInv
  <1>1. TypeOK /\ Allotted /\ UNCHANGED <<original, entry, next, tool, visit>>
        /\ slot' = [slot EXCEPT ![v] = f]
    BY DEF ChainInv, ModuleWrites, window
  <1>2. FoundAt(P, v, f)
    BY FnMade DEF FoundAt, Known, Ends, Real, Alternative, Woven, Quiet
  <1>3. SameTools
    BY <1>1 DEF SameTools
  <1> QED BY <1>1, <1>2, <1>3, ChainOther

\* A tool's hook linked to what it displaces.
LEMMA ChainPatches ==
    ASSUME ChainInv, TypeOK', NEW g \in Tool, NEW v \in Vtable, ToolPatches(g, v)
    PROVE  ChainInv'
  <1> PICK P \in SUBSET Fn, R \in [Fn -> Nat] : Woven(P, R)
    BY DEF ChainInv
  <1>0. /\ TypeOK /\ UNCHANGED <<original, entry, next, visit>>
        /\ tool[g].state = "unused"
    BY DEF ChainInv, ToolPatches, window
  <1>1. PICK y, x : y = slot[v] /\ x = ToolHook(g)
    OBVIOUS
  <1>2. /\ tool'[g] = [state |-> "placed", at |-> v, chain |-> y]
        /\ \A h \in Tool \ {g} : tool'[h] = tool[h]
        /\ slot'[v] = x /\ \A w \in Vtable \ {v} : slot'[w] = slot[w]
    BY <1>0, <1>1 DEF ToolPatches, TypeOK
  <1>3. FoundAt(P, v, y) /\ y \in Known
    BY <1>1 DEF Woven, Placed, FoundAt
  <1>4. x \in Fn /\ x.kind = "tool" /\ x.of = g
    BY <1>1, FnMade DEF ToolHook
  <1>5. x \notin Known
    BY <1>0, <1>1 DEF Known, Ends, Links, ToolLinks, HookLinks, ToolHook, PoolHook
  <1>6. Forward(x)' = y
    BY <1>2, <1>4 DEF Forward
  <1>7. \A h \in Known : Forward(h)' = Forward(h)
    <2> SUFFICES ASSUME NEW h \in Known PROVE Forward(h)' = Forward(h)
      OBVIOUS
    <2>1. h.kind = "tool" => h.of # g /\ h.of \in Tool
      BY <1>1, <1>5 DEF Known, Ends, Links, ToolLinks, HookLinks, ToolHook, PoolHook
    <2> QED BY <1>0, <1>2, <2>1 DEF Forward
  <1>8. HookLinks' = HookLinks /\ ToolLinks' = ToolLinks \cup {x}
    <2>1. HookLinks' = HookLinks
      BY <1>0 DEF HookLinks, Captured
    <2>2. {h \in Tool : tool'[h].state # "unused"}
            = {h \in Tool : tool[h].state # "unused"} \cup {g}
      BY <1>2
    <2> QED BY <1>1, <2>1, <2>2 DEF ToolLinks
  <1>9. \A w \in Vtable : Hooked(w) => Hooked(w)'
    BY <1>0 DEF Hooked, Keyed
  <1>10. PICK Q \in SUBSET Fn, S \in [Fn -> Nat] :
            /\ Quiet(Q)' /\ Ranked(S)' /\ P \subseteq Q /\ (y \in P => x \in Q)
            /\ \A w \in Vtable : \A f : FoundAt(P, w, f) => FoundAt(Q, w, f)'
    BY <1>3, <1>4, <1>5, <1>6, <1>7, <1>8, <1>9, LinkAdded DEF Woven
  <1>11. FoundAt(Q, v, x)'
    <2>1. x \in Known'
      BY <1>8 DEF Known, Links
    <2> QED BY <1>3, <1>9, <1>10, <2>1 DEF FoundAt
  <1>12. Placed(Q)'
    <2>1. ASSUME NEW w \in Vtable PROVE FoundAt(Q, w, slot[w])'
      <3>1. CASE w = v
        BY <1>2, <1>11, <3>1 DEF FoundAt
      <3>2. CASE w # v
        <4>1. PICK f : f = slot[w]
          OBVIOUS
        <4>2. FoundAt(P, w, f) /\ f = slot'[w]
          BY <1>2, <3>2, <4>1 DEF Woven, Placed
        <4>3. FoundAt(Q, w, f)'
          BY <1>10, <4>2
        <4> QED BY <4>2, <4>3 DEF FoundAt
      <3> QED BY <3>1, <3>2
    <2>2. ASSUME NEW h \in Tool, tool'[h].state # "unused"
          PROVE  tool'[h].at \in Vtable /\ FoundAt(Q, tool[h].at, tool[h].chain)'
      <3>1. CASE h = g
        <4>1. FoundAt(Q, v, y)' /\ v = tool'[h].at /\ y = tool'[h].chain
          BY <1>2, <1>3, <1>10, <3>1
        <4> QED BY <4>1 DEF FoundAt
      <3>2. CASE h # g
        <4>1. PICK w, f : w = tool[h].at /\ f = tool[h].chain
          OBVIOUS
        <4>2. w \in Vtable /\ FoundAt(P, w, f) /\ w = tool'[h].at /\ f = tool'[h].chain
          BY <1>2, <2>2, <3>2, <4>1 DEF Woven, Placed
        <4>3. FoundAt(Q, w, f)'
          BY <1>10, <4>2
        <4> QED BY <4>2, <4>3 DEF FoundAt
      <3> QED BY <3>1, <3>2
    <2> QED BY <2>1, <2>2 DEF Placed
  <1>13. ASSUME NEW u \in Visitors PROVE Visiting(Q, u)'
    <2>1. Visiting(P, u) /\ visit'[u] = visit[u] /\ next' \in Nat /\ next' >= next
      BY <1>0, PoolAssumption DEF Woven, TypeOK
    <2> QED BY <1>0, <1>10, <2>1, VisitWaits
  <1>14. Allotted'
    BY <1>0 DEF ChainInv, Allotted
  <1> QED BY <1>10, <1>12, <1>13, <1>14 DEF ChainInv, Woven

\* Every step keeps the ranks and the quiet set.
LEMMA ChainStep ==
    ASSUME ChainInv, [Next]_vars
    PROVE  ChainInv'
  <1>0. TypeOK /\ TypeOK'
    BY TypeStep DEF ChainInv
  <1>1. CASE UNCHANGED vars
    <2> PICK P \in SUBSET Fn, R \in [Fn -> Nat] : Woven(P, R)
      BY DEF ChainInv
    <2>1. UNCHANGED <<slot, original, entry, next, tool, visit>>
      BY <1>1 DEF vars
    <2>2. /\ Quiet(P)' /\ Ranked(R)'
          /\ \A w \in Vtable : \A g : FoundAt(P, w, g) => FoundAt(P, w, g)'
      BY <2>1, NoLinkAdded DEF Woven
    <2>3. Placed(P)'
      BY <2>1, <2>2, PlacesStay DEF Woven
    <2>4. ASSUME NEW u \in Visitors PROVE Visiting(P, u)'
      <3>1. Visiting(P, u) /\ visit'[u] = visit[u] /\ next' \in Nat /\ next' >= next
        BY <1>0, <2>1, PoolAssumption DEF Woven, TypeOK
      <3> QED BY <1>0, <2>1, <2>2, <3>1, VisitWaits
    <2>5. Allotted'
      BY <2>1 DEF ChainInv, Allotted
    <2> QED BY <1>0, <2>2, <2>3, <2>4, <2>5 DEF ChainInv, Woven
  <1>2. ASSUME NEW t \in Visitors, VisitStep(t) PROVE ChainInv'
    <2>1. CASE Close(t)
      <3>1. UNCHANGED <<slot, original, entry, next, tool>>
        BY <2>1 DEF Close
      <3> QED BY <1>0, <2>1, <3>1, CloseShape, ChainEnds
    <2> QED BY <1>0, <1>2, <2>1, ChainDecide, ChainLook, ChainClaim, ChainTake,
               ChainStore, ChainWrite DEF VisitStep
  <1>3. ASSUME NEW t \in Visitors, NEW v \in Vtable, Read(t, v) PROVE ChainInv'
    BY <1>0, <1>3, ChainRead
  <1>4. CASE Others
    <2>1. \A v \in Vtable : ModuleWrites(v, Real(v)) \/ ModuleWrites(v, Alternative(v))
            => ChainInv'
      BY <1>0, ChainModule
    <2> QED BY <1>0, <1>4, <2>1, ChainRestores, ChainPatches DEF Others
  <1> QED BY <1>1, <1>2, <1>3, <1>4 DEF Next

-----------------------------------------------------------------------------
(* What a call goes through                                                *)

\* Along a call ranks fall, until it ends.
LEMMA CallStays ==
    ASSUME TypeOK, NEW P \in SUBSET Fn, NEW R \in [Fn -> Nat], Woven(P, R),
           NEW v \in Vtable
    PROVE  \A n \in 0..Longest :
              /\ Call(v)[n] \in Known
              /\ Call(v)[n] \in Ends \/ R[Call(v)[n]] + n <= Cardinality(Links)
  <1> DEFINE c == Call(v)
             Good(n) == /\ c[n] \in Known
                        /\ c[n] \in Ends \/ R[c[n]] + n <= Cardinality(Links)
             S == {n \in 0..Longest : Good(n)}
  <1>1. Cardinality(Links) \in Nat /\ Longest \in Nat /\ Longest > 0
    BY LinksAreFinite, LongestIsNatural
  <1>2. Known \subseteq Fn
    BY FnMade DEF Known, Links, ToolLinks, HookLinks, Ends, Captured
  <1>3. c[0] = slot[v] /\ \A n \in 0..Longest : n > 0 => c[n] = Forward(c[n - 1])
    BY <1>1, CallUnfolds
  <1> HIDE DEF c
  <1>4. \A f \in Ends : Forward(f) = f
    BY DEF Ends, Forward
  <1>5. \A f \in Links : /\ R[f] <= Cardinality(Links) /\ Forward(f) \in Known
                        /\ R[Forward(f)] < R[f]
    BY DEF Woven, Ranked
  <1>6. \A f \in Known : R[f] \in Nat
    BY <1>2
  <1>7. 0 \in S
    <2>1. c[0] \in Known
      BY <1>3 DEF Woven, Placed, FoundAt
    <2>2. c[0] \in Ends \/ R[c[0]] + 0 <= Cardinality(Links)
      BY <1>5, <1>6, <2>1 DEF Known
    <2> QED BY <1>1, <2>1, <2>2
  <1>8. ASSUME NEW n \in 0..Longest, n > 0, n - 1 \in S
        PROVE  n \in S
    <2>1. PICK f : f = c[n - 1]
      OBVIOUS
    <2>2. f \in Known /\ (f \in Ends \/ R[f] + (n - 1) <= Cardinality(Links))
      BY <1>8, <2>1
    <2>3. c[n] = Forward(f)
      BY <1>3, <1>8, <2>1
    <2>4. CASE f \in Ends
      BY <1>4, <2>2, <2>3, <2>4
    <2>5. CASE f \in Links /\ f \notin Ends
      <3>1. Forward(f) \in Known /\ R[Forward(f)] < R[f]
        BY <1>5, <2>5
      <3>2. R[Forward(f)] + n <= Cardinality(Links)
        BY <1>1, <1>6, <1>8, <2>2, <2>5, <3>1
      <3> QED BY <2>3, <3>1, <3>2
    <2> QED BY <2>2, <2>4, <2>5 DEF Known
  <1> HIDE DEF S
  <1>9. \A n \in 0..Longest : n \in S
    BY <1>1, <1>7, <1>8, StepByStep
  <1> QED BY <1>9 DEF S, c

\* The ranks are used up before the walk is.
LEMMA CallsArriveHolds == ChainInv => CallsArrive
  <1> SUFFICES ASSUME ChainInv, NEW v \in Vtable
               PROVE  Call(v)[Longest].kind \in {"real", "alternative"}
    BY DEF CallsArrive
  <1> PICK P \in SUBSET Fn, R \in [Fn -> Nat] : Woven(P, R)
    BY DEF ChainInv
  <1>1. /\ Longest \in Nat /\ Cardinality(Links) \in Nat
        /\ Cardinality(Links) < Longest
    BY LongestIsNatural, LinksAreFinite
  <1>2. PICK f : f = Call(v)[Longest]
    OBVIOUS
  <1>3. f \in Known /\ (f \in Ends \/ R[f] + Longest <= Cardinality(Links))
    BY <1>1, <1>2, CallStays DEF ChainInv
  <1>4. R[f] \in Nat
    BY <1>3, FnMade DEF Known, Links, ToolLinks, HookLinks, Ends, Captured
  <1>5. f \in Ends
    BY <1>1, <1>3, <1>4
  <1> QED BY <1>2, <1>5 DEF Ends

\* Behind a hook everything is quiet.
LEMMA HookRunsOnceHolds == ChainInv => HookRunsOnce
  <1> SUFFICES ASSUME ChainInv, NEW v \in Vtable
               PROVE  Cardinality({n \in 0..Longest : Call(v)[n].kind = "hook"}) <= 1
    BY DEF HookRunsOnce
  <1> PICK P \in SUBSET Fn, R \in [Fn -> Nat] : Woven(P, R)
    BY DEF ChainInv
  <1> DEFINE c == Call(v)
             H == {n \in 0..Longest : c[n].kind = "hook"}
  <1>1. /\ Longest \in Nat
        /\ \A n \in 0..Longest : c[n] \in Known
        /\ \A n \in 0..Longest : n > 0 => c[n] = Forward(c[n - 1])
    BY LongestIsNatural, CallStays, CallUnfolds DEF ChainInv
  <1> HIDE DEF c
  <1>2. \A f \in P : f.kind # "hook" /\ Forward(f) \in P
    BY DEF Woven, Quiet
  <1>3. \A f \in Known : f.kind = "hook" => Forward(f) \in P
    BY DEF Woven, Quiet, Known, Links, ToolLinks, ToolHook, Ends
  <1>4. ASSUME NEW n \in H
        PROVE  \A m \in 0..Longest : m > n => m \notin H
    <2> DEFINE S == {m \in 0..Longest : m > n => c[m] \in P}
    <2>1. 0 \in S
      BY <1>1
    <2>2. ASSUME NEW m \in 0..Longest, m > 0, m - 1 \in S
          PROVE  m \in S
      <3>1. CASE m > n /\ m - 1 = n
        BY <1>1, <1>3, <1>4, <3>1
      <3>2. CASE m > n /\ m - 1 # n
        <4>1. m - 1 > n
          BY <1>1, <3>2
        <4>2. c[m - 1] \in P
          BY <2>2, <4>1
        <4> QED BY <1>1, <1>2, <2>2, <4>2
      <3> QED BY <3>1, <3>2
    <2> HIDE DEF S
    <2>3. \A m \in 0..Longest : m \in S
      BY <1>1, <2>1, <2>2, StepByStep
    <2> QED BY <1>2, <2>3 DEF S
  <1>5. CASE H = {}
    BY <1>5, FS_EmptySet DEF c
  <1>6. CASE H # {}
    <2>1. PICK n \in H : TRUE
      BY <1>6
    <2>2. H = {n}
      <3>1. ASSUME NEW m \in H PROVE m = n
        BY <1>1, <1>4
      <3> QED BY <3>1
    <2>3. Cardinality(H) = 1
      BY <2>2, FS_Singleton
    <2> QED BY <2>3 DEF c
  <1> QED BY <1>5, <1>6

-----------------------------------------------------------------------------
(* The window                                                              *)

\* As long as no overlap was seen there is at most one window, which found the
\* page protected.
WindowInv ==
    /\ TypeOK
    /\ ~warned =>
          /\ \A t, u \in Visitors :
                visit[t].pc # "idle" /\ visit[u].pc # "idle" => t = u
          /\ page = "writable" <=> \E t \in Visitors : visit[t].pc # "idle"
          /\ \A t \in Visitors : visit[t].pc # "idle" => visit[t].saved = "protected"

\* The count of windows says whether one is open.
LEMMA WindowsCounted ==
    /\ Windows \in Nat
    /\ Windows > 0 <=> \E t \in Visitors : visit[t].pc # "idle"
  <1> DEFINE B == {t \in Visitors : visit[t].pc # "idle"}
  <1>1. IsFiniteSet(Visitors)
    BY ThreadAssumption, FS_AddElement DEF Visitors
  <1>2. IsFiniteSet(B) /\ Cardinality(B) \in Nat
    BY <1>1, FS_Subset, FS_CardinalityType
  <1>3. Cardinality(B) = 0 <=> B = {}
    BY <1>2, FS_EmptySet
  <1> QED BY <1>2, <1>3 DEF Windows

\* At first none is open.
LEMMA WindowInit == Init => WindowInv
  <1>1. Init => \A t \in Visitors : visit[t].pc = "idle"
    BY DEF Init, NoVisit
  <1> QED BY <1>1, TypeInit DEF WindowInv, Init

\* A window that opens while another is open is logged.
LEMMA WindowStep ==
    ASSUME WindowInv, [Next]_vars
    PROVE  WindowInv'
  <1>0. TypeOK /\ TypeOK'
    BY TypeStep DEF WindowInv
  <1>1. ASSUME NEW t \in Visitors, UNCHANGED <<page, warned>>,
               \A u \in Visitors \ {t} : visit'[u] = visit[u],
               visit[t].pc # "idle", visit'[t].pc # "idle",
               visit'[t].saved = visit[t].saved
        PROVE  WindowInv'
    BY <1>0, <1>1 DEF WindowInv
  <1>2. ASSUME NEW t \in Visitors, NEW pc, pc # "idle", Goto(t, pc),
               UNCHANGED <<page, warned>>, visit[t].pc # "idle"
        PROVE  WindowInv'
    <2>1. visit'[t].saved = visit[t].saved
      BY <1>0, <1>2 DEF Goto, TypeOK, Visit
    <2>2. /\ \A u \in Visitors \ {t} : visit'[u] = visit[u]
          /\ visit'[t].pc # "idle"
      BY <1>0, <1>2, GotoShape
    <2> QED BY <1>1, <1>2, <2>1, <2>2
  <1>3. ASSUME NEW t \in Visitors, EndVisit(t), UNCHANGED <<page, warned>>,
               visit[t].pc # "idle"
        PROVE  WindowInv'
    <2>1. visit'[t].saved = visit[t].saved
      BY <1>0, <1>3 DEF EndVisit, Closing, NoVisit, TypeOK
    <2> QED BY <1>0, <1>1, <1>3, <2>1, EndVisitShape
  <1>4. ASSUME NEW t \in Visitors, NEW pc \in {"write", "store"}, NEW i,
               visit' = [visit EXCEPT ![t].pc = pc, ![t].idx = i],
               UNCHANGED <<page, warned>>, visit[t].pc # "idle"
        PROVE  WindowInv'
    <2>1. /\ visit'[t].saved = visit[t].saved /\ visit'[t].pc = pc
          /\ \A u \in Visitors \ {t} : visit'[u] = visit[u]
      BY <1>0, <1>4 DEF TypeOK, Visit
    <2> QED BY <1>1, <1>4, <2>1
  <1>5. ASSUME UNCHANGED <<visit, page, warned>>
        PROVE  WindowInv'
    BY <1>0, <1>5 DEF WindowInv
  <1>6. ASSUME NEW t \in Visitors, VisitStep(t) PROVE WindowInv'
    <2>1. CASE Decide(t)
      BY <1>2, <1>3, <2>1 DEF Decide, window
    <2>2. CASE Look(t)
      BY <1>2, <1>3, <1>4, <2>2 DEF Look, window
    <2>3. CASE Claim(t)
      BY <1>2, <1>4, <2>3 DEF Claim, window
    <2>4. CASE Take(t)
      BY <1>3, <1>4, <2>4 DEF Take, window
    <2>5. CASE Store(t)
      BY <1>2, <2>5 DEF Store, window
    <2>6. CASE Write(t)
      BY <1>3, <2>6 DEF Write, window
    <2>7. CASE Close(t)
      <3>1. /\ \A u \in Visitors \ {t} : visit'[u] = visit[u]
            /\ visit'[t].pc = "idle" /\ visit[t].pc = "close"
            /\ page' = visit[t].saved /\ warned' = warned
        BY <1>0, <2>7, CloseShape DEF Close
      <3> QED BY <1>0, <3>1 DEF WindowInv
    <2> QED BY <1>6, <2>1, <2>2, <2>3, <2>4, <2>5, <2>6, <2>7 DEF VisitStep
  <1>7. ASSUME NEW t \in Visitors, NEW v \in Vtable, Read(t, v) PROVE WindowInv'
    <2>1. /\ \A u \in Visitors \ {t} : visit'[u] = visit[u]
          /\ visit[t].pc = "idle" /\ visit'[t].pc # "idle" /\ visit'[t].saved = page
          /\ page' = "writable"
      BY <1>0, <1>7 DEF Read, TypeOK, Closing, NoVisit
    <2>2. ~warned' => ~warned /\ \A u \in Visitors : visit[u].pc = "idle"
      BY <1>7, WindowsCounted DEF Read, Overlaps
    <2>3. ~warned' => page = "protected"
      BY <1>0, <2>2 DEF WindowInv, TypeOK, Protection
    <2> QED BY <1>0, <2>1, <2>2, <2>3 DEF WindowInv
  <1>8. CASE Others
    BY <1>5, <1>8 DEF Others, ToolPatches, ToolRestores, ModuleWrites, window
  <1>9. CASE UNCHANGED vars
    BY <1>5, <1>9 DEF vars
  <1> QED BY <1>6, <1>7, <1>8, <1>9 DEF Next

-----------------------------------------------------------------------------
(* What a write leaves chained                                             *)

\* A plain vtable that is written over a tool forwards to that tool.
LEMMA PlainWrite ==
    ASSUME ChainInv, NEW v \in Plain, NEW t \in Visitors, Write(t), visit[t].of = v,
           visit[t].seen = slot[v], slot[v].kind = "tool"
    PROVE  PoolHook(0) = slot'[v] /\ original' = slot[v]
  <1> PICK P \in SUBSET Fn, R \in [Fn -> Nat] : Woven(P, R)
    BY DEF ChainInv
  <1>1. visit[t].idx = 0 /\ Reapplies(v, original, slot[v])
    BY DEF Write, Woven, Visiting
  <1>2. original = slot[v]
    BY <1>1 DEF Reapplies, InModule
  <1> QED BY <1>1, <1>2 DEF Write, ChainInv, TypeOK, Vtable

\* The same in the next state.
LEMMA CallUnfoldsNext ==
    (\A v : \A n \in 0..Longest :
        Call(v)[n] = IF n = 0 THEN slot[v] ELSE Forward(Call(v)[n - 1]))'
  BY CallUnfolds, PTL

\* So the tool is the second function of a call.
LEMMA PlainStaysStep == ChainInv => StaysChained(Plain)
  <1> SUFFICES ASSUME ChainInv, NEW v \in Plain, NEW t \in Visitors, Write(t),
                      visit[t].of = v, visit[t].seen = slot[v], slot[v].kind = "tool"
               PROVE  \E n \in 0..Longest : Call(v)'[n] = slot[v]
    BY DEF StaysChained
  <1>1. \A n \in 0..Longest :
           Call(v)'[n] = IF n = 0 THEN slot'[v] ELSE Forward(Call(v)[n - 1])'
    BY CallUnfoldsNext
  <1>2. 0 \in 0..Longest /\ 1 \in 0..Longest
    BY LongestIsNatural
  <1>3. Call(v)'[0] = slot'[v] /\ Call(v)'[1] = Forward(Call(v)[0])'
    BY <1>1, <1>2
  <1>4. PICK h : h = PoolHook(0)
    OBVIOUS
  <1>5. Call(v)'[0] = h /\ original' = slot[v]
    BY <1>3, <1>4, PlainWrite
  <1>6. Forward(h)' = original'
    BY <1>4 DEF Forward, PoolHook
  <1>7. Call(v)'[1] = slot[v]
    BY <1>3, <1>5, <1>6 DEF Forward
  <1> QED BY <1>2, <1>7

-----------------------------------------------------------------------------
(* Theorems                                                                *)

\* In each reachable state the types are right and the links are ranked, with a
\* quiet set, whatever visits, tools and modules did (intercept,
\* intercept_indexed, claim, write_hook).
THEOREM ChainsHold == Spec => []ChainInv
  BY ChainInit, ChainStep, PTL DEF Spec

\* A call through any vtable ends in a function of a module: no trampoline finds
\* its original missing and no chain of hooks is closed (intercept_inner, claim).
THEOREM CallsAlwaysArrive == Spec => []CallsArrive
  BY ChainsHold, CallsArriveHolds, PTL

\* A call runs our hook at most once, whatever lies on top of what
\* (intercept_inner, intercept_indexed).
THEOREM HooksRunOnce == Spec => []HookRunsOnce
  BY ChainsHold, HookRunsOnceHolds, PTL

\* Until an overlap is logged, the page is writable exactly while a window is
\* open (with_writable, ACTIVE_WINDOWS).
THEOREM OverlapsAreWarned == Spec => []OverlapIsWarned
  <1>1. WindowInv => OverlapIsWarned
    BY WindowsCounted DEF WindowInv, OverlapIsWarned
  <1> QED BY <1>1, WindowInit, WindowStep, PTL DEF Spec

\* A visit of a plain vtable that saw the slot as it still is forwards to the
\* tool it overwrites (classify_revisit).
THEOREM PlainStayChained == Spec => PlainStaysChained
  <1>1. ChainInv => [StaysChained(Plain)]_vars
    BY PlainStaysStep
  <1> QED BY <1>1, ChainsHold, PTL DEF PlainStaysChained

\* The behaviours of the run are behaviours of HookSlots, so that the theorems
\* above hold of them.
THEOREM RunsAreBehaviours == MCSpec => Spec
  <1>1. MCInit => Init
    BY DEF MCInit
  <1>2. [MCNext]_<<vars, family, pvars>> => [Next]_vars
    BY DEF MCNext
  <1> QED BY <1>1, <1>2, PTL DEF MCSpec, Spec

-----------------------------------------------------------------------------
(* The hat                                                                 *)

\* How far the hat is from a direction, clockwise.
LEMMA Turn ==
    ASSUME NEW pov \in Nat, pov < Pad!Full, NEW direction \in Nat, direction < Pad!Full
    PROVE  (pov - direction) % Pad!Full =
               IF direction <= pov THEN pov - direction ELSE pov - direction + Pad!Full
  BY DEF Pad!Full

\* The comparisons of convert_pov pick the directions within 45 degrees, the
\* horizontal one from left before right and the vertical from up before down.
LEMMA ConvertIsNear ==
    ASSUME NEW pov \in Nat, pov < Pad!Full, NEW x, NEW y
    PROVE  Pad!Convert(pov, x, y) = <<Pad!Axis(pov, 27000, 9000), Pad!Axis(pov, 0, 18000)>>
  <1>1. Pad!Near(pov, 27000) <=> 22500 <= pov /\ pov <= 31500
    <2>1. 27000 < Pad!Full
      BY DEF Pad!Full
    <2>2. (pov - 27000) % Pad!Full =
              IF 27000 <= pov THEN pov - 27000 ELSE pov - 27000 + Pad!Full
      BY <2>1, Turn
    <2> QED
      BY <2>2 DEF Pad!Near, Pad!Full
  <1>2. Pad!Near(pov, 9000) <=> 4500 <= pov /\ pov <= 13500
    <2>1. 9000 < Pad!Full
      BY DEF Pad!Full
    <2>2. (pov - 9000) % Pad!Full =
              IF 9000 <= pov THEN pov - 9000 ELSE pov - 9000 + Pad!Full
      BY <2>1, Turn
    <2> QED
      BY <2>2 DEF Pad!Near, Pad!Full
  <1>3. Pad!Near(pov, 0) <=> pov <= 4500 \/ pov >= 31500
    <2>1. 0 < Pad!Full
      BY DEF Pad!Full
    <2>2. (pov - 0) % Pad!Full =
              IF 0 <= pov THEN pov - 0 ELSE pov - 0 + Pad!Full
      BY <2>1, Turn
    <2> QED
      BY <2>2 DEF Pad!Near, Pad!Full
  <1>4. Pad!Near(pov, 18000) <=> 13500 <= pov /\ pov <= 22500
    <2>1. 18000 < Pad!Full
      BY DEF Pad!Full
    <2>2. (pov - 18000) % Pad!Full =
              IF 18000 <= pov THEN pov - 18000 ELSE pov - 18000 + Pad!Full
      BY <2>1, Turn
    <2> QED
      BY <2>2 DEF Pad!Near, Pad!Full
  <1>5. ~(pov >= Pad!Full)
    BY DEF Pad!Full
  <1>6. Pad!Axis(pov, 27000, 9000) =
            IF 22500 <= pov /\ pov <= 31500 THEN Pad!Low
            ELSE IF 4500 <= pov /\ pov <= 13500 THEN Pad!High ELSE 0
    BY <1>1, <1>2 DEF Pad!Axis
  <1>7. Pad!Axis(pov, 0, 18000) =
            IF pov <= 4500 \/ pov >= 31500 THEN Pad!Low
            ELSE IF 13500 <= pov /\ pov <= 22500 THEN Pad!High ELSE 0
    BY <1>3, <1>4 DEF Pad!Axis
  <1> QED
    BY <1>5, <1>6, <1>7 DEF Pad!Convert

-----------------------------------------------------------------------------
(* The hooks                                                               *)

\* With a callback registered, what is asked for and not refused is hooked, and
\* so is each device that is due; without one nothing is due.
Wired ==
    /\ dpad => asked \ refused \subseteq hooked
    /\ entitled \ refused \subseteq hooked
    /\ ~dpad => entitled = {}

\* A visit leaves no vtable out: it is hooked, or counts as refused.
LEMMA VisitWires ==
    ASSUME NEW v, NEW due, due \ refused \subseteq hooked, Pad!Visit(v)
    PROVE  (due \cup {v}) \ refused' \subseteq hooked'
  BY DEF Pad!Visit

\* At first nothing is due.
LEMMA WiredInit == Pad!Init => Wired
  BY DEF Pad!Init, Wired

\* Each visit hooks a vtable or marks it refused.
LEMMA WiredStep ==
    ASSUME Wired, [Pad!Next]_pvars
    PROVE  Wired'
  <1>1. CASE UNCHANGED pvars
    BY <1>1 DEF Wired, pvars
  <1>2. ASSUME NEW i \in Interface, NEW iid \in {"A", "W", "other"},
               Pad!DirectInput8Create(i, iid)
        PROVE  Wired'
    <2>1. UNCHANGED <<dpad, entitled>>
      BY <1>2 DEF Pad!DirectInput8Create
    <2>2. CASE UNCHANGED <<asked, hooked, refused>>
      BY <2>1, <2>2 DEF Wired
    <2>3. CASE ~UNCHANGED <<asked, hooked, refused>>
      <3>1. /\ asked' = IF iid \in {"A", "W"} THEN asked \cup {i} ELSE asked
            /\ Pad!OnCreated(i, iid)
        BY <1>2, <2>3 DEF Pad!DirectInput8Create
      <3>2. CASE Pad!Visit(i) /\ dpad
        <4>1. (asked \cup {i}) \ refused' \subseteq hooked'
          BY <3>2, VisitWires DEF Wired
        <4>2. (entitled \cup {i}) \ refused' \subseteq hooked'
          BY <3>2, VisitWires DEF Wired
        <4> QED
          BY <2>1, <3>1, <3>2, <4>1, <4>2 DEF Wired
      <3>3. CASE UNCHANGED <<hooked, refused>> /\ ~(iid \in {"A", "W"} /\ dpad)
        BY <2>1, <3>1, <3>3 DEF Wired
      <3> QED
        BY <3>1, <3>2, <3>3 DEF Pad!OnCreated
    <2> QED
      BY <2>2, <2>3
  <1>3. ASSUME NEW i \in Interface, NEW d \in Device, Pad!HookDiCreateDevice(i, d)
        PROVE  Wired'
    <2>1. /\ UNCHANGED <<dpad, asked>>
          /\ entitled' \subseteq entitled \cup {d}
          /\ entitled' # entitled => dpad /\ i \in hooked
      BY <1>3 DEF Pad!HookDiCreateDevice, Wired
    <2>2. CASE i \in hooked
      <3>1. Pad!Visit(d)
        BY <1>3, <2>2 DEF Pad!HookDiCreateDevice
      <3>2. (entitled \cup {d}) \ refused' \subseteq hooked'
        BY <3>1, VisitWires DEF Wired
      <3>3. dpad => (asked \cup {d}) \ refused' \subseteq hooked'
        BY <3>1, VisitWires DEF Wired
      <3> QED
        BY <2>1, <3>2, <3>3 DEF Wired
    <2>3. CASE i \notin hooked
      <3>1. UNCHANGED <<hooked, refused>>
        BY <1>3, <2>3 DEF Pad!HookDiCreateDevice
      <3> QED
        BY <2>1, <2>3, <3>1 DEF Wired
    <2> QED
      BY <2>2, <2>3
  <1>4. ASSUME NEW d \in Device, NEW f \in Pad!Format, NEW p \in Hat,
               NEW x \in Stick, NEW y \in Stick, Pad!HookGetDeviceState(d, f, p, x, y)
        PROVE  Wired'
    BY <1>4 DEF Pad!HookGetDeviceState, Wired
  <1> QED
    BY <1>1, <1>2, <1>3, <1>4 DEF Pad!Next

-----------------------------------------------------------------------------

\* At first no state was read.
LEMMA HatSteersInit == Pad!Init => Pad!HatSteers
  BY DEF Pad!Init, Pad!HatSteers, Pad!NoRead, Pad!Full

\* A state read through a hook has the hat for a stick.
LEMMA HatSteersStep ==
    ASSUME Hat \subseteq Nat, Wired, Pad!HatSteers, [Pad!Next]_pvars
    PROVE  Pad!HatSteers'
  <1>1. CASE UNCHANGED read
    BY <1>1 DEF Pad!HatSteers, Pad!Axis, Pad!Near, Pad!Full, Pad!Low, Pad!High
  <1>2. ASSUME NEW d \in Device, NEW f \in Pad!Format, NEW p \in Hat,
               NEW x \in Stick, NEW y \in Stick, Pad!HookGetDeviceState(d, f, p, x, y)
        PROVE  Pad!HatSteers'
    <2>1. /\ read'.format = f /\ read'.pov = p /\ read'.axes = <<x, y>>
          /\ read'.due = (d \in entitled \ refused)
          /\ read'.got = IF d \in hooked /\ f = "joystick"
                         THEN Pad!Convert(p, x, y) ELSE <<x, y>>
      BY <1>2 DEF Pad!HookGetDeviceState
    <2>2. CASE read'.due /\ f = "joystick" /\ p < Pad!Full
      <3>1. d \in hooked
        BY <2>1, <2>2 DEF Wired
      <3>2. p \in Nat /\ p < Pad!Full
        BY <2>2
      <3>3. read'.got = <<Pad!Axis(p, 27000, 9000), Pad!Axis(p, 0, 18000)>>
        BY <2>1, <2>2, <3>1, <3>2, ConvertIsNear
      <3> QED
        BY <2>1, <2>2, <3>3 DEF Pad!HatSteers
    <2>3. CASE ~(read'.due /\ f = "joystick" /\ p < Pad!Full)
      <3>1. f = "keyboard" \/ p >= Pad!Full => read'.got = <<x, y>>
        BY <2>1 DEF Pad!Convert
      <3> QED
        BY <2>1, <2>3, <3>1 DEF Pad!HatSteers
    <2> QED
      BY <2>2, <2>3
  <1>3. CASE Pad!Next /\ ~UNCHANGED read
    <2>1. PICK d \in Device, f \in Pad!Format, p \in Hat, x \in Stick, y \in Stick :
              Pad!HookGetDeviceState(d, f, p, x, y)
      BY <1>3 DEF Pad!Next, Pad!DirectInput8Create, Pad!HookDiCreateDevice
    <2> QED
      BY <2>1, <1>2
  <1> QED
    BY <1>1, <1>3 DEF pvars

\* Every device that is due gets its hat as a stick, for all natural numbers
\* that a driver may report (hook_get_device_state, convert_pov).
THEOREM DeviceIsSteered ==
    ASSUME Hat \subseteq Nat
    PROVE  MCSpec => []HatSteers
  <1>1. MCInit => Wired /\ Pad!HatSteers
    BY WiredInit, HatSteersInit DEF MCInit
  <1>2. [MCNext]_<<vars, family, pvars>> => [Pad!Next]_pvars
    BY DEF MCNext
  <1>3. Wired /\ Pad!HatSteers /\ [MCNext]_<<vars, family, pvars>> => (Wired /\ Pad!HatSteers)'
    BY <1>2, WiredStep, HatSteersStep
  <1> QED
    BY <1>1, <1>3, PTL DEF MCSpec, HatSteers
=============================================================================
