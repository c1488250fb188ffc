----------------------------- MODULE Attach_proof -----------------------------
(***************************************************************************)
(* Attachment, for any number of patch sites and any room in the registry  *)
(* of installs that holds the two timer hooks.                             *)
(*                                                                         *)
(* Three things are kept: the sites written are those before the one that  *)
(* install_all has come to, and nothing else is touched before they are    *)
(* all in; what an import's slot, our original and the tool's hook hold is *)
(* acyclic; and unless the log has warned, both timer stubs are on record  *)
(* or none is, so the game gives up no more requests than it makes, until  *)
(* a tool leads timeEndPeriod past our stub for good.                      *)
(***************************************************************************)
EXTENDS Attach, FiniteSetTheorems, TLAPS

USE SitesAssumption, MaxTrackedAssumption, MaxRequestsAssumption

Begin == "timeBeginPeriod"
End == "timeEndPeriod"

-----------------------------------------------------------------------------
(* The imports                                                             *)

LEMMA Imports ==
    /\ Len(Order) = 4
    /\ Order[1] = Begin /\ Order[2] = End
    /\ Order[3] = "ExitProcess" /\ Order[4] = "DialogBoxParamA"
    /\ Import = {Begin, End, "ExitProcess", "DialogBoxParamA"}
    /\ Timer = {Begin, End} /\ Rewritten = {"DialogBoxParamA"}
    /\ Begin # End
<1>1. DOMAIN Order = 1..4 /\ Len(Order) = 4
  BY DEF Order
<1>2. /\ Order[1] = Begin /\ Order[2] = End
      /\ Order[3] = "ExitProcess" /\ Order[4] = "DialogBoxParamA"
  BY DEF Order, Begin, End
<1>3. 1..4 = {1, 2, 3, 4}
  OBVIOUS
<1>4. Import = {Begin, End, "ExitProcess", "DialogBoxParamA"}
  BY <1>1, <1>2, <1>3 DEF Import
<1> QED
  BY <1>1, <1>2, <1>4 DEF Timer, Rewritten, Begin, End

LEMMA Distinct ==
    ASSUME NEW j \in 1..4, NEW k \in 1..4
    PROVE  Order[j] = Order[k] <=> j = k
BY Imports DEF Begin, End

LEMMA TwoTimers == Cardinality(Timer) = 2
<1>1. Timer = {Begin} \cup {End} /\ End \notin {Begin}
  BY Imports
<1>2. IsFiniteSet({Begin}) /\ Cardinality({Begin}) = 1
  BY FS_Singleton
<1>3. Cardinality({Begin} \cup {End}) = Cardinality({Begin}) + 1
  BY <1>1, <1>2, FS_AddElement
<1> QED
  BY <1>1, <1>2, <1>3

-----------------------------------------------------------------------------
(* The inductive invariant                                                 *)

\* Before the imports, and in a game that is left alone or ended.
Outside == {"precheck", "write", "verify", "pin", "vanilla", "aborted"}

SitesInOrder ==
    /\ phase \in {"precheck", "vanilla"} => patched = {}
    /\ phase = "precheck" => at = 1
    /\ phase = "write" => at \in Site /\ patched = 1..(at - 1)
    /\ phase = "verify" => at \in Site /\ patched = 1..at
    /\ phase \in {"pin", "imports", "game"} => patched = Site

\* An import that no hook was tried for.
Untouched(i) ==
    /\ slot[i] # "ours" /\ original[i] = "none" /\ tool[i] # "ours"
    /\ i \notin tracked

NothingHooked ==
    phase \in Outside =>
        /\ \A i \in Import : Untouched(i)
        /\ ~pinned /\ requests = 0 /\ ~inFrame

\* What is in a slot leads on: to a tool that was bound, or to our hook, whose
\* original is a function or a tool that leads to one.
Chain(i) ==
    /\ slot[i] = "tool" => tool[i] # "none"
    /\ slot[i] = "ours" => original[i] \in {"real", "tool"}
    /\ original[i] \in {"none", "real", "tool"}
    /\ original[i] = "tool" => tool[i] = "real"
    /\ tool[i] = "ours" => original[i] = "real"
    /\ i \in Timer => slot[i] # "null"
    /\ i \in tracked => slot[i] # "null" /\ (slot[i] # "ours" => tool[i] # "none")

Chains == \A i \in Import : Chain(i)

Installing ==
    phase = "imports" =>
        /\ at \in 1..4
        /\ \A k \in at..4 : Untouched(Order[k])
        /\ \A i \in tracked : slot[i] = "ours"
        /\ \A i \in Import : tool[i] # "ours"
        /\ requests = (IF pinned THEN 1 ELSE 0) /\ ~inFrame
        /\ pinned \/ warned

Recording == \A i \in Timer \ tracked : slot[i] # "ours" /\ tool[i] # "ours"

BothOrNone ==
    pinned /\ ~warned /\ (phase = "game" \/ (phase = "imports" /\ at \in {3, 4})) =>
        (Begin \in tracked <=> End \in tracked)

\* The game's calls go past our hook, and will not come back to it.
Past(i) == slot[i] = "real" \/ (slot[i] = "tool" /\ tool[i] = "real")

Held ==
    phase = "game" /\ pinned /\ ~warned =>
        IF End \in tracked THEN Past(End) \/ requests >= 1
        ELSE requests >= (IF inFrame THEN 2 ELSE 1)

AttachInv ==
    /\ TypeOK /\ SitesInOrder /\ NothingHooked /\ Chains /\ Installing
    /\ Recording /\ BothOrNone /\ Held

LEMMA InvInit == Init => AttachInv
<1> SUFFICES ASSUME Init PROVE AttachInv
  OBVIOUS
<1>1. TypeOK
  <2>1. at \in 1..Len(Order) \cup Site
    BY Imports DEF Init, Site
  <2>2. slot \in [Import -> {"real", "tool", "ours", "null"}]
    BY DEF Init
  <2>3. tool \in [Import -> {"none", "real", "ours"}]
    BY DEF Init
  <2>4. code \in [Site -> {"expected", "ours", "foreign"}]
    BY DEF Init
  <2>5. original \in [Import -> {"none", "real", "tool", "ours"}]
    BY DEF Init
  <2>6. phase \in Phase /\ patched \subseteq Site /\ imported \subseteq Import
    BY DEF Init, Phase
  <2>7. /\ tracked \subseteq Import /\ displaced \subseteq tracked
    BY DEF Init
  <2>8. {pinned, warned, inFrame, audited} \subseteq BOOLEAN
    BY DEF Init
  <2>9. requests \in 0..MaxRequests
    BY DEF Init
  <2> QED
    BY <2>1, <2>2, <2>3, <2>4, <2>5, <2>6, <2>7, <2>8, <2>9 DEF TypeOK
<1>2. SitesInOrder
  BY DEF Init, SitesInOrder
<1>3. NothingHooked /\ Chains /\ Recording
  BY Imports DEF Init, NothingHooked, Untouched, Chains, Chain, Recording
<1>4. Installing /\ BothOrNone /\ Held
  BY DEF Init, Installing, BothOrNone, Held
<1> QED
  BY <1>1, <1>2, <1>3, <1>4 DEF AttachInv

-----------------------------------------------------------------------------
(* Where calls end                                                         *)

LEMMA TimerReaches ==
    ASSUME TypeOK, Chains, NEW i \in Timer
    PROVE  Reaches(i) = IF Past(i) THEN "real" ELSE "stub"
<1>1. i \in Import /\ i \notin Rewritten
  BY Imports DEF Begin, End
<1>2. /\ Entry(i) = slot[i] /\ slot[i] \in {"real", "tool", "ours"}
      /\ tool[i] \in {"none", "real", "ours"}
      /\ slot[i] = "tool" => tool[i] # "none"
  BY <1>1 DEF Entry, TypeOK, Chains, Chain
<1>3. /\ Forward(i, "real") = "real" /\ Forward(i, "stub") = "stub"
      /\ Forward(i, "ours") = "stub" /\ Forward(i, "tool") = tool[i]
  BY DEF Forward
<1> QED
  BY <1>2, <1>3 DEF Reaches, Past

LEMMA OtherReaches ==
    ASSUME TypeOK, Chains, NEW i \in Import \ Timer,
           slot[i] # "null" \/ i \in Rewritten
    PROVE  Reaches(i) = "real"
<1>1. /\ Forward(i, "real") = "real" /\ Forward(i, "tool") = tool[i]
      /\ Forward(i, "ours") = IF original[i] = "none"
                              THEN IF i \in Rewritten THEN "real" ELSE "panic"
                              ELSE original[i]
  BY DEF Forward
<1>2. /\ slot[i] \in {"real", "tool", "ours", "null"}
      /\ tool[i] \in {"none", "real", "ours"}
      /\ Chain(i)
  BY DEF TypeOK, Chains
<1>3. Entry(i) \in {"real", "tool", "ours"}
  BY <1>2 DEF Entry
<1>4. Entry(i) = "tool" => tool[i] \in {"real", "ours"}
  BY <1>2 DEF Entry, Chain
<1>5. CASE original[i] = "tool"
  <2>1. tool[i] = "real"
    BY <1>2, <1>5 DEF Chain
  <2>2. Forward(i, "ours") = "tool"
    BY <1>1, <1>5
  <2> QED
    BY <1>1, <1>3, <2>1, <2>2 DEF Reaches
<1>6. CASE original[i] = "real"
  <2>1. Forward(i, "ours") = "real"
    BY <1>1, <1>6
  <2> QED
    BY <1>1, <1>3, <1>4, <2>1 DEF Reaches
<1>7. CASE original[i] = "none"
  <2>1. tool[i] # "ours" /\ (Entry(i) = "ours" => i \in Rewritten)
    BY <1>2, <1>7 DEF Chain, Entry
  <2>2. i \in Rewritten => Forward(i, "ours") = "real"
    BY <1>1, <1>7
  <2> QED
    BY <1>1, <1>3, <1>4, <2>1, <2>2 DEF Reaches
<1> QED
  BY <1>2, <1>5, <1>6, <1>7 DEF Chain

-----------------------------------------------------------------------------
(* The steps of install_hooks                                              *)

LEMMA PatchSteps ==
    ASSUME AttachInv,
           \/ Precheck \/ WriteSite \/ WriteRefused \/ VerifySite
           \/ \E s \in Site : ForeignWrite(s)
    PROVE  AttachInv'
<1>1. /\ phase \in Outside /\ phase' \in Outside /\ phase' \in Phase
      /\ UNCHANGED <<hooks, imported, tool, timer, audit>>
  BY DEF Precheck, WriteSite, WriteRefused, VerifySite, ForeignWrite, Outside, Phase
<1>2. /\ \A i \in Import : Untouched(i)' /\ Chain(i)'
      /\ ~pinned' /\ requests' = 0 /\ ~inFrame'
  BY <1>1 DEF AttachInv, NothingHooked, Chains, Untouched, Chain, hooks, timer
<1>3. /\ phase \in {"write", "verify"} => at \in Site /\ at \in Nat /\ 1 <= at /\ at <= Sites
      /\ Site = 1..Sites
  BY DEF AttachInv, SitesInOrder, Site
<1>4. /\ SitesInOrder'
      /\ at' \in 1..Len(Order) \cup Site /\ patched' \subseteq Site
      /\ code' \in [Site -> {"expected", "ours", "foreign"}]
  <2>1. CASE Precheck
    BY <2>1, 1 \in Site, 1..(1 - 1) = {}
       DEF AttachInv, TypeOK, SitesInOrder, Precheck, patching, Site
  <2>2. CASE WriteSite
    <3>1. at \in Site /\ patched = 1..(at - 1)
      BY <2>2 DEF AttachInv, SitesInOrder, WriteSite
    <3>2. patched' = 1..at
      BY <1>3, <2>2, <3>1 DEF WriteSite
    <3>3. patched' \subseteq Site
      BY <1>3, <2>2, <3>2 DEF WriteSite
    <3> QED
      BY <2>2, <3>1, <3>2, <3>3 DEF AttachInv, TypeOK, SitesInOrder, WriteSite
  <2>3. CASE WriteRefused
    <3>1. at = 1 => patched = {}
      BY <2>3, 1..(1 - 1) = {} DEF AttachInv, SitesInOrder, WriteRefused
    <3> QED
      BY <2>3, <3>1 DEF AttachInv, TypeOK, SitesInOrder, WriteRefused, patching
  <2>4. CASE VerifySite
    <3>1. at \in Site /\ patched = 1..at
      BY <2>4 DEF AttachInv, SitesInOrder, VerifySite
    <3>2. at < Sites => at + 1 \in Site /\ (at + 1) - 1 = at
      BY <1>3, <3>1
    <3>3. ~(at < Sites) => patched = Site
      BY <1>3, <3>1
    <3>4. 1 \in Site
      BY DEF Site
    <3>5. at < Sites => patched = 1..((at + 1) - 1)
      BY <3>1, <3>2
    <3>6. UNCHANGED <<code, patched>>
      BY <2>4 DEF VerifySite, patching
    <3>7. SitesInOrder'
      BY <2>4, <3>1, <3>2, <3>3, <3>5, <3>6 DEF SitesInOrder, VerifySite
    <3> QED
      BY <2>4, <3>1, <3>2, <3>4, <3>6, <3>7 DEF AttachInv, TypeOK, VerifySite
  <2>5. CASE \E s \in Site : ForeignWrite(s)
    BY <2>5 DEF AttachInv, TypeOK, SitesInOrder, ForeignWrite
  <2> QED
    BY <2>1, <2>2, <2>3, <2>4, <2>5
<1>5. TypeOK'
  BY <1>1, <1>4 DEF AttachInv, TypeOK, hooks, timer, audit
<1>6. NothingHooked' /\ Chains'
  BY <1>2 DEF NothingHooked, Chains
<1>7. Recording'
  BY <1>2, Imports DEF Recording, Untouched
<1>8. Installing' /\ BothOrNone' /\ Held'
  BY <1>1, <1>2 DEF Installing, BothOrNone, Held, Outside
<1> QED
  BY <1>4, <1>5, <1>6, <1>7, <1>8 DEF AttachInv

LEMMA PinStep ==
    ASSUME AttachInv, Pin
    PROVE  AttachInv'
<1>1. /\ \A i \in Import : Untouched(i)
      /\ UNCHANGED <<patching, hooks, imported, tool, inFrame, audit>>
      /\ phase' = "imports"
      /\ ~inFrame
  BY DEF AttachInv, NothingHooked, Pin, Outside
<1>2. \/ pinned' = TRUE /\ requests' = 1 /\ at' = 1 /\ warned' = FALSE
      \/ pinned' = FALSE /\ requests' = 0 /\ at' = 3 /\ warned' = TRUE
  BY TwoTimers DEF Pin
<1>3. \A i \in Import : Untouched(i)' /\ Chain(i)'
  BY <1>1 DEF AttachInv, Chains, Untouched, Chain, hooks
<1>4. at' \in 1..4 /\ requests' \in 0..MaxRequests
  BY <1>2
<1>5. TypeOK'
  BY <1>1, <1>2, <1>4, Imports DEF AttachInv, TypeOK, Phase, hooks, patching, audit
<1>6. tracked' = {}
  BY <1>1 DEF AttachInv, TypeOK, Untouched, hooks
<1>7. \A k \in at'..4 : Order[k] \in Import
  BY <1>4, Imports
<1>8. Installing'
  BY <1>1, <1>2, <1>3, <1>4, <1>6, <1>7 DEF Installing, Untouched
<1>9. SitesInOrder' /\ NothingHooked' /\ BothOrNone' /\ Held'
  BY <1>1, <1>2 DEF AttachInv, SitesInOrder, NothingHooked, BothOrNone, Held,
                    Outside, Pin, patching
<1>10. Chains' /\ Recording'
  BY <1>3, Imports DEF Chains, Recording, Untouched
<1> QED
  BY <1>5, <1>8, <1>9, <1>10 DEF AttachInv

\* What a try at the import i leaves of the others, and of itself.
Tried(i) ==
    /\ \A j \in Import \ {i} :
        /\ slot'[j] = slot[j] /\ original'[j] = original[j]
        /\ j \in tracked' <=> j \in tracked
    /\ i \in tracked' => slot'[i] = "ours"
    /\ i \in Timer /\ slot'[i] = "ours" => i \in tracked'
    /\ Chain(i)'
    /\ UNCHANGED tool

LEMMA TriesOne ==
    ASSUME AttachInv, NEW i \in Import, InstallStep(i)
    PROVE  Tried(i) /\ TypeOK'
<1>1. /\ phase = "imports" /\ at \in 1..4 /\ Order[at] = i
      /\ UNCHANGED <<patching, imported, tool, pinned, requests, inFrame, audit>>
      /\ Proceed(i)
  BY DEF AttachInv, Installing, InstallStep, Install, InstallRefused, InstallMissed
<1>2. /\ slot[i] \in {"real", "tool", "null"} /\ original[i] = "none"
      /\ tool[i] \in {"none", "real"} /\ i \notin tracked /\ Chain(i)
  <2>1. Untouched(Order[at])
    BY <1>1 DEF AttachInv, Installing
  <2> QED
    BY <1>1, <2>1 DEF AttachInv, TypeOK, Untouched, Chains
<1>3. phase' \in Phase /\ at' \in 1..4 /\ warned' \in BOOLEAN
  <2>1. at < Len(Order) => at + 1 \in 1..4
    BY <1>1, Imports
  <2> QED
    BY <1>1, <2>1 DEF AttachInv, TypeOK, Proceed, Phase
<1>4. i \in Timer => Recorded(i) = tracked \cup {i}
  <2> SUFFICES ASSUME i \in Timer PROVE Cardinality(tracked) < MaxTracked
    BY DEF Recorded
  <2>1. at \in {1, 2}
    <3>1. i = Order[1] \/ i = Order[2]
      BY Imports
    <3>2. 1 \in 1..4 /\ 2 \in 1..4
      OBVIOUS
    <3> QED
      BY <1>1, <3>1, <3>2, Distinct
  <2>2. \A k \in 2..4 : Order[k] \notin tracked
    <3>1. at = 2 => \A k \in 2..4 : Order[k] \notin tracked
      BY <1>1 DEF AttachInv, Installing, Untouched
    <3>2. at = 1 => \A k \in 1..4 : Order[k] \notin tracked
      BY <1>1 DEF AttachInv, Installing, Untouched
    <3>3. \A k \in 2..4 : k \in 1..4
      OBVIOUS
    <3> QED
      BY <2>1, <3>1, <3>2, <3>3
  <2>3. tracked \subseteq {Begin}
    <3>1. 2 \in 2..4 /\ 3 \in 2..4 /\ 4 \in 2..4
      OBVIOUS
    <3>2. tracked \subseteq Import
      BY DEF AttachInv, TypeOK
    <3> QED
      BY <2>2, <3>1, <3>2, Imports
  <2>4. tracked = {} \/ tracked = {Begin}
    BY <2>3
  <2>5. Cardinality({}) = 0 /\ Cardinality({Begin}) = 1
    BY FS_EmptySet, FS_Singleton
  <2>6. Cardinality(tracked) \in {0, 1}
    BY <2>4, <2>5
  <2> QED
    BY <2>6
<1>5. Recorded(i) \in {tracked, tracked \cup {i}}
  BY DEF Recorded
<1>6. /\ slot \in [Import -> {"real", "tool", "ours", "null"}]
      /\ original \in [Import -> {"none", "real", "tool", "ours"}]
      /\ tracked \subseteq Import /\ displaced \subseteq tracked
  BY DEF AttachInv, TypeOK
<1>7. CASE Install(i)
  <2>1. /\ slot' = [slot EXCEPT ![i] = "ours"]
        /\ original' = [original EXCEPT ![i] = slot[i]]
        /\ tracked' = Recorded(i) /\ slot[i] \in {"real", "tool"}
    BY <1>2, <1>7 DEF Install
  <2>2. /\ slot'[i] = "ours" /\ original'[i] = slot[i]
        /\ \A j \in Import \ {i} : slot'[j] = slot[j] /\ original'[j] = original[j]
    BY <1>6, <2>1
  <2>3. Chain(i)'
    BY <1>1, <1>2, <2>1, <2>2 DEF Chain
  <2>4. TypeOK'
    <3>1. slot' \in [Import -> {"real", "tool", "ours", "null"}]
      BY <1>6, <2>1
    <3>2. original' \in [Import -> {"none", "real", "tool", "ours"}]
      BY <1>6, <2>1
    <3>3. tracked' \subseteq Import /\ displaced \subseteq tracked'
      BY <1>5, <1>6, <2>1
    <3> QED
      BY <1>1, <1>3, <3>1, <3>2, <3>3, Imports DEF AttachInv, TypeOK, patching, audit
  <2> QED
    BY <1>1, <1>4, <1>5, <2>1, <2>2, <2>3, <2>4 DEF Tried
<1>8. CASE InstallRefused(i)
  <2>1. /\ original' = [original EXCEPT ![i] = slot[i]]
        /\ UNCHANGED <<slot, tracked>> /\ slot[i] \in {"real", "tool"}
    BY <1>2, <1>8 DEF InstallRefused
  <2>2. /\ original'[i] = slot[i]
        /\ \A j \in Import \ {i} : original'[j] = original[j]
    BY <1>6, <2>1
  <2>3. Chain(i)'
    BY <1>1, <1>2, <2>1, <2>2 DEF Chain
  <2>4. TypeOK'
    <3>1. original' \in [Import -> {"none", "real", "tool", "ours"}]
      BY <1>6, <2>1
    <3> QED
      BY <1>1, <1>3, <2>1, <3>1, Imports DEF AttachInv, TypeOK, patching, audit
  <2> QED
    BY <1>1, <1>2, <2>1, <2>2, <2>3, <2>4 DEF Tried
<1>9. CASE InstallMissed(i)
  <2>1. UNCHANGED <<slot, original, tracked>>
    BY <1>9 DEF InstallMissed, hooks
  <2>2. Chain(i)'
    BY <1>1, <1>2, <2>1 DEF Chain
  <2>3. TypeOK'
    BY <1>1, <1>3, <2>1, Imports DEF AttachInv, TypeOK, patching, audit
  <2> QED
    BY <1>1, <1>2, <2>1, <2>2, <2>3 DEF Tried
<1> QED
  BY <1>7, <1>8, <1>9 DEF InstallStep

LEMMA InstallSteps ==
    ASSUME AttachInv, NEW i \in Import, InstallStep(i)
    PROVE  AttachInv'
<1>1. /\ phase = "imports" /\ at \in 1..4 /\ Order[at] = i
      /\ UNCHANGED <<patching, imported, tool, pinned, requests, inFrame, audit>>
      /\ IF at < 4 THEN phase' = phase /\ at' = at + 1
         ELSE phase' = "game" /\ at' = at
      /\ warned' = (warned \/ Warns(i, slot'))
  BY Imports DEF AttachInv, Installing, InstallStep, Install, InstallRefused,
                 InstallMissed, Proceed
<1>2. Tried(i) /\ TypeOK'
  BY TriesOne
<1>3. /\ \A k \in at..4 : Untouched(Order[k])
      /\ \A j \in tracked : slot[j] = "ours"
      /\ \A j \in Import : tool[j] # "ours"
      /\ requests = (IF pinned THEN 1 ELSE 0) /\ ~inFrame
      /\ pinned \/ warned
      /\ tracked \subseteq Import /\ tracked' \subseteq Import
  BY <1>1, <1>2 DEF AttachInv, Installing, TypeOK
<1>4. SitesInOrder' /\ NothingHooked'
  BY <1>1 DEF AttachInv, SitesInOrder, NothingHooked, Outside, patching
<1>5. Chains'
  BY <1>1, <1>2 DEF AttachInv, Chains, Tried, Chain
<1>6. \A j \in tracked' : slot'[j] = "ours"
  BY <1>2, <1>3 DEF Tried
<1>7. Recording'
  BY <1>1, <1>2, <1>3, Imports DEF AttachInv, Recording, Tried
<1>8. Installing'
  <2> SUFFICES ASSUME at < 4, at' = at + 1 PROVE Installing'
    BY <1>1 DEF Installing
  <2>1. at' \in 1..4
    BY <1>1
  <2>2. ASSUME NEW k \in at'..4 PROVE Untouched(Order[k])'
    <3>1. k \in at..4 /\ k \in 1..4 /\ k # at
      BY <1>1
    <3>2. Order[k] # i
      BY <1>1, <3>1, Distinct
    <3>3. Order[k] \in Import
      BY <3>1, Imports
    <3> QED
      BY <1>1, <1>2, <1>3, <3>1, <3>2, <3>3 DEF Untouched, Tried
  <2> QED
    BY <1>1, <1>3, <1>6, <2>1, <2>2 DEF Installing
<1>9. at = 2 /\ ~warned' => (Begin \in tracked' <=> End \in tracked')
  <2> SUFFICES ASSUME at = 2, ~warned' PROVE Begin \in tracked' <=> End \in tracked'
    OBVIOUS
  <2>1. i = End
    BY <1>1, Imports
  <2>2. (slot'[End] = "ours") <=> (slot'[Begin] = "ours")
    BY <1>1, <2>1 DEF Warns, Begin, End
  <2>3. \A j \in Timer : j \in tracked' <=> slot'[j] = "ours"
    BY <1>6, <1>7 DEF Recording
  <2> QED
    BY <2>2, <2>3, Imports
<1>10. at \in {3, 4} => i \notin Timer
  BY <1>1, Imports DEF Begin, End
<1>11. BothOrNone'
  <2>1. CASE at = 1
    BY <1>1, <2>1 DEF BothOrNone
  <2>2. CASE at = 2
    BY <1>9, <2>2 DEF BothOrNone
  <2>3. CASE at \in {3, 4}
    BY <1>1, <1>2, <1>10, <2>3, Imports DEF AttachInv, BothOrNone, Tried
  <2> QED
    BY <1>1, <2>1, <2>2, <2>3
<1>12. Held'
  BY <1>1, <1>3 DEF Held
<1> QED
  BY <1>2, <1>4, <1>5, <1>7, <1>8, <1>11, <1>12 DEF AttachInv

-----------------------------------------------------------------------------
(* The game and other tools                                                *)

LEMMA ToolSteps ==
    ASSUME AttachInv, NEW i \in Import, ToolBinds(i) \/ ToolUnbinds(i)
    PROVE  AttachInv'
<1>1. /\ phase \in {"precheck", "game"}
      /\ UNCHANGED <<phase, at, patching, original, tracked, imported, timer, audit>>
      /\ \A j \in Import \ {i} : slot'[j] = slot[j] /\ tool'[j] = tool[j]
  BY DEF AttachInv, TypeOK, ToolBinds, ToolUnbinds
<1>2. /\ slot[i] \in {"real", "tool", "ours", "null"}
      /\ tool[i] \in {"none", "real", "ours"}
      /\ Chain(i)
  BY DEF AttachInv, TypeOK, Chains
<1>3. \/ /\ slot[i] \in {"real", "ours"} /\ tool[i] = "none"
         /\ slot'[i] = "tool" /\ tool'[i] \in {slot[i], "real"}
      \/ /\ slot[i] = "tool" /\ tool[i] \in {"real", "ours"}
         /\ slot'[i] = tool[i] /\ tool'[i] = tool[i]
  <2>1. CASE ToolBinds(i)
    <3>1. /\ tool[i] = "none" /\ slot[i] # "null" /\ slot[i] # "tool"
          /\ slot' = [slot EXCEPT ![i] = "tool"]
          /\ tool' = [tool EXCEPT ![i] = slot[i]] \/ tool' = [tool EXCEPT ![i] = "real"]
      BY <1>2, <2>1 DEF ToolBinds, Chain
    <3> QED
      BY <1>2, <3>1 DEF AttachInv, TypeOK
  <2>2. CASE ToolUnbinds(i)
    <3>1. /\ slot[i] = "tool" /\ tool[i] # "none" /\ tool' = tool
          /\ slot' = [slot EXCEPT ![i] = tool[i]]
      BY <1>2, <2>2 DEF ToolUnbinds, Chain
    <3> QED
      BY <1>2, <3>1 DEF AttachInv, TypeOK
  <2> QED
    BY <2>1, <2>2
<1>4. TypeOK'
  <2>1. /\ slot' \in [Import -> {"real", "tool", "ours", "null"}]
        /\ tool' \in [Import -> {"none", "real", "ours"}]
    <3>1. CASE ToolBinds(i)
      <4>1. /\ slot[i] \in {"real", "ours"}
            /\ slot' = [slot EXCEPT ![i] = "tool"]
            /\ tool' = [tool EXCEPT ![i] = slot[i]] \/ tool' = [tool EXCEPT ![i] = "real"]
        BY <1>2, <3>1 DEF ToolBinds, Chain
      <4> QED
        BY <4>1 DEF AttachInv, TypeOK
    <3>2. CASE ToolUnbinds(i)
      <4>1. /\ tool[i] \in {"real", "ours"} /\ tool' = tool
            /\ slot' = [slot EXCEPT ![i] = tool[i]]
        BY <1>2, <3>2 DEF ToolUnbinds, Chain
      <4> QED
        BY <4>1 DEF AttachInv, TypeOK
    <3> QED
      BY <3>1, <3>2
  <2> QED
    BY <1>1, <2>1 DEF AttachInv, TypeOK, patching, timer, audit
<1>5. Chain(i)'
  BY <1>1, <1>2, <1>3 DEF Chain
<1>6. Chains'
  BY <1>1, <1>5 DEF AttachInv, Chains, Chain
<1>7. Untouched(i) => Untouched(i)'
  BY <1>1, <1>3 DEF Untouched
<1>8. NothingHooked'
  BY <1>1, <1>7 DEF AttachInv, NothingHooked, Untouched, timer
<1>9. SitesInOrder' /\ Installing' /\ BothOrNone'
  BY <1>1 DEF AttachInv, SitesInOrder, Installing, BothOrNone, patching, timer
<1>10. Recording'
  BY <1>1, <1>3, Imports DEF AttachInv, Recording
<1>11. Past(i) => Past(i)'
  BY <1>3 DEF Past
<1>12. Held'
  BY <1>1, <1>11, Imports DEF AttachInv, Held, Past, timer
<1> QED
  BY <1>4, <1>6, <1>8, <1>9, <1>10, <1>12 DEF AttachInv

LEMMA GameSteps ==
    ASSUME AttachInv, BeginFrame \/ EndFrame \/ Audit
    PROVE  AttachInv'
<1>1. /\ phase = "game"
      /\ UNCHANGED <<phase, at, patching, hooks, imported, tool, pinned, warned>>
  BY DEF BeginFrame, EndFrame, Audit, timer
<1>2. /\ requests \in 0..MaxRequests /\ TypeOK /\ Chains
      /\ {pinned, warned, inFrame, audited} \subseteq BOOLEAN
  BY DEF AttachInv, TypeOK
<1>3. /\ SitesInOrder' /\ NothingHooked' /\ Chains' /\ Installing'
      /\ Recording' /\ BothOrNone'
  BY <1>1 DEF AttachInv, SitesInOrder, NothingHooked, Chains, Chain, Installing,
              Recording, BothOrNone, Outside, patching, hooks
<1>4. \A i \in Timer \ tracked : Reaches(i) = "real"
  <2> SUFFICES ASSUME NEW i \in Timer \ tracked PROVE Past(i)
    BY <1>2, TimerReaches
  <2>1. /\ i \in Import /\ slot[i] \in {"real", "tool", "ours", "null"}
        /\ tool[i] \in {"none", "real", "ours"} /\ Chain(i)
    BY <1>2, Imports DEF TypeOK, Chains
  <2>2. slot[i] # "ours" /\ tool[i] # "ours"
    BY DEF AttachInv, Recording
  <2> QED
    BY <2>1, <2>2 DEF Chain, Past
<1>5. Reaches(End) = "real" => Past(End)
  BY <1>2, TimerReaches, Imports
<1>6. pinned /\ ~warned => (Begin \in tracked <=> End \in tracked)
  BY <1>1 DEF AttachInv, BothOrNone
<1>7. CASE BeginFrame
  <2>1. /\ ~inFrame /\ inFrame' = TRUE /\ requests < MaxRequests
        /\ requests' = IF Reaches(Begin) = "real" THEN requests + 1 ELSE requests
        /\ UNCHANGED audit
    BY <1>7 DEF BeginFrame, Begin
  <2>2. requests' \in 0..MaxRequests /\ requests' >= requests
    BY <1>2, <2>1
  <2>3. TypeOK'
    BY <1>1, <1>2, <2>1, <2>2 DEF TypeOK, patching, hooks, audit
  <2>4. pinned /\ ~warned /\ End \notin tracked => requests' = requests + 1
    BY <1>4, <1>6, <2>1, Imports
  <2>5. Held'
    BY <1>1, <1>2, <2>1, <2>2, <2>4 DEF AttachInv, Held, Past, hooks
  <2> QED
    BY <1>3, <2>3, <2>5 DEF AttachInv
<1>8. CASE EndFrame
  <2>1. /\ inFrame /\ inFrame' = FALSE
        /\ requests' = IF Reaches(End) = "real" /\ requests > 0
                       THEN requests - 1 ELSE requests
        /\ UNCHANGED audit
    BY <1>8 DEF EndFrame, End
  <2>2. requests' \in 0..MaxRequests /\ requests' >= requests - 1
    BY <1>2, <2>1
  <2>3. TypeOK'
    BY <1>1, <1>2, <2>1, <2>2 DEF TypeOK, patching, hooks, audit
  <2>4. ~Past(End) => requests' = requests
    BY <1>5, <2>1
  <2>5. Held'
    BY <1>1, <1>2, <2>1, <2>2, <2>4 DEF AttachInv, Held, Past, hooks
  <2> QED
    BY <1>3, <2>3, <2>5 DEF AttachInv
<1>9. CASE Audit
  <2>1. /\ UNCHANGED <<requests, inFrame>>
        /\ displaced' \subseteq tracked /\ audited' = TRUE
    BY <1>9 DEF Audit, timer
  <2>2. TypeOK'
    BY <1>1, <1>2, <2>1 DEF TypeOK, patching, hooks
  <2>3. Held'
    BY <1>1, <2>1 DEF AttachInv, Held, Past, hooks
  <2> QED
    BY <1>3, <2>2, <2>3 DEF AttachInv
<1> QED
  BY <1>7, <1>8, <1>9

-----------------------------------------------------------------------------
(* Theorems                                                                *)

\* The invariant above holds of every attachment.
THEOREM Invariant == Spec => []AttachInv
<1>1. Init => AttachInv
  BY InvInit
<1>2. AttachInv /\ [Next]_vars => AttachInv'
  <2> SUFFICES ASSUME AttachInv, [Next]_vars PROVE AttachInv'
    OBVIOUS
  <2>1. CASE AttachStep
    BY <2>1, PatchSteps, PinStep, InstallSteps DEF AttachStep
  <2>2. CASE \E s \in Site : ForeignWrite(s)
    BY <2>2, PatchSteps
  <2>3. CASE \E i \in Import : ToolBinds(i) \/ ToolUnbinds(i)
    BY <2>3, ToolSteps
  <2>4. CASE BeginFrame \/ EndFrame \/ Audit
    BY <2>4, GameSteps
  <2>5. CASE UNCHANGED vars
    BY <2>5 DEF AttachInv, TypeOK, SitesInOrder, NothingHooked, Untouched, Chains,
                Chain, Installing, Recording, BothOrNone, Held, Past,
                vars, patching, hooks, timer, audit
  <2> QED
    BY <2>1, <2>2, <2>3, <2>4, <2>5 DEF Next
<1> QED
  BY <1>1, <1>2, PTL DEF Spec

\* A game that runs untouched has no byte of neopatch's code and none of its
\* hooks, and a patched one has them all (install_all), for any number of sites
\* and whatever other writers do in between.
THEOREM PatchesAreWhole == Spec => []AllOrNothing
<1>1. AttachInv => AllOrNothing
  <2> SUFFICES ASSUME AttachInv PROVE AllOrNothing
    OBVIOUS
  <2>1. ASSUME phase = "vanilla"
        PROVE  /\ patched = {} /\ tracked = {} /\ requests = 0
               /\ \A i \in Import : slot[i] # "ours"
    BY <2>1 DEF AttachInv, TypeOK, SitesInOrder, NothingHooked, Untouched, Outside
  <2> QED
    BY <2>1 DEF AllOrNothing, AttachInv, SitesInOrder
<1> QED
  BY <1>1, Invariant, PTL

\* No call of an import ends in a hook without an original, or goes round
\* (IatHook::original), for any room in the registry.
THEOREM CallsAreServed == Spec => []ImportsArrive
<1>1. AttachInv => ImportsArrive
  <2> SUFFICES ASSUME AttachInv, NEW i \in Import, slot[i] # "null" \/ i \in Rewritten
               PROVE  Reaches(i) \in {"real", "stub"}
    BY DEF ImportsArrive
  <2>1. TypeOK /\ Chains
    BY DEF AttachInv
  <2> QED
    BY <2>1, TimerReaches, OtherReaches
<1> QED
  BY <1>1, Invariant, PTL

\* The pinned timer resolution is given up only after a warning, or once a
\* tool has bound a timer import that neopatch had (timer_period::install).
THEOREM ResolutionIsHeld == Spec => []ResolutionHeld
<1>1. AttachInv => ResolutionHeld
  <2> SUFFICES ASSUME AttachInv, pinned, requests = 0, ~warned
               PROVE  \E i \in Timer \cap tracked : slot[i] # "ours"
    BY DEF ResolutionHeld
  <2>1. phase \in Phase
    BY DEF AttachInv, TypeOK
  <2>2. phase = "game"
    BY <2>1 DEF AttachInv, NothingHooked, Installing, Outside, Phase
  <2>3. End \in tracked /\ Past(End)
    BY <2>2 DEF AttachInv, Held
  <2> QED
    BY <2>3, Imports DEF Past
<1> QED
  BY <1>1, Invariant, PTL
=============================================================================
