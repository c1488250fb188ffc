--------------------------- MODULE LogSession_proof ---------------------------
(***************************************************************************)
(* Log sessions, for any process ids, any clock, any number of candidate   *)
(* roots, launches and sessions to keep.                                   *)
(*                                                                         *)
(* What retention removes it has listed, and what it lists was written:    *)
(* so a directory whose name was never written to is out of its reach, and *)
(* a session is removed only when Keep - 1 newer ones had been written by  *)
(* the time of the listing, which stays true ever after.  The budget rests *)
(* on counting: of any sessions, at most Keep - 1 have fewer than Keep - 1 *)
(* newer ones among them.                                                  *)
(*                                                                         *)
(* After that, what goes into the log while the process runs, faults and   *)
(* ends: the safety properties of ProcessLife, for any threads, lines,     *)
(* faults and console events.  A thread is a stack of activations, and a   *)
(* step changes the top of one: it grows by what a call or a fault puts on *)
(* it, or its last activation goes on or returns.  The invariant says what *)
(* each activation may rely on (Fine), that an exception is dealt with in  *)
(* one place (OneBody), and who holds the latch; StackStep shows once what *)
(* a change of the top has to satisfy to keep all of that.                 *)
(***************************************************************************)
EXTENDS LogSession, ProcessState, FiniteSetTheorems, WellFoundedInduction,
        SequenceTheorems, TLAPS

\* crash.rs, console.rs, exit_hooks.rs and the event layer of log.rs.
Life == INSTANCE ProcessLife

USE PidAssumption, TimeAssumption, CandidatesAssumption, KeepAssumption,
    MaxLaunchesAssumption

-----------------------------------------------------------------------------
(* Names                                                                   *)

LEMMA IdFinite == IsFiniteSet(Id)
BY FS_Product DEF Id

LEMMA IdNumbers ==
    ASSUME NEW i \in Id
    PROVE  i[1] \in Int /\ i[2] \in Int /\ i = <<i[1], i[2]>>
<1>1. i \in Time \X Pid
  BY DEF Id
<1>2. i[1] \in Time /\ i[2] \in Pid
  BY <1>1
<1>3. i = <<i[1], i[2]>>
  BY ONLY <1>1
<1> QED
  BY <1>2, <1>3

LEMMA NewerIsOrder ==
    ASSUME NEW i \in Id, NEW j \in Id, NEW k \in Id
    PROVE  /\ ~Newer(i, i)
           /\ Newer(i, j) /\ Newer(j, k) => Newer(i, k)
           /\ i # j => Newer(i, j) \/ Newer(j, i)
BY IdNumbers DEF Newer

LEMMA UnnamedType ==
    ASSUME NEW p \in Pid, now \in Time
    PROVE  Unnamed(p) \in Id /\ Unnamed(p)[2] = p
<1>1. <<now, p>> \in Id /\ <<now, p>>[2] = p
  BY DEF Id
<1> QED
  BY <1>1 DEF Unnamed

\* How many of the sessions s are newer than i.
Newers(s, i) == Cardinality({j \in s : Newer(j, i)})

LEMMA NewersGrow ==
    ASSUME NEW s, NEW t, s \subseteq t, t \subseteq Id, NEW i
    PROVE  Newers(s, i) \in Nat /\ Newers(t, i) \in Nat /\ Newers(s, i) <= Newers(t, i)
<1> DEFINE S == {j \in s : Newer(j, i)}
           T == {j \in t : Newer(j, i)}
<1>1. S \subseteq T /\ T \subseteq Id
  OBVIOUS
<1>2. IsFiniteSet(T)
  BY <1>1, IdFinite, FS_Subset
<1>3. IsFiniteSet(S) /\ Cardinality(S) <= Cardinality(T)
  BY <1>1, <1>2, FS_Subset
<1>4. Cardinality(S) \in Nat /\ Cardinality(T) \in Nat
  BY <1>2, <1>3, FS_CardinalityType
<1> QED
  BY <1>3, <1>4 DEF Newers

LEMMA SmallerSet ==
    ASSUME NEW s, NEW t, s \subseteq t, t \subseteq Id, Cardinality(t) <= Keep - 1
    PROVE  Cardinality(s) <= Keep - 1
<1>1. IsFiniteSet(t)
  BY IdFinite, FS_Subset
<1>2. IsFiniteSet(s) /\ Cardinality(s) <= Cardinality(t)
  BY <1>1, FS_Subset
<1>3. Cardinality(s) \in Nat /\ Cardinality(t) \in Nat
  BY <1>1, <1>2, FS_CardinalityType
<1> QED
  BY <1>2, <1>3

-----------------------------------------------------------------------------
(* Counting                                                                *)

\* Among finitely many sessions one is the oldest: the one below which there is
\* the least.
LEMMA OldestExists ==
    ASSUME NEW s, s \subseteq Id, s # {}
    PROVE  \E i \in s : \A j \in s \ {i} : Newer(j, i)
<1> DEFINE Below(i) == {k \in s : Newer(i, k)}
           Belows == {Below(i) : i \in s}
<1>1. IsFiniteSet(s)
  BY IdFinite, FS_Subset
<1>2. Belows \subseteq FiniteSubsetsOf(s) /\ Belows # {}
  <2>1. ASSUME NEW i \in s PROVE Below(i) \in FiniteSubsetsOf(s)
    <3>1. Below(i) \in SUBSET s
      OBVIOUS
    <3>2. IsFiniteSet(Below(i))
      BY <1>1, <3>1, FS_Subset
    <3> QED
      BY <3>1, <3>2 DEF FiniteSubsetsOf
  <2> QED
    BY <2>1
<1>3. IsWellFoundedOn(StrictSubsetOrdering(s), FiniteSubsetsOf(s))
  BY FS_StrictSubsetOrderingWellFounded
<1>4. PICK b \in Belows : \A c \in Belows : ~(<<c, b>> \in StrictSubsetOrdering(s))
  <2> HIDE DEF Belows
  <2> QED
    BY <1>2, <1>3, WFMin
<1>5. PICK i \in s : b = Below(i)
  OBVIOUS
<1>6. ASSUME NEW j \in s \ {i}, ~Newer(j, i)
      PROVE  FALSE
  <2>1. Newer(i, j)
    BY <1>6, NewerIsOrder
  <2>2. Below(j) \subseteq Below(i)
    BY <2>1, NewerIsOrder
  <2>3. j \in Below(i) /\ j \notin Below(j)
    BY <2>1, NewerIsOrder
  <2>4. <<Below(j), Below(i)>> \in StrictSubsetOrdering(s)
    BY <2>2, <2>3 DEF StrictSubsetOrdering
  <2> QED
    BY <1>4, <1>5, <2>4
<1> QED
  BY <1>6

\* What Doomed leaves of a listing.
LEMMA DoomedLeaves ==
    ASSUME NEW ids, ids \subseteq Id
    PROVE  Cardinality(ids \ Doomed(ids)) <= Keep - 1
<1> DEFINE left == ids \ Doomed(ids)
<1>1. IsFiniteSet(left) /\ Cardinality(left) \in Nat
  <2>1. left \in SUBSET Id
    OBVIOUS
  <2> QED
    BY <2>1, IdFinite, FS_Subset, FS_CardinalityType
<1>2. CASE left = {}
  <2>1. Cardinality(left) = 0
    BY <1>2, FS_EmptySet
  <2> QED
    BY <2>1
<1>3. CASE left # {}
  <2>1. PICK i \in left : \A j \in left \ {i} : Newer(j, i)
    BY <1>3, OldestExists
  <2>2. Newers(left, i) \in Nat /\ Newers(ids, i) \in Nat
        /\ Newers(left, i) <= Newers(ids, i)
    BY NewersGrow
  <2>3. ~(Newers(ids, i) >= Keep - 1)
    BY <2>1 DEF Doomed, Newers
  <2>4. {j \in left : Newer(j, i)} = left \ {i}
    BY <2>1, NewerIsOrder
  <2>5. Newers(left, i) = Cardinality(left) - 1
    BY <1>1, <2>1, <2>4, FS_RemoveElement DEF Newers
  <2> HIDE DEF left
  <2>6. Cardinality(left) <= Keep - 1
    BY <1>1, <2>2, <2>3, <2>5
  <2> QED
    BY <2>6 DEF left
<1> QED
  BY <1>2, <1>3

-----------------------------------------------------------------------------
(* Types                                                                   *)

LEMMA TypeInit == Init => TypeOK
<1> SUFFICES ASSUME Init PROVE TypeOK
  OBVIOUS
<1>1. \A p \in Pid : Unnamed(p) \in Id /\ Unnamed(p)[2] = p
  BY UnnamedType DEF Init
<1>2. 0 \in 0..Candidates + 1 /\ 0 \in 0..MaxLaunches
  OBVIOUS
<1> QED
  BY <1>1, <1>2 DEF Init, TypeOK, Stage

\* The stages in which a process holds a candidate root.
Claimed == {"check", "list", "prune", "manifest", "events", "logging"}

LEMMA RootType == ASSUME TypeOK, NEW p \in Pid, pc[p] \in Claimed
                  PROVE  cand[p] \in Root /\ <<cand[p], id[p]>> \in Root \X Id
BY DEF TypeOK, Claimed

LEMMA WriteType ==
    ASSUME TypeOK, NEW p \in Pid, pc[p] \in Claimed, Write(p)
    PROVE  /\ disk' \in [Root \X Id -> {"absent", "bare", "written"}]
           /\ ever' \in [Root -> SUBSET Id]
           /\ late' \in [Pid -> SUBSET Id]
           /\ since' \in [Root -> SUBSET Id]
BY RootType DEF Write, TypeOK

LEMMA TypeStep == TypeOK /\ [Next]_vars => TypeOK'
<1> SUFFICES ASSUME TypeOK, [Next]_vars PROVE TypeOK'
  OBVIOUS
<1> USE DEF TypeOK, history
<1>1. CASE UNCHANGED vars
  BY <1>1 DEF vars, program
<1>2. CASE Clock
  BY <1>2 DEF Clock
<1>3. ASSUME NEW p \in Pid, Launch(p) PROVE TypeOK'
  <2>1. <<now, p>> \in Id /\ <<now, p>>[2] = p
    BY DEF Id
  <2>2. 1 \in 0..Candidates + 1 /\ launches + 1 \in 0..MaxLaunches
    BY <1>3 DEF Launch
  <2> QED
    BY <1>3, <2>1, <2>2 DEF Launch, Stage
<1>4. ASSUME NEW p \in Pid, SkipRoot(p) PROVE TypeOK'
  <2>1. cand[p] + 1 \in 0..Candidates + 1
    BY <1>4 DEF SkipRoot, Root
  <2> QED
    BY <1>4, <2>1 DEF SkipRoot
<1>5. ASSUME NEW p \in Pid, NoRoot(p) PROVE TypeOK'
  BY <1>5 DEF NoRoot, Stage
<1>6. ASSUME NEW p \in Pid, CreateDir(p) PROVE TypeOK'
  BY <1>6 DEF CreateDir, Stage
<1>7. ASSUME NEW p \in Pid, Accept(p) PROVE TypeOK'
  BY <1>7 DEF Accept, Stage
<1>8. ASSUME NEW p \in Pid, Reject(p) PROVE TypeOK'
  <2>1. cand[p] + 1 \in 0..Candidates + 1
    BY <1>8 DEF Reject, Root
  <2>2. disk' \in [Root \X Id -> {"absent", "bare", "written"}]
    BY <1>8 DEF Reject
  <2> QED
    BY <1>8, <2>1, <2>2 DEF Reject, Stage
<1>9. ASSUME NEW p \in Pid, List(p) PROVE TypeOK'
  <2>1. Doomed(Listed(cand[p], id[p])) \subseteq Id
    BY DEF Doomed, Listed, Written
  <2> QED
    BY <1>9, <2>1 DEF List, Stage
<1>10. ASSUME NEW p \in Pid, ListFailed(p) PROVE TypeOK'
  BY <1>10 DEF ListFailed, Stage
<1>11. ASSUME NEW p \in Pid, Prune(p) PROVE TypeOK'
  <2>1. PICK i \in doomed[p], left \in {"absent", "bare", "written"} :
            /\ disk' = [disk EXCEPT ![<<cand[p], i>>] = left]
            /\ late' = IF left = "written"
                       THEN [late EXCEPT ![p] = @ \cup {i}] ELSE late
            /\ doomed' = [doomed EXCEPT ![p] = @ \ {i}]
    BY <1>11 DEF Prune
  <2>2. i \in Id
    OBVIOUS
  <2>3. /\ disk' \in [Root \X Id -> {"absent", "bare", "written"}]
        /\ late' \in [Pid -> SUBSET Id] /\ doomed' \in [Pid -> SUBSET Id]
    BY <2>1, <2>2
  <2> QED
    BY <1>11, <2>3 DEF Prune
<1>12. ASSUME NEW p \in Pid, Pruned(p) PROVE TypeOK'
  BY <1>12 DEF Pruned, Stage
<1>13. ASSUME NEW p \in Pid, Manifest(p) PROVE TypeOK'
  <2>1. pc[p] \in Claimed
    BY <1>13 DEF Manifest, Claimed
  <2> QED
    BY <1>13, <2>1, WriteType DEF Manifest, Stage
<1>14. ASSUME NEW p \in Pid, OpenLog(p) PROVE TypeOK'
  <2>1. pc[p] \in Claimed
    BY <1>14 DEF OpenLog, Claimed
  <2> QED
    BY <1>14, <2>1, WriteType DEF OpenLog, Stage
<1>15. ASSUME NEW p \in Pid, OpenFailed(p) PROVE TypeOK'
  BY <1>15 DEF OpenFailed, Stage
<1>16. ASSUME NEW p \in Pid, End(p) PROVE TypeOK'
  <2>1. Unnamed(p) \in Id /\ Unnamed(p)[2] = p
    BY UnnamedType
  <2>2. 0 \in 0..Candidates + 1
    OBVIOUS
  <2> QED
    BY <1>16, <2>1, <2>2 DEF End, Stage
<1> QED
  BY <1>1, <1>2, <1>3, <1>4, <1>5, <1>6, <1>7, <1>8, <1>9, <1>10, <1>11, <1>12,
     <1>13, <1>14, <1>15, <1>16 DEF Next

-----------------------------------------------------------------------------
(* The inductive invariant                                                 *)

\* Of the sessions s enough are newer than i for it to be removed.
Outdated(s, i) == Newers(s, i) >= Keep - 1

WrittenEver == \A r \in Root : Written(r) \subseteq ever[r]

\* A new name's directory is there, and was never written to.
ClaimFresh ==
    \A p \in Pid : fresh[p] /\ pc[p] \in {"check", "list", "prune", "manifest"} =>
        /\ disk[<<cand[p], id[p]>>] # "absent"
        /\ id[p] \notin ever[cand[p]]

DoomedOld ==
    \A p \in Pid : pc[p] = "prune" =>
        /\ doomed[p] \subseteq ever[cand[p]]
        /\ \A i \in doomed[p] : Outdated(ever[cand[p]], i)

LostOld ==
    \A r \in Root : \A i \in ever[r] :
        disk[<<r, i>>] # "written" => Outdated(ever[r], i)

\* What remains when a retention has removed what it has yet to remove.
Remains(p) == Written(cand[p]) \ (late[p] \cup doomed[p])

PruneSuffices ==
    \A p \in Pid : pc[p] = "prune" => Cardinality(Remains(p)) <= Keep - 1

LogInv ==
    /\ TypeOK /\ WrittenEver /\ ClaimFresh /\ DoomedOld /\ LostOld
    /\ PruneSuffices /\ BudgetHolds

LEMMA LogInit == Init => LogInv
<1> SUFFICES ASSUME Init PROVE LogInv
  OBVIOUS
<1>1. TypeOK
  BY TypeInit
<1>2. \A r \in Root : Written(r) = {}
  BY DEF Init, Written
<1>3. BudgetHolds
  <2> SUFFICES ASSUME NEW r \in Root
               PROVE  Cardinality(Written(r) \ since[r]) <= Keep - 1
    BY DEF BudgetHolds
  <2>1. Written(r) \ since[r] = {}
    BY <1>2
  <2>2. Cardinality({}) = 0
    BY FS_EmptySet
  <2> QED
    BY <2>1, <2>2
<1>4. \A p \in Pid : pc[p] = "off"
  BY DEF Init
<1>5. \A r \in Root : ever[r] = {}
  BY DEF Init
<1> QED
  BY <1>1, <1>2, <1>3, <1>4, <1>5
  DEF LogInv, WrittenEver, ClaimFresh, DoomedOld, LostOld, PruneSuffices

-----------------------------------------------------------------------------
(* What the steps do to the directories                                    *)

\* Steps that leave directories as they are, or without content.
Quiet == UNCHANGED <<ever, since>> /\ \A r \in Root : Written(r)' \subseteq Written(r)

\* A step that puts content into the directory of p.
Fills(p) ==
    /\ \A r \in Root, i \in Id :
        disk'[<<r, i>>] = IF r = cand[p] /\ i = id[p] THEN "written" ELSE disk[<<r, i>>]
    /\ \A r \in Root :
        /\ ever'[r] = IF r = cand[p] THEN ever[r] \cup {id[p]} ELSE ever[r]
        /\ since'[r] = IF r = cand[p] THEN since[r] \cup {id[p]} ELSE since[r]
        /\ Written(r)' = IF r = cand[p] THEN Written(r) \cup {id[p]} ELSE Written(r)
    /\ \A q \in Pid :
        late'[q] = IF pc[q] = "prune" /\ cand[q] = cand[p]
                   THEN late[q] \cup {id[p]} ELSE late[q]

LEMMA WriteFills ==
    ASSUME TypeOK, NEW p \in Pid, pc[p] \in Claimed, Write(p)
    PROVE  Fills(p)
<1>1. cand[p] \in Root /\ id[p] \in Id /\ <<cand[p], id[p]>> \in Root \X Id
  BY RootType DEF TypeOK
<1>2. ASSUME NEW r \in Root, NEW i \in Id
      PROVE  disk'[<<r, i>>] = IF r = cand[p] /\ i = id[p]
                               THEN "written" ELSE disk[<<r, i>>]
  <2>1. <<r, i>> = <<cand[p], id[p]>> <=> r = cand[p] /\ i = id[p]
    OBVIOUS
  <2> QED
    BY <1>1, <2>1 DEF Write, TypeOK
<1>3. \A r \in Root :
        Written(r)' = IF r = cand[p] THEN Written(r) \cup {id[p]} ELSE Written(r)
  BY <1>1, <1>2 DEF Written
<1>4. \A r \in Root :
        /\ ever'[r] = IF r = cand[p] THEN ever[r] \cup {id[p]} ELSE ever[r]
        /\ since'[r] = IF r = cand[p] THEN since[r] \cup {id[p]} ELSE since[r]
  BY <1>1 DEF Write, TypeOK
<1>5. \A q \in Pid :
        late'[q] = IF pc[q] = "prune" /\ cand[q] = cand[p]
                   THEN late[q] \cup {id[p]} ELSE late[q]
  BY DEF Write
<1> QED
  BY <1>2, <1>3, <1>4, <1>5 DEF Fills

LEMMA ManifestFills ==
    ASSUME TypeOK, NEW p \in Pid, Manifest(p)
    PROVE  Fills(p) \/ UNCHANGED <<disk, ever, late, since>>
<1>1. pc[p] \in Claimed
  BY DEF Manifest, Claimed
<1> QED
  BY <1>1, WriteFills DEF Manifest

LEMMA OpenLogFills ==
    ASSUME TypeOK, NEW p \in Pid, OpenLog(p)
    PROVE  Fills(p)
<1>1. pc[p] \in Claimed
  BY DEF OpenLog, Claimed
<1> QED
  BY <1>1, WriteFills DEF OpenLog

\* A removal changes one directory of the list, and puts no content there.
LEMMA PruneOne ==
    ASSUME TypeOK, NEW p \in Pid, Prune(p)
    PROVE  \E i \in doomed[p] :
             /\ \A r \in Root, j \in Id : r # cand[p] \/ j # i =>
                    disk'[<<r, j>>] = disk[<<r, j>>]
             /\ disk'[<<cand[p], i>>] = "written" =>
                    /\ disk[<<cand[p], i>>] = "written"
                    /\ late' = [late EXCEPT ![p] = @ \cup {i}]
             /\ late' # late => late' = [late EXCEPT ![p] = @ \cup {i}]
             /\ doomed' = [doomed EXCEPT ![p] = @ \ {i}]
<1>1. cand[p] \in Root
  BY RootType DEF Prune, Claimed
<1>2. PICK i \in doomed[p] :
        \E left \in {"absent", disk[<<cand[p], i>>]}
                     \cup ({"bare"} \ {disk[<<cand[p], i>>]}) :
            /\ disk' = [disk EXCEPT ![<<cand[p], i>>] = left]
            /\ late' = IF left = "written"
                       THEN [late EXCEPT ![p] = @ \cup {i}] ELSE late
            /\ doomed' = [doomed EXCEPT ![p] = @ \ {i}]
  BY DEF Prune
<1>3. PICK left \in {"absent", disk[<<cand[p], i>>]}
                    \cup ({"bare"} \ {disk[<<cand[p], i>>]}) :
        /\ disk' = [disk EXCEPT ![<<cand[p], i>>] = left]
        /\ late' = IF left = "written"
                   THEN [late EXCEPT ![p] = @ \cup {i}] ELSE late
        /\ doomed' = [doomed EXCEPT ![p] = @ \ {i}]
  BY <1>2
<1>4. i \in Id /\ <<cand[p], i>> \in Root \X Id
  BY <1>1 DEF TypeOK
<1>5. disk'[<<cand[p], i>>] = left
  BY <1>3, <1>4 DEF TypeOK
<1>6. ASSUME NEW r \in Root, NEW j \in Id, r # cand[p] \/ j # i
      PROVE  disk'[<<r, j>>] = disk[<<r, j>>]
  <2>1. <<r, j>> # <<cand[p], i>>
    BY <1>6
  <2> QED
    BY <1>3, <2>1 DEF TypeOK
<1> QED
  BY <1>3, <1>5, <1>6

LEMMA RejectQuiet ==
    ASSUME TypeOK, NEW p \in Pid, Reject(p) \/ CreateDir(p)
    PROVE  \A r \in Root, i \in Id :
             /\ disk'[<<r, i>>] = "written" <=> disk[<<r, i>>] = "written"
             /\ r # cand[p] \/ i # id[p] => disk'[<<r, i>>] = disk[<<r, i>>]
<1> SUFFICES ASSUME NEW r \in Root, NEW i \in Id
             PROVE  /\ disk'[<<r, i>>] = "written" <=> disk[<<r, i>>] = "written"
                    /\ r # cand[p] \/ i # id[p] => disk'[<<r, i>>] = disk[<<r, i>>]
  OBVIOUS
<1>1. <<r, i>> \in Root \X Id
  OBVIOUS
<1>2. <<r, i>> = <<cand[p], id[p]>> <=> r = cand[p] /\ i = id[p]
  OBVIOUS
<1>3. CASE disk' = disk
  BY <1>3
<1>4. CASE /\ disk' = [disk EXCEPT ![<<cand[p], id[p]>>] =
                          IF @ = "bare" THEN "absent" ELSE @]
           /\ disk' # disk
  BY <1>1, <1>2, <1>4 DEF TypeOK
<1>5. CASE /\ disk' = [disk EXCEPT ![<<cand[p], id[p]>>] =
                          IF @ = "absent" THEN "bare" ELSE @]
           /\ disk' # disk
  BY <1>1, <1>2, <1>5 DEF TypeOK
<1> QED
  BY <1>3, <1>4, <1>5 DEF Reject, CreateDir

-----------------------------------------------------------------------------
(* Each part is kept                                                       *)

\* What a step does to directories and to the history of their content.
LEMMA DiskSteps ==
    ASSUME TypeOK, [Next]_vars
    PROVE  \/ UNCHANGED <<disk, ever>>
           \/ UNCHANGED ever /\ \E p \in Pid : Reject(p) \/ CreateDir(p)
           \/ UNCHANGED ever /\ \E p \in Pid : Prune(p)
           \/ \E p \in Pid : Fills(p)
<1> USE DEF history
<1>1. CASE UNCHANGED vars
  BY <1>1 DEF vars, program
<1>2. CASE Clock
  BY <1>2 DEF Clock
<1>3. CASE \E p \in Pid : Manifest(p) \/ OpenLog(p)
  BY <1>3, ManifestFills, OpenLogFills
<1>4. CASE \E p \in Pid : Reject(p) \/ CreateDir(p) \/ Prune(p)
  BY <1>4 DEF Reject, CreateDir, Prune
<1>5. CASE \E p \in Pid :
             \/ Launch(p) \/ SkipRoot(p) \/ NoRoot(p) \/ Accept(p) \/ List(p)
             \/ ListFailed(p) \/ Pruned(p) \/ OpenFailed(p) \/ End(p)
  BY <1>5 DEF Launch, SkipRoot, NoRoot, Accept, List, ListFailed, Pruned, OpenFailed, End
<1> QED
  BY <1>1, <1>2, <1>3, <1>4, <1>5 DEF Next

LEMMA EverGrows ==
    ASSUME TypeOK, [Next]_vars, NEW r \in Root, NEW i
    PROVE  /\ ever[r] \subseteq ever'[r]
           /\ Outdated(ever[r], i) => Outdated(ever'[r], i)
<1>1. ever[r] \subseteq ever'[r]
  BY DiskSteps DEF Fills
<1>2. ever'[r] \subseteq Id
  BY TypeStep DEF TypeOK
<1>3. /\ Newers(ever[r], i) \in Nat /\ Newers(ever'[r], i) \in Nat
      /\ Newers(ever[r], i) <= Newers(ever'[r], i)
  BY <1>1, <1>2, NewersGrow
<1> QED
  BY <1>1, <1>3 DEF Outdated

LEMMA WrittenEverStep ==
    ASSUME LogInv, [Next]_vars
    PROVE  WrittenEver'
<1> USE DEF LogInv, WrittenEver
<1>1. CASE UNCHANGED <<disk, ever>>
  BY <1>1 DEF Written
<1>2. ASSUME NEW p \in Pid, Reject(p) \/ CreateDir(p), UNCHANGED ever
      PROVE  WrittenEver'
  BY <1>2, RejectQuiet DEF Written
<1>3. ASSUME NEW p \in Pid, Prune(p), UNCHANGED ever
      PROVE  WrittenEver'
  BY <1>3, PruneOne DEF Written
<1>4. ASSUME NEW p \in Pid, Fills(p)
      PROVE  WrittenEver'
  BY <1>4 DEF Fills
<1> QED
  BY <1>1, <1>2, <1>3, <1>4, DiskSteps

LEMMA LostOldStep ==
    ASSUME LogInv, [Next]_vars
    PROVE  LostOld'
<1> SUFFICES ASSUME NEW r \in Root, NEW i \in ever'[r], disk'[<<r, i>>] # "written"
             PROVE  Outdated(ever'[r], i)
  BY DEF LostOld
<1>1. TypeOK /\ i \in Id
  BY TypeStep DEF TypeOK, LogInv
<1>2. i \in ever[r] /\ disk[<<r, i>>] # "written" => Outdated(ever'[r], i)
  BY <1>1, EverGrows DEF LostOld, LogInv
<1>3. CASE UNCHANGED <<disk, ever>>
  BY <1>2, <1>3
<1>4. ASSUME NEW p \in Pid, Reject(p) \/ CreateDir(p), UNCHANGED ever
      PROVE  Outdated(ever'[r], i)
  BY <1>1, <1>2, <1>4, RejectQuiet
<1>5. ASSUME NEW p \in Pid, Prune(p), UNCHANGED ever
      PROVE  Outdated(ever'[r], i)
  <2>1. pc[p] = "prune"
    BY <1>5 DEF Prune
  <2>2. CASE i \in doomed[p] /\ r = cand[p]
    BY <1>1, <2>1, <2>2, EverGrows DEF DoomedOld, LogInv
  <2>3. CASE ~(i \in doomed[p] /\ r = cand[p])
    BY <1>1, <1>2, <1>5, <2>3, PruneOne
  <2> QED
    BY <2>2, <2>3
<1>6. ASSUME NEW p \in Pid, Fills(p)
      PROVE  Outdated(ever'[r], i)
  <2>1. disk'[<<r, i>>] = IF r = cand[p] /\ i = id[p]
                          THEN "written" ELSE disk[<<r, i>>]
    BY <1>1, <1>6 DEF Fills
  <2>2. ~(r = cand[p] /\ i = id[p]) /\ disk[<<r, i>>] # "written"
    BY <2>1
  <2>3. ever'[r] = IF r = cand[p] THEN ever[r] \cup {id[p]} ELSE ever[r]
    BY <1>6 DEF Fills
  <2>4. i \in ever[r]
    BY <2>2, <2>3
  <2> QED
    BY <1>2, <2>2, <2>4
<1> QED
  BY <1>1, <1>3, <1>4, <1>5, <1>6, DiskSteps

\* A claimed directory stays: others have other names, and no list has it.
LEMMA ClaimFreshStep ==
    ASSUME LogInv, [Next]_vars
    PROVE  ClaimFresh'
<1> DEFINE Early == {"check", "list", "prune", "manifest"}
           Safe(q) == /\ disk[<<cand[q], id[q]>>] # "absent"
                      /\ id[q] \notin ever[cand[q]]
<1> SUFFICES ASSUME NEW q \in Pid, fresh'[q], pc'[q] \in Early
             PROVE  Safe(q)'
  BY DEF ClaimFresh
<1> USE DEF history
<1>1. TypeOK /\ id[q] \in Id /\ \A p \in Pid : id[p][2] = p
  BY DEF LogInv, TypeOK
<1>2. fresh[q] /\ pc[q] \in Early => Safe(q) /\ cand[q] \in Root
  BY <1>1, RootType DEF LogInv, ClaimFresh, Claimed
<1>3. ASSUME UNCHANGED <<fresh, cand, id, disk, ever>>, pc[q] \in Early
      PROVE  Safe(q)'
  BY <1>2, <1>3
<1>4. CASE UNCHANGED vars
  BY <1>3, <1>4 DEF vars, program
<1>5. CASE Clock
  BY <1>3, <1>5 DEF Clock
<1>6. ASSUME NEW p \in Pid,
             \/ Launch(p) \/ SkipRoot(p) \/ NoRoot(p) \/ OpenFailed(p)
             \/ OpenLog(p) \/ End(p) \/ Reject(p),
             p = q
      PROVE  FALSE
  BY <1>1, <1>6 DEF Launch, SkipRoot, NoRoot, OpenFailed, OpenLog, End, Reject, TypeOK
<1>7. ASSUME NEW p \in Pid, p # q,
             \/ Launch(p) \/ SkipRoot(p) \/ NoRoot(p) \/ OpenFailed(p) \/ End(p)
      PROVE  Safe(q)'
  <2>1. fresh[q] /\ pc[q] \in Early
    BY <1>1, <1>7 DEF Launch, SkipRoot, NoRoot, OpenFailed, End, TypeOK
  <2>2. UNCHANGED <<disk, ever, cand[q], id[q]>>
    BY <1>1, <1>7 DEF Launch, SkipRoot, NoRoot, OpenFailed, End, TypeOK
  <2> QED
    BY <1>2, <2>1, <2>2
<1>8. ASSUME NEW p \in Pid,
             Accept(p) \/ List(p) \/ ListFailed(p) \/ Pruned(p)
      PROVE  Safe(q)'
  <2>1. pc[q] \in Early
    BY <1>1, <1>8 DEF Accept, List, ListFailed, Pruned, TypeOK
  <2>2. UNCHANGED <<fresh, cand, id, disk, ever>>
    BY <1>8 DEF Accept, List, ListFailed, Pruned
  <2> QED
    BY <1>3, <2>1, <2>2
<1>9. ASSUME NEW p \in Pid, p # q, Reject(p)
      PROVE  Safe(q)'
  <2>1. fresh[q] /\ pc[q] \in Early /\ UNCHANGED <<ever, cand[q], id[q]>>
    BY <1>1, <1>9 DEF Reject, TypeOK
  <2>2. id[q] # id[p]
    BY <1>1, <1>9
  <2>3. disk'[<<cand[q], id[q]>>] = disk[<<cand[q], id[q]>>]
    BY <1>1, <1>2, <1>9, <2>1, <2>2, RejectQuiet
  <2> QED
    BY <1>2, <2>1, <2>3
<1>10. ASSUME NEW p \in Pid, p # q, CreateDir(p)
       PROVE  Safe(q)'
  <2>1. fresh[q] /\ pc[q] \in Early /\ UNCHANGED <<ever, cand[q], id[q]>>
    BY <1>1, <1>10 DEF CreateDir, TypeOK
  <2>2. id[q] # id[p]
    BY <1>1, <1>10
  <2>3. disk'[<<cand[q], id[q]>>] = disk[<<cand[q], id[q]>>]
    BY <1>1, <1>2, <1>10, <2>1, <2>2, RejectQuiet
  <2> QED
    BY <1>2, <2>1, <2>3
<1>11. CASE CreateDir(q)
  <2>1. UNCHANGED <<cand, id, ever>> /\ <<cand[q], id[q]>> \in Root \X Id
    BY <1>1, <1>11 DEF CreateDir
  <2>2. disk'[<<cand[q], id[q]>>] # "absent"
    BY <1>1, <1>11, <2>1 DEF CreateDir, TypeOK
  <2>3. id[q] \notin ever[cand[q]]
    BY <1>1, <1>11 DEF CreateDir, TypeOK
  <2> QED
    BY <2>1, <2>2, <2>3
<1>12. ASSUME NEW p \in Pid, Prune(p)
       PROVE  Safe(q)'
  <2>1. /\ fresh[q] /\ pc[q] \in Early /\ UNCHANGED <<ever, cand, id>>
        /\ pc[p] = "prune"
    BY <1>12 DEF Prune
  <2>2. doomed[p] \subseteq ever[cand[p]]
    BY <2>1 DEF LogInv, DoomedOld
  <2>3. cand[q] # cand[p] \/ id[q] \notin doomed[p]
    BY <1>2, <2>1, <2>2
  <2>4. PICK i \in doomed[p] :
            \A r \in Root, j \in Id : r # cand[p] \/ j # i =>
                disk'[<<r, j>>] = disk[<<r, j>>]
    BY <1>1, <1>12, PruneOne
  <2>5. disk'[<<cand[q], id[q]>>] = disk[<<cand[q], id[q]>>]
    BY <1>1, <1>2, <2>1, <2>3, <2>4
  <2> QED
    BY <1>2, <2>1, <2>5
<1>13. ASSUME NEW p \in Pid, p # q, Fills(p), UNCHANGED <<cand, id, fresh>>, pc[q] \in Early
       PROVE  Safe(q)'
  <2>1. id[q] # id[p]
    BY <1>1, <1>13
  <2>2. fresh[q] /\ cand[q] \in Root /\ Safe(q)
    BY <1>2, <1>13
  <2>3. disk'[<<cand[q], id[q]>>] = disk[<<cand[q], id[q]>>]
    BY <1>1, <1>13, <2>1, <2>2 DEF Fills
  <2>4. id[q] \notin ever'[cand[q]]
    BY <1>13, <2>1, <2>2 DEF Fills
  <2> QED
    BY <1>13, <2>2, <2>3, <2>4
<1>14. ASSUME NEW p \in Pid, Manifest(p)
       PROVE  Safe(q)'
  <2>1. p # q /\ pc[q] \in Early /\ UNCHANGED <<cand, id, fresh>>
    BY <1>1, <1>14 DEF Manifest, TypeOK
  <2> QED
    BY <1>1, <1>3, <1>13, <1>14, <2>1, ManifestFills
<1>15. ASSUME NEW p \in Pid, OpenLog(p), p # q
       PROVE  Safe(q)'
  <2>1. pc[q] \in Early /\ UNCHANGED <<cand, id, fresh>>
    BY <1>1, <1>15 DEF OpenLog, TypeOK
  <2> QED
    BY <1>1, <1>13, <1>15, <2>1, OpenLogFills
<1> HIDE DEF Safe, Early
<1> QED
  BY <1>4, <1>5, <1>6, <1>7, <1>8, <1>9, <1>10, <1>11, <1>12, <1>14, <1>15 DEF Next

\* A process comes to prune by listing, and prunes one root.
LEMMA StaysPruning ==
    ASSUME TypeOK, Next, NEW q \in Pid, pc'[q] = "prune", ~List(q)
    PROVE  pc[q] = "prune" /\ cand'[q] = cand[q] /\ doomed'[q] \subseteq doomed[q]
<1>1. CASE Clock
  BY <1>1 DEF Clock
<1>2. ASSUME NEW p \in Pid,
             \/ Launch(p) \/ NoRoot(p) \/ CreateDir(p) \/ Accept(p) \/ Reject(p)
             \/ ListFailed(p) \/ Pruned(p) \/ Manifest(p)
      PROVE  /\ pc[q] = "prune" /\ cand'[q] = cand[q] /\ doomed'[q] = doomed[q]
  BY <1>2 DEF Launch, NoRoot, CreateDir, Accept, Reject, ListFailed, Pruned, Manifest, TypeOK
<1>3. ASSUME NEW p \in Pid, OpenLog(p) \/ OpenFailed(p) \/ SkipRoot(p) \/ End(p)
      PROVE  /\ pc[q] = "prune" /\ cand'[q] = cand[q] /\ doomed'[q] = doomed[q]
  BY <1>3 DEF OpenLog, OpenFailed, SkipRoot, End, TypeOK
<1>4. ASSUME NEW p \in Pid, List(p)
      PROVE  /\ pc[q] = "prune" /\ cand'[q] = cand[q] /\ doomed'[q] = doomed[q]
  BY <1>4 DEF List, TypeOK
<1>5. ASSUME NEW p \in Pid, Prune(p)
      PROVE  pc[q] = "prune" /\ cand'[q] = cand[q] /\ doomed'[q] \subseteq doomed[q]
  <2>1. PICK i \in doomed[p] : doomed' = [doomed EXCEPT ![p] = @ \ {i}]
    BY <1>5 DEF Prune
  <2> QED
    BY <1>5, <2>1 DEF Prune, TypeOK
<1> QED
  BY <1>1, <1>2, <1>3, <1>4, <1>5 DEF Next

\* What is listed was written, and a list only shrinks.
LEMMA DoomedOldStep ==
    ASSUME LogInv, [Next]_vars
    PROVE  DoomedOld'
<1> SUFFICES ASSUME NEW q \in Pid, pc'[q] = "prune"
             PROVE  /\ doomed'[q] \subseteq ever'[cand'[q]]
                    /\ \A i \in doomed'[q] : Outdated(ever'[cand'[q]], i)
  BY DEF DoomedOld, Outdated, Newers
<1>1. TypeOK
  BY DEF LogInv
<1>2. ASSUME pc[q] = "prune", cand'[q] = cand[q], doomed'[q] \subseteq doomed[q]
      PROVE  /\ doomed'[q] \subseteq ever'[cand'[q]]
             /\ \A i \in doomed'[q] : Outdated(ever'[cand'[q]], i)
  <2>1. cand[q] \in Root
    BY <1>1, <1>2, RootType DEF Claimed
  <2>2. /\ doomed[q] \subseteq ever[cand[q]]
        /\ \A i \in doomed[q] : Outdated(ever[cand[q]], i)
    BY <1>2 DEF LogInv, DoomedOld
  <2>3. ever[cand[q]] \subseteq ever'[cand[q]]
    BY <1>1, <2>1, EverGrows
  <2>4. ASSUME NEW i \in doomed[q] PROVE Outdated(ever'[cand[q]], i)
    BY <1>1, <2>1, <2>2, EverGrows
  <2> QED
    BY <1>2, <2>2, <2>3, <2>4
<1>3. CASE List(q)
  <2>1. /\ cand' = cand /\ ever' = ever /\ cand[q] \in Root
        /\ doomed'[q] = Doomed(Listed(cand[q], id[q]))
    BY <1>1, <1>3, RootType DEF List, history, Claimed, TypeOK
  <2>2. Listed(cand[q], id[q]) \subseteq ever[cand[q]] /\ ever[cand[q]] \subseteq Id
    BY <1>1, <2>1 DEF LogInv, WrittenEver, Listed, TypeOK
  <2>3. doomed'[q] \subseteq ever'[cand'[q]]
    BY <2>1, <2>2 DEF Doomed
  <2>4. ASSUME NEW i \in doomed'[q]
        PROVE  Outdated(ever'[cand'[q]], i)
    <3>1. Newers(Listed(cand[q], id[q]), i) >= Keep - 1
      BY <2>1 DEF Doomed, Newers
    <3>2. /\ Newers(Listed(cand[q], id[q]), i) \in Nat
          /\ Newers(ever[cand[q]], i) \in Nat
          /\ Newers(Listed(cand[q], id[q]), i) <= Newers(ever[cand[q]], i)
      BY <2>2, NewersGrow
    <3>3. Newers(ever[cand[q]], i) >= Keep - 1
      BY <3>1, <3>2
    <3> QED
      BY <2>1, <3>3 DEF Outdated, Newers
  <2> QED
    BY <2>3, <2>4
<1>4. CASE ~List(q) /\ ~UNCHANGED vars
  <2>1. pc[q] = "prune" /\ cand'[q] = cand[q] /\ doomed'[q] \subseteq doomed[q]
    BY <1>1, <1>4, StaysPruning
  <2> QED
    BY <1>2, <2>1
<1>5. CASE UNCHANGED vars
  BY <1>2, <1>5 DEF vars, program
<1> QED
  BY <1>3, <1>4, <1>5

\* What remains of a list shrinks with each removal that succeeds; what fails,
\* and what is written meanwhile, is late.
LEMMA PruneSufficesStep ==
    ASSUME LogInv, [Next]_vars
    PROVE  PruneSuffices'
<1> SUFFICES ASSUME NEW q \in Pid, pc'[q] = "prune"
             PROVE  Cardinality(Remains(q)') <= Keep - 1
  BY DEF PruneSuffices, Remains, Written
<1>1. TypeOK /\ TypeOK'
  BY TypeStep DEF LogInv
<1>2. ASSUME pc[q] = "prune", Remains(q)' \subseteq Remains(q)
      PROVE  Cardinality(Remains(q)') <= Keep - 1
  <2>1. Remains(q) \subseteq Id
    BY DEF Remains, Written
  <2>2. Cardinality(Remains(q)) <= Keep - 1
    BY <1>2 DEF LogInv, PruneSuffices
  <2> QED
    BY <1>2, <2>1, <2>2, SmallerSet
<1>3. CASE List(q)
  <2> DEFINE ids == Listed(cand[q], id[q])
  <2>1. /\ UNCHANGED <<cand, id, disk>> /\ doomed'[q] = Doomed(ids)
        /\ late'[q] = {id[q]}
    BY <1>1, <1>3 DEF List, TypeOK
  <2>2. Remains(q)' = ids \ Doomed(ids)
    BY <2>1 DEF Remains, Listed, Written
  <2>3. ids \subseteq Id
    BY DEF Listed, Written
  <2> HIDE DEF ids
  <2> QED
    BY <2>2, <2>3, DoomedLeaves
<1>4. CASE UNCHANGED vars
  <2>1. pc[q] = "prune" /\ Remains(q)' = Remains(q)
    BY <1>4 DEF vars, program, history, Remains, Written
  <2> QED
    BY <1>2, <2>1
<1>5. CASE Next /\ ~List(q)
  <2>1. pc[q] = "prune" /\ cand'[q] = cand[q] /\ cand[q] \in Root
    BY <1>1, <1>5, StaysPruning, RootType DEF Claimed
  <2> SUFFICES ASSUME NEW i \in Id, disk'[<<cand[q], i>>] = "written",
                      i \notin late'[q], i \notin doomed'[q]
               PROVE  /\ disk[<<cand[q], i>>] = "written"
                      /\ i \notin late[q] /\ i \notin doomed[q]
    BY <1>2, <2>1 DEF Remains, Written
  <2>2. CASE Clock
    BY <2>2 DEF Clock, history
  <2>3. ASSUME NEW p \in Pid,
               \/ Launch(p) \/ SkipRoot(p) \/ NoRoot(p) \/ Accept(p)
               \/ ListFailed(p) \/ OpenFailed(p)
        PROVE  UNCHANGED <<disk, late, doomed>>
    BY <2>3 DEF Launch, SkipRoot, NoRoot, Accept, ListFailed, OpenFailed, history
  <2>4. ASSUME NEW p \in Pid, List(p) \/ Pruned(p) \/ End(p)
        PROVE  UNCHANGED <<disk, late[q], doomed[q]>>
    BY <1>1, <1>5, <2>4 DEF List, Pruned, End, TypeOK
  <2>5. ASSUME NEW p \in Pid, Reject(p) \/ CreateDir(p)
        PROVE  /\ UNCHANGED <<late, doomed>>
               /\ disk[<<cand[q], i>>] = "written"
    BY <1>1, <2>1, <2>5, RejectQuiet DEF Reject, CreateDir, history
  <2>6. ASSUME NEW p \in Pid, Fills(p), UNCHANGED doomed
        PROVE  /\ disk[<<cand[q], i>>] = "written"
               /\ i \notin late[q] /\ i \notin doomed[q]
    <3>1. late'[q] = IF cand[q] = cand[p] THEN late[q] \cup {id[p]} ELSE late[q]
      BY <2>1, <2>6 DEF Fills
    <3>2. disk'[<<cand[q], i>>] = IF cand[q] = cand[p] /\ i = id[p]
                                  THEN "written" ELSE disk[<<cand[q], i>>]
      BY <2>1, <2>6 DEF Fills
    <3> QED
      BY <2>6, <3>1, <3>2
  <2>7. ASSUME NEW p \in Pid, Manifest(p) \/ OpenLog(p)
        PROVE  /\ disk[<<cand[q], i>>] = "written"
               /\ i \notin late[q] /\ i \notin doomed[q]
    <3>1. UNCHANGED doomed
      BY <2>7 DEF Manifest, OpenLog
    <3>2. Fills(p) \/ UNCHANGED <<disk, late>>
      BY <1>1, <2>7, ManifestFills, OpenLogFills
    <3> QED
      BY <2>6, <3>1, <3>2
  <2>8. ASSUME NEW p \in Pid, Prune(p)
        PROVE  /\ disk[<<cand[q], i>>] = "written"
               /\ i \notin late[q] /\ i \notin doomed[q]
    <3>1. PICK j \in doomed[p] :
             /\ \A r \in Root, k \in Id : r # cand[p] \/ k # j =>
                    disk'[<<r, k>>] = disk[<<r, k>>]
             /\ disk'[<<cand[p], j>>] = "written" =>
                    /\ disk[<<cand[p], j>>] = "written"
                    /\ late' = [late EXCEPT ![p] = @ \cup {j}]
             /\ late' # late => late' = [late EXCEPT ![p] = @ \cup {j}]
             /\ doomed' = [doomed EXCEPT ![p] = @ \ {j}]
      BY <1>1, <2>8, PruneOne
    <3>2. disk[<<cand[q], i>>] = "written"
      BY <2>1, <3>1
    <3>3. i \notin late[q]
      BY <1>1, <3>1 DEF TypeOK
    <3>4. i \notin doomed[q]
      BY <1>1, <3>1 DEF TypeOK
    <3> QED
      BY <3>2, <3>3, <3>4
  <2> QED
    BY <1>5, <2>2, <2>3, <2>4, <2>5, <2>7, <2>8 DEF Next
<1> QED
  BY <1>3, <1>4, <1>5

\* The budget is set by a retention that ends, and what is written later counts
\* as written since.
LEMMA BudgetStep ==
    ASSUME LogInv, [Next]_vars
    PROVE  BudgetHolds'
<1> DEFINE Rest(r) == {i \in Id : disk[<<r, i>>] = "written" /\ i \notin since[r]}
<1> SUFFICES ASSUME NEW r \in Root
             PROVE  Cardinality(Rest(r)') <= Keep - 1
  <2>1. \A r \in Root : (Written(r) \ since[r])' = Rest(r)'
    BY DEF Written
  <2> HIDE DEF Rest
  <2> QED
    BY <2>1 DEF BudgetHolds
<1>1. TypeOK /\ TypeOK'
  BY TypeStep DEF LogInv
<1>2. ASSUME Rest(r)' \subseteq Rest(r)
      PROVE  Cardinality(Rest(r)') <= Keep - 1
  <2>1. Rest(r) = Written(r) \ since[r]
    BY DEF Written
  <2>2. Cardinality(Rest(r)) <= Keep - 1
    BY <2>1 DEF LogInv, BudgetHolds
  <2>3. Rest(r) \subseteq Id
    OBVIOUS
  <2> HIDE DEF Rest
  <2> QED
    BY <1>2, <2>2, <2>3, SmallerSet
<1>3. ASSUME NEW p \in Pid, Pruned(p), cand[p] = r
      PROVE  Cardinality(Rest(r)') <= Keep - 1
  <2>1. pc[p] = "prune" /\ doomed[p] = {} /\ disk' = disk /\ since'[r] = late[p]
    BY <1>1, <1>3 DEF Pruned, TypeOK
  <2>2. Rest(r)' = Remains(p)
    BY <1>3, <2>1 DEF Remains, Written
  <2>3. Cardinality(Remains(p)) <= Keep - 1
    BY <2>1 DEF LogInv, PruneSuffices
  <2> HIDE DEF Rest
  <2> QED
    BY <2>2, <2>3
<1>4. ASSUME NEW p \in Pid, Pruned(p), cand[p] # r
      PROVE  Rest(r)' \subseteq Rest(r)
  BY <1>1, <1>4 DEF Pruned, TypeOK
<1>5. ASSUME NEW p \in Pid,
             \/ Launch(p) \/ SkipRoot(p) \/ NoRoot(p) \/ Accept(p) \/ List(p)
             \/ ListFailed(p) \/ OpenFailed(p) \/ End(p)
      PROVE  Rest(r)' \subseteq Rest(r)
  BY <1>5 DEF Launch, SkipRoot, NoRoot, Accept, List, ListFailed, OpenFailed, End, history
<1>6. CASE Clock \/ UNCHANGED vars
  <2>1. Rest(r)' = Rest(r)
    BY <1>6 DEF Clock, vars, program, history
  <2> QED
    BY <1>2, <2>1
<1>7. ASSUME NEW p \in Pid, Reject(p) \/ CreateDir(p)
      PROVE  Rest(r)' \subseteq Rest(r)
  <2>1. since' = since
    BY <1>7 DEF Reject, CreateDir, history
  <2> QED
    BY <1>1, <1>7, <2>1, RejectQuiet
<1>8. ASSUME NEW p \in Pid, Manifest(p) \/ OpenLog(p)
      PROVE  Rest(r)' \subseteq Rest(r)
  <2>1. Fills(p) \/ UNCHANGED <<disk, since>>
    BY <1>1, <1>8, ManifestFills, OpenLogFills
  <2>2. CASE Fills(p)
    BY <2>2 DEF Fills
  <2> QED
    BY <2>1, <2>2
<1>9. ASSUME NEW p \in Pid, Prune(p)
      PROVE  Rest(r)' \subseteq Rest(r)
  <2>1. since' = since
    BY <1>9 DEF Prune
  <2>2. \A i \in Id : disk'[<<r, i>>] = "written" => disk[<<r, i>>] = "written"
    BY <1>1, <1>9, PruneOne
  <2> QED
    BY <2>1, <2>2
<1> HIDE DEF Rest
<1> QED
  BY <1>2, <1>3, <1>4, <1>5, <1>6, <1>7, <1>8, <1>9 DEF Next

-----------------------------------------------------------------------------
(* The theorems                                                            *)

THEOREM Invariant == Spec => []LogInv
<1>1. LogInv /\ [Next]_vars => LogInv'
  <2> SUFFICES ASSUME LogInv, [Next]_vars PROVE LogInv'
    OBVIOUS
  <2>1. TypeOK'
    BY TypeStep DEF LogInv
  <2> QED
    BY <2>1, WrittenEverStep, ClaimFreshStep, DoomedOldStep, LostOldStep,
       PruneSufficesStep, BudgetStep DEF LogInv
<1> QED
  BY LogInit, <1>1, PTL DEF Spec

\* Every state is well typed (log.rs, init).
THEOREM TypeCorrect == Spec => []TypeOK
<1>1. LogInv => TypeOK
  BY DEF LogInv
<1> QED
  BY Invariant, <1>1, PTL

\* A claimed directory of a new name is there when its manifest is written
\* (log.rs, claim_session_dir and apply_retention).
THEOREM ClaimsSurvive == Spec => []ClaimSurvives
<1>1. LogInv => ClaimSurvives
  BY DEF LogInv, ClaimFresh, ClaimSurvives
<1> QED
  BY Invariant, <1>1, PTL

\* The Keep - 1 newest sessions ever written are never removed (log.rs,
\* apply_retention).
THEOREM NewestAreKept == Spec => []NewestSurvive
<1>1. LogInv => NewestSurvive
  <2> SUFFICES ASSUME LogInv, NEW r \in Root, NEW i \in ever[r],
                      Newers(ever[r], i) < Keep - 1
               PROVE  disk[<<r, i>>] = "written"
    BY DEF NewestSurvive, Newers
  <2>1. ever[r] \subseteq Id
    BY DEF LogInv, TypeOK
  <2>2. Newers(ever[r], i) \in Nat
    BY <2>1, NewersGrow
  <2>3. ~Outdated(ever[r], i)
    BY <2>2 DEF Outdated
  <2> QED
    BY <2>3 DEF LogInv, LostOld
<1> QED
  BY Invariant, <1>1, PTL

\* A root holds no more than sessions_to_keep sessions, but for those written
\* or not removed since the last retention that ended (log.rs, init).
THEOREM BudgetIsKept == Spec => []BudgetHolds
<1>1. LogInv => BudgetHolds
  BY DEF LogInv
<1> QED
  BY Invariant, <1>1, PTL

-----------------------------------------------------------------------------
(* What runs on a thread                                                   *)

Body == {"enter", "log", "dump", "flush", "leave", "search", "die"}
Report == {"log", "dump", "flush", "leave"}
Line == {"lock", "write"}
Client == {"exit", "terminate", "ctrl", "post", "posted", "refuse"}
Activation == [at : Body \cup Line \cup Client, fault : Nat, last : BOOLEAN]

\* The activation i of the stack s in its surroundings: what its fault may be;
\* a line about an exception runs on top of the report of it; an exception
\* whose report is under way does not count as reported; a last-chance report
\* was noted as begun; and a WM_CLOSE that is on record was posted.
Fine(s, i) ==
    /\ s[i].at \in Body => s[i].fault \in 1..Len(benign)
    /\ s[i].at \in Client => s[i].fault = 0
    /\ s[i].at \in Line /\ s[i].fault # 0 =>
          i > 1 /\ s[i - 1].fault = s[i].fault /\ s[i - 1].at \in {"dump", "flush", "leave"}
    /\ s[i].at \in Report => s[i].fault \notin reported
    /\ s[i].at \in Report /\ s[i].last => lastChance
    /\ s[i].at = "posted" => posted

\* Every activation of every thread is.
AllFine == \A t \in Life!Thread : \A i \in 1..Len(stack[t]) : Fine(stack[t], i)

\* An exception is dealt with in one place.
OneBody ==
    \A t, u \in Life!Thread : \A i \in 1..Len(stack[t]), j \in 1..Len(stack[u]) :
        /\ stack[t][i].at \in Body /\ stack[u][j].at \in Body
        /\ stack[t][i].fault = stack[u][j].fault
        => t = u /\ i = j

\* The types that the argument needs.
Kinds ==
    /\ stack \in [Life!Thread -> Seq(Activation)]
    /\ benign \in Seq(BOOLEAN)
    /\ reported \subseteq 1..Len(benign)
    /\ inFilter \in BOOLEAN /\ lastChance \in BOOLEAN

\* LatchIsHeld, over the positions of a stack.
Latched ==
    inFilter => \/ lastChance
                \/ \E t \in Life!Thread : \E i \in 1..Len(stack[t]) : stack[t][i].at \in Report

\* The inductive invariant.
LifeInv ==
    /\ Kinds /\ AllFine /\ OneBody /\ Latched
    /\ Life!DurableInTime /\ Life!QuitWasPosted

\* A stack with one more activation.
LEMMA Pushes ==
    ASSUME NEW s \in Seq(Activation), NEW a \in Activation
    PROVE  /\ Append(s, a) \in Seq(Activation) /\ Len(Append(s, a)) = Len(s) + 1
           /\ \A i \in 1..Len(s) : Append(s, a)[i] = s[i]
           /\ Append(s, a)[Len(s) + 1] = a
  OBVIOUS

\* A stack without its last activation.
LEMMA Pops ==
    ASSUME NEW s \in Seq(Activation), s # <<>>
    PROVE  /\ Life!Front(s) \in Seq(Activation) /\ Len(Life!Front(s)) = Len(s) - 1 /\ Len(s) > 0
           /\ \A i \in 1..(Len(s) - 1) : Life!Front(s)[i] = s[i]
           /\ Life!Last(s) = s[Len(s)] /\ Life!Last(s) \in Activation
  <1>1. Len(s) \in Nat /\ Len(s) > 0
    OBVIOUS
  <1>2. Life!Front(s) = SubSeq(s, 1, Len(s) - 1) /\ Life!Last(s) = s[Len(s)]
    BY DEF Life!Front, Life!Last
  <1>3. /\ SubSeq(s, 1, Len(s) - 1) \in Seq(Activation)
        /\ Len(SubSeq(s, 1, Len(s) - 1)) = Len(s) - 1
        /\ \A i \in 1..(Len(s) - 1) : SubSeq(s, 1, Len(s) - 1)[i] = s[i]
    <2>1. \A i \in 1..(Len(s) - 1) : s[i] \in Activation
      BY <1>1
    <2>2. PICK m \in Nat : m = Len(s) - 1
      BY <1>1
    <2>3. /\ SubSeq(s, 1, m) \in Seq(Activation)
          /\ Len(SubSeq(s, 1, m)) = IF 1 <= m THEN m - 1 + 1 ELSE 0
          /\ \A i \in 1..(m - 1 + 1) : SubSeq(s, 1, m)[i] = s[1 + i - 1]
      <3>1. m \in Int /\ 1 \in Int /\ \A i \in 1..m : s[i] \in Activation
        BY <2>1, <2>2
      <3> HIDE DEF Activation
      <3> QED BY <3>1, SubSeqProperties
    <2> QED BY <1>1, <2>2, <2>3
  <1> QED BY <1>1, <1>2, <1>3

\* What may stand on the stack of a thread from k + 1 on, of which top was the
\* last activation and went if dropped: the lines are about what is below, and
\* whatever runs about an exception was there or is about a new one.
Sound(s, k, top, dropped) ==
    /\ \A i \in (k + 1)..Len(s) : Fine(s, i)'
    /\ \A i \in (k + 1)..Len(s) : s[i].at \in Body =>
          /\ i = k + 1
          /\ s[i].fault = Len(benign) + 1 \/ (dropped /\ top.at \in Body /\ top.fault = s[i].fault)

\* What a step that drops top may do to the rest, reporting saying whether a
\* report takes the place.
Keeps(top, dropped, reporting) ==
    /\ benign' \in Seq(BOOLEAN) /\ Len(benign') >= Len(benign)
    /\ reported' \subseteq 1..Len(benign')
    /\ \A f \in reported' \ reported : dropped /\ top.at \in Body /\ top.fault = f
    /\ inFilter' \in BOOLEAN /\ lastChance' \in BOOLEAN
    /\ lastChance => lastChance'
    /\ posted => posted'
    /\ inFilter' => inFilter \/ lastChance' \/ reporting
    /\ dropped /\ top.at \in Report => ~inFilter' \/ lastChance' \/ reporting

\* The stack of t from k + 1 on is new.
LEMMA StackStep ==
    ASSUME LifeInv, NEW t \in Life!Thread, NEW k \in Nat, NEW n \in Nat, NEW s \in Seq(Activation),
           stack' = [stack EXCEPT ![t] = s],
           n = Len(stack[t]), k \in {n - 1, n}, k <= Len(s),
           \A i \in 1..k : s[i] = stack[t][i],
           Sound(s, k, stack[t][n], k < n),
           Keeps(stack[t][n], k < n, k < Len(s) /\ s[k + 1].at \in Report)
    PROVE  Kinds' /\ AllFine' /\ OneBody' /\ Latched'
  <1>0. /\ stack \in [Life!Thread -> Seq(Activation)] /\ Len(s) \in Nat /\ Len(benign) \in Nat
        /\ stack'[t] = s /\ \A u \in Life!Thread \ {t} : stack'[u] = stack[u]
        /\ Len(benign') \in Nat
    BY DEF LifeInv, Kinds, Keeps
  <1>1. Kinds'
    BY <1>0 DEF Kinds, Keeps
  \* What is kept of an old stack.
  <1>2. ASSUME NEW u \in Life!Thread, NEW j \in 1..Len(stack'[u]), ~(u = t /\ j > k)
        PROVE  /\ j \in 1..Len(stack[u]) /\ stack'[u][j] = stack[u][j]
               /\ j > 1 => stack'[u][j - 1] = stack[u][j - 1]
    <2>1. CASE u = t
      BY <1>0, <1>2, <2>1
    <2>2. CASE u # t
      BY <1>0, <1>2, <2>2
    <2> QED BY <2>1, <2>2
  <1>3. ASSUME NEW u \in Life!Thread, NEW j \in 1..Len(stack'[u]), ~(u = t /\ j > k)
        PROVE  Fine(stack[u], j)'
    <2>1. /\ j \in 1..Len(stack[u]) /\ stack'[u][j] = stack[u][j]
          /\ j > 1 => stack'[u][j - 1] = stack[u][j - 1]
      BY <1>2, <1>3
    <2>2. Fine(stack[u], j)
      BY <2>1 DEF LifeInv, AllFine
    <2>3. stack[u][j].at \in Report => stack[u][j].fault \notin reported'
      <3> SUFFICES ASSUME stack[u][j].at \in Report, stack[u][j].fault \in reported'
                   PROVE  FALSE
        OBVIOUS
      <3>1. /\ k < n /\ stack[t][n].at \in Body
            /\ stack[t][n].fault = stack[u][j].fault
        BY <2>2 DEF Fine, Keeps
      <3>2. /\ n \in 1..Len(stack[t]) /\ j \in 1..Len(stack[u])
            /\ stack[u][j].at \in Body
        BY <2>1, <3>1 DEF Body, Report
      <3>3. u = t /\ j = n
        BY <3>1, <3>2 DEF LifeInv, OneBody
      <3> QED BY <1>3, <3>1, <3>3
    <2>4. stack[u][j].at \in Body => stack[u][j].fault \in 1..Len(benign')
      BY <1>0, <2>2 DEF Fine, Keeps
    <2> QED BY <2>1, <2>2, <2>3, <2>4 DEF Fine, Keeps
  <1>4. AllFine'
    <2>1. ASSUME NEW u \in Life!Thread, NEW j \in 1..Len(stack'[u]) PROVE Fine(stack[u], j)'
      <3>1. CASE u = t /\ j > k
        <4>1. j \in (k + 1)..Len(s)
          BY <1>0, <3>1
        <4>2. PICK i \in (k + 1)..Len(s) : i = j
          BY <4>1
        <4>3. Fine(s, i)'
          BY DEF Sound
        <4> QED BY <1>0, <3>1, <4>2, <4>3 DEF Fine
      <3> QED BY <1>3, <3>1
    <2> QED BY <2>1 DEF AllFine
  <1>5. ASSUME NEW u \in Life!Thread, NEW j \in 1..Len(stack'[u]), ~(u = t /\ j > k),
               NEW i \in (k + 1)..Len(s), s[i].at \in Body,
               stack'[u][j].at \in Body, stack'[u][j].fault = s[i].fault
        PROVE  FALSE
    <2>1. j \in 1..Len(stack[u]) /\ stack'[u][j] = stack[u][j]
      BY <1>2, <1>5
    <2>2. stack[u][j].fault \in 1..Len(benign)
      BY <1>5, <2>1 DEF LifeInv, AllFine, Fine
    <2>3. k < n /\ stack[t][n].at \in Body /\ stack[t][n].fault = stack[u][j].fault
      BY <1>0, <1>5, <2>1, <2>2 DEF Sound
    <2>4. n \in 1..Len(stack[t]) /\ stack[u][j].at \in Body
      BY <1>5, <2>1, <2>3
    <2>5. u = t /\ j = n
      BY <2>1, <2>3, <2>4 DEF LifeInv, OneBody
    <2> QED BY <1>5, <2>3, <2>5
  <1>6. OneBody'
    <2> SUFFICES ASSUME NEW u \in Life!Thread, NEW w \in Life!Thread,
                        NEW i \in 1..Len(stack'[u]), NEW j \in 1..Len(stack'[w]),
                        stack'[u][i].at \in Body, stack'[w][j].at \in Body,
                        stack'[u][i].fault = stack'[w][j].fault
                 PROVE  u = w /\ i = j
      BY DEF OneBody
    <2>1. CASE ~(u = t /\ i > k) /\ ~(w = t /\ j > k)
      <3>1. /\ i \in 1..Len(stack[u]) /\ stack'[u][i] = stack[u][i]
            /\ j \in 1..Len(stack[w]) /\ stack'[w][j] = stack[w][j]
        BY <1>2, <2>1
      <3>2. /\ stack[u][i].at \in Body /\ stack[w][j].at \in Body
            /\ stack[u][i].fault = stack[w][j].fault
        BY <3>1
      <3> QED BY <3>1, <3>2 DEF LifeInv, OneBody
    <2>2. CASE u = t /\ i > k /\ w = t /\ j > k
      BY <1>0, <2>2 DEF Sound
    <2>3. CASE u = t /\ i > k /\ ~(w = t /\ j > k)
      <3>1. i \in (k + 1)..Len(s) /\ stack'[u][i] = s[i]
        BY <1>0, <2>3
      <3> QED BY <1>5, <2>3, <3>1
    <2>4. CASE ~(u = t /\ i > k) /\ w = t /\ j > k
      <3>1. j \in (k + 1)..Len(s) /\ stack'[w][j] = s[j]
        BY <1>0, <2>4
      <3> QED BY <1>5, <2>4, <3>1
    <2> QED BY <2>1, <2>2, <2>3, <2>4
  <1>7. Latched'
    <2> SUFFICES ASSUME inFilter', ~lastChance'
                 PROVE  \E u \in Life!Thread : \E i \in 1..Len(stack'[u]) :
                            stack'[u][i].at \in Report
      BY DEF Latched
    <2>1. CASE k < Len(s) /\ s[k + 1].at \in Report
      <3>1. k + 1 \in 1..Len(stack'[t]) /\ stack'[t][k + 1].at \in Report
        BY <1>0, <2>1
      <3> QED BY <3>1
    <2>2. CASE ~(k < Len(s) /\ s[k + 1].at \in Report)
      <3>0. PICK u \in Life!Thread : \E i \in 1..Len(stack[u]) : stack[u][i].at \in Report
        BY <2>2 DEF LifeInv, Latched, Keeps
      <3>1. PICK i \in 1..Len(stack[u]) : stack[u][i].at \in Report
        BY <3>0
      <3>2. CASE u = t /\ i > k
        <4>1. k < n /\ i = n
          BY <3>1, <3>2
        <4> QED BY <2>2, <3>1, <3>2, <4>1 DEF Keeps
      <3>3. CASE u # t
        BY <1>0, <3>1, <3>3
      <3>4. CASE u = t /\ i <= k
        <4>1. i \in 1..Len(s) /\ s[i] = stack[t][i]
          BY <1>0, <3>1, <3>4
        <4> QED BY <1>0, <3>1, <3>4, <4>1
      <3> QED BY <3>1, <3>2, <3>3, <3>4
    <2> QED BY <2>1, <2>2
  <1> QED BY <1>1, <1>4, <1>6, <1>7

\* The top of a stack.
LEMMA TopShape ==
    ASSUME Kinds, NEW t \in Life!Thread, ~Life!Idle(t)
    PROVE  /\ Len(stack[t]) \in Nat /\ Len(stack[t]) > 0
           /\ Life!Top(t) = stack[t][Len(stack[t])] /\ Life!Top(t) \in Activation
           /\ stack[t] \in Seq(Activation) /\ stack[t] # <<>>
  <1>1. stack[t] \in Seq(Activation) /\ stack[t] # <<>>
    BY DEF Kinds, Life!Idle
  <1> QED BY <1>1, Pops DEF Life!Top

\* What goes on as before, apart from the stacks.
Quietly ==
    /\ UNCHANGED <<benign, reported, inFilter, lastChance>>
    /\ posted => posted'

\* What may take the place of an activation.
Follows(a, top) ==
    /\ a.at \in Body => top.at \in Body /\ a.fault = top.fault
    /\ a.at \in Client => a.fault = 0
    /\ a.at \in Line => a.fault = 0 \/ (top.at \in Line /\ a.fault = top.fault)
    /\ a.at \in Report <=> top.at \in Report
    /\ a.at \in Report => a.last = top.last

\* Something takes the place of the running activation and leaves the rest.
LEMMA QuietReplace ==
    ASSUME LifeInv, Quietly, NEW t \in Life!Thread, ~Life!Idle(t), NEW a \in Activation,
           Follows(a, Life!Top(t)), a.at = "posted" => posted', stack' = Life!Becomes(t, a)
    PROVE  Kinds' /\ AllFine' /\ OneBody' /\ Latched'
  <1>0. PICK q, top, n : q = stack[t] /\ top = Life!Top(t) /\ n = Len(q)
    OBVIOUS
  <1> DEFINE s == Append(Life!Front(q), a)
  <1>1. /\ n \in Nat /\ n > 0 /\ top = q[n] /\ q \in Seq(Activation) /\ q # <<>>
        /\ top \in Activation
    BY <1>0, TopShape DEF LifeInv
  <1>2. /\ Life!Front(q) \in Seq(Activation) /\ Len(Life!Front(q)) = n - 1
        /\ \A i \in 1..(n - 1) : Life!Front(q)[i] = q[i]
    BY <1>0, <1>1, Pops
  <1>3. /\ s \in Seq(Activation) /\ Len(s) = n /\ s[n] = a
        /\ \A i \in 1..(n - 1) : s[i] = q[i]
    BY <1>1, <1>2, Pushes
  <1>4. stack' = [stack EXCEPT ![t] = s]
    BY <1>0 DEF Life!Becomes
  <1>5. Fine(q, n) /\ Follows(a, top)
    <2>1. n \in 1..Len(stack[t])
      BY <1>0, <1>1
    <2>2. Fine(stack[t], n)
      BY <2>1 DEF LifeInv, AllFine
    <2> QED BY <1>0, <2>2
  <1> HIDE DEF s
  <1>6. Fine(s, n)'
    <2>1. n > 1 => s[n - 1] = q[n - 1]
      BY <1>1, <1>3
    <2> QED BY <1>1, <1>3, <1>5, <2>1 DEF Fine, Follows, Quietly, Body, Line, Client, Report
  <1>7. /\ \A i \in ((n - 1) + 1)..Len(s) : i = n
        /\ n - 1 \in Nat /\ n - 1 <= Len(s) /\ n - 1 < n /\ n - 1 < Len(s) /\ (n - 1) + 1 = n
    BY <1>1, <1>3
  <1>8. PICK k \in Nat : k = n - 1
    BY <1>1
  <1>9. /\ k <= Len(s) /\ k < n /\ k < Len(s) /\ k \in {n - 1, n} /\ n = Len(stack[t])
        /\ k + 1 = n /\ \A i \in 1..k : s[i] = stack[t][i]
    BY <1>0, <1>1, <1>3, <1>8
  <1>10. Sound(s, k, stack[t][n], k < n)
    BY <1>0, <1>1, <1>3, <1>5, <1>6, <1>7, <1>9 DEF Follows, Sound
  <1>11. Keeps(stack[t][n], k < n, k < Len(s) /\ s[k + 1].at \in Report)
    BY <1>0, <1>1, <1>3, <1>5, <1>9 DEF Follows, Keeps, LifeInv, Kinds, Quietly
  <1> QED BY <1>1, <1>3, <1>4, <1>9, <1>10, <1>11, StackStep

\* The running activation returns; no report does so without more.
LEMMA QuietPop ==
    ASSUME LifeInv, Quietly, NEW t \in Life!Thread, ~Life!Idle(t), Life!Top(t).at \notin Report,
           stack' = Life!Popped(t)
    PROVE  Kinds' /\ AllFine' /\ OneBody' /\ Latched'
  <1>0. PICK q, n : q = stack[t] /\ n = Len(q)
    OBVIOUS
  <1> DEFINE s == Life!Front(q)
  <1>1. /\ n \in Nat /\ n > 0 /\ q \in Seq(Activation) /\ q # <<>>
        /\ q[n].at \notin Report
    BY <1>0, TopShape DEF LifeInv
  <1>2. /\ s \in Seq(Activation) /\ Len(s) = n - 1
        /\ \A i \in 1..(n - 1) : s[i] = stack[t][i]
    BY <1>0, <1>1, Pops
  <1>3. stack' = [stack EXCEPT ![t] = s]
    BY <1>0 DEF Life!Popped
  <1> HIDE DEF s
  <1>4. PICK k \in Nat : k = n - 1
    BY <1>1
  <1>5. /\ k <= Len(s) /\ k < n /\ ~(k < Len(s)) /\ k \in {n - 1, n} /\ n = Len(stack[t])
        /\ \A i \in 1..k : s[i] = stack[t][i]
    BY <1>0, <1>1, <1>2, <1>4
  <1>6. Sound(s, k, stack[t][n], k < n)
    BY <1>2, <1>5 DEF Sound
  <1>7. Keeps(stack[t][n], k < n, k < Len(s) /\ s[k + 1].at \in Report)
    BY <1>0, <1>1 DEF Keeps, LifeInv, Kinds, Quietly
  <1> QED BY <1>1, <1>2, <1>3, <1>5, <1>6, <1>7, StackStep

\* Activations that are about no exception.
Plain(a) == a.at \in Line \cup Client /\ a.fault = 0 /\ a.at # "posted"

\* Something that is about no exception, or a line of the report that runs,
\* comes on top.
LEMMA QuietPush ==
    ASSUME LifeInv, Quietly, NEW t \in Life!Thread, NEW a \in Activation,
           \/ Plain(a)
           \/ /\ a.at \in Line /\ ~Life!Idle(t) /\ a.fault = Life!Top(t).fault
              /\ Life!Top(t).at \in {"dump", "leave", "flush"},
           stack' = [stack EXCEPT ![t] = Append(@, a)]
    PROVE  Kinds' /\ AllFine' /\ OneBody' /\ Latched'
  <1>0. PICK q, n : q = stack[t] /\ n = Len(q)
    OBVIOUS
  <1> DEFINE s == Append(q, a)
  <1>1. n \in Nat /\ q \in Seq(Activation)
    BY <1>0 DEF LifeInv, Kinds
  <1>2. /\ s \in Seq(Activation) /\ Len(s) = n + 1 /\ s[n + 1] = a
        /\ \A i \in 1..n : s[i] = q[i]
    BY <1>0, <1>1, Pushes
  <1>3. stack' = [stack EXCEPT ![t] = s]
    BY <1>0
  <1> HIDE DEF s
  <1>4. Fine(s, n + 1)'
    <2>1. CASE Plain(a)
      BY <1>1, <1>2, <2>1 DEF Fine, Plain, Body, Report, Line, Client
    <2>2. CASE ~Plain(a)
      <3>1. /\ n > 0 /\ q[n].fault = a.fault /\ q[n].at \in {"dump", "flush", "leave"}
            /\ a.at \in Line
        BY <1>0, <2>2, TopShape DEF LifeInv
      <3>2. s[n] = q[n] /\ (n + 1) - 1 = n /\ n + 1 > 1
        BY <1>1, <1>2, <3>1
      <3> QED BY <1>2, <3>1, <3>2 DEF Fine, Body, Report, Line, Client
    <2> QED BY <2>1, <2>2
  <1>5. Sound(s, n, stack[t][n], n < n)
    BY <1>1, <1>2, <1>4 DEF Plain, Line, Client, Body, Sound
  <1>6. Keeps(stack[t][n], n < n, n < Len(s) /\ s[n + 1].at \in Report)
    BY <1>1 DEF Keeps, LifeInv, Kinds, Quietly
  <1>7. n <= Len(s) /\ n \in {n - 1, n} /\ \A i \in 1..n : s[i] = stack[t][i]
    BY <1>0, <1>1, <1>2
  <1> QED BY <1>0, <1>1, <1>2, <1>3, <1>5, <1>6, <1>7, StackStep

\* t puts b on what it does in the stacks st.
On(st, t, b) == [st EXCEPT ![t] = Append(@, b)]

\* The same under a line about it.
LEMMA QuietReplaceLine ==
    ASSUME LifeInv, Quietly, NEW t \in Life!Thread, ~Life!Idle(t), NEW a \in Activation,
           NEW b \in Activation, b.at \in Line, b.fault = a.fault,
           a.at \in {"dump", "leave", "flush"} \/ a.fault = 0,
           Follows(a, Life!Top(t)), a.at = "posted" => posted',
           stack' = On(Life!Becomes(t, a), t, b)
    PROVE  Kinds' /\ AllFine' /\ OneBody' /\ Latched'
  <1>0. PICK q, top, n : q = stack[t] /\ top = Life!Top(t) /\ n = Len(q)
    OBVIOUS
  <1>r. PICK r, s : r = Append(Life!Front(q), a) /\ s = Append(r, b)
    OBVIOUS
  <1>1. /\ n \in Nat /\ n > 0 /\ top = q[n] /\ q \in Seq(Activation) /\ q # <<>>
        /\ top \in Activation
    BY <1>0, TopShape DEF LifeInv
  <1>2. /\ Life!Front(q) \in Seq(Activation) /\ Len(Life!Front(q)) = n - 1
        /\ \A i \in 1..(n - 1) : Life!Front(q)[i] = q[i]
    BY <1>0, <1>1, Pops
  <1>3. /\ r \in Seq(Activation) /\ Len(r) = n /\ r[n] = a
        /\ \A i \in 1..(n - 1) : r[i] = q[i]
    BY <1>r, <1>1, <1>2, Pushes
  <1>4. stack' = [stack EXCEPT ![t] = s]
    BY <1>r, <1>0 DEF Life!Becomes, On, LifeInv, Kinds
  <1>5. /\ s \in Seq(Activation) /\ Len(s) = n + 1 /\ s[n + 1] = b
        /\ \A i \in 1..n : s[i] = r[i]
    BY <1>r, <1>1, <1>3, Pushes
  <1>6. /\ s[n] = a /\ \A i \in 1..(n - 1) : s[i] = q[i]
    BY <1>1, <1>3, <1>5
  <1>7. Fine(q, n) /\ Follows(a, top)
    <2>1. n \in 1..Len(stack[t])
      BY <1>0, <1>1
    <2>2. Fine(stack[t], n)
      BY <2>1 DEF LifeInv, AllFine
    <2> QED BY <1>0, <2>2
  <1>8. Fine(s, n)'
    <2>1. n > 1 => s[n - 1] = q[n - 1]
      BY <1>1, <1>6
    <2> QED BY <1>1, <1>6, <1>7, <2>1 DEF Fine, Follows, Quietly, Body, Line, Client, Report
  <1>9. Fine(s, n + 1)'
    <2>1. (n + 1) - 1 = n /\ n + 1 > 1
      BY <1>1
    <2> QED BY <1>5, <1>6, <2>1 DEF Fine, Body, Line, Client, Report
  <1>10. PICK k \in Nat : k = n - 1
    BY <1>1
  <1>11. /\ k <= Len(s) /\ k < n /\ k < Len(s) /\ k \in {n - 1, n} /\ n = Len(stack[t])
         /\ k + 1 = n /\ \A i \in 1..k : s[i] = stack[t][i]
         /\ \A i \in n..Len(s) : i = n \/ i = n + 1
    BY <1>0, <1>1, <1>5, <1>6, <1>10
  <1>12. Sound(s, k, stack[t][n], k < n)
    BY <1>0, <1>1, <1>5, <1>6, <1>7, <1>8, <1>9, <1>11 DEF Follows, Sound, Body, Line
  <1>13. Keeps(stack[t][n], k < n, k < Len(s) /\ s[k + 1].at \in Report)
    BY <1>0, <1>1, <1>6, <1>7, <1>11 DEF Follows, Keeps, LifeInv, Kinds, Quietly
  <1> QED BY <1>1, <1>4, <1>5, <1>11, <1>12, <1>13, StackStep

\* A call and its line come on top.
LEMMA QuietPushLine ==
    ASSUME LifeInv, Quietly, NEW t \in Life!Thread, NEW a \in Activation, NEW b \in Activation,
           Plain(a), Plain(b),
           stack' = On([stack EXCEPT ![t] = Append(@, a)], t, b)
    PROVE  Kinds' /\ AllFine' /\ OneBody' /\ Latched'
  <1>0. PICK q, n : q = stack[t] /\ n = Len(q)
    OBVIOUS
  <1>r. PICK r, s : r = Append(q, a) /\ s = Append(r, b)
    OBVIOUS
  <1>1. n \in Nat /\ q \in Seq(Activation)
    BY <1>0 DEF LifeInv, Kinds
  <1>2. /\ r \in Seq(Activation) /\ Len(r) = n + 1 /\ r[n + 1] = a
        /\ \A i \in 1..n : r[i] = q[i]
    BY <1>r, <1>0, <1>1, Pushes
  <1>3. stack' = [stack EXCEPT ![t] = s]
    BY <1>r, <1>0 DEF On, LifeInv, Kinds
  <1>4. /\ s \in Seq(Activation) /\ Len(s) = n + 2 /\ s[n + 2] = b
        /\ \A i \in 1..(n + 1) : s[i] = r[i]
    BY <1>r, <1>1, <1>2, Pushes
  <1>5. /\ s[n + 1] = a /\ \A i \in 1..n : s[i] = stack[t][i]
    BY <1>0, <1>1, <1>2, <1>4
  <1>6. Fine(s, n + 1)' /\ Fine(s, n + 2)'
    BY <1>4, <1>5 DEF Fine, Plain, Body, Report, Line, Client
  <1>7. /\ n <= Len(s) /\ n \in {n - 1, n}
        /\ \A i \in (n + 1)..Len(s) : i = n + 1 \/ i = n + 2
    BY <1>1, <1>4
  <1>8. Sound(s, n, stack[t][n], n < n)
    BY <1>4, <1>5, <1>6, <1>7 DEF Plain, Line, Client, Body, Sound
  <1>9. Keeps(stack[t][n], n < n, n < Len(s) /\ s[n + 1].at \in Report)
    BY <1>1 DEF Keeps, LifeInv, Kinds, Quietly
  <1> QED BY <1>0, <1>1, <1>3, <1>4, <1>5, <1>7, <1>8, <1>9, StackStep

\* The stacks stay as they are.
LEMMA QuietStay ==
    ASSUME LifeInv, Quietly, stack' = stack
    PROVE  Kinds' /\ AllFine' /\ OneBody' /\ Latched'
  <1>1. Kinds'
    BY DEF LifeInv, Kinds, Quietly
  <1>2. AllFine'
    <2> SUFFICES ASSUME NEW t \in Life!Thread, NEW i \in 1..Len(stack[t]) PROVE Fine(stack[t], i)'
      BY DEF AllFine
    <2> QED BY DEF LifeInv, AllFine, Fine, Quietly
  <1>3. OneBody' /\ Latched'
    BY DEF LifeInv, OneBody, Latched, Quietly
  <1> QED BY <1>1, <1>2, <1>3

\* A report goes on, with a new state of the latch and of what is complete.
LEMMA ReportGoesOn ==
    ASSUME LifeInv, NEW t \in Life!Thread, ~Life!Idle(t), NEW a \in Activation,
           a.at \in Body, Life!Top(t).at \in Body, a.fault = Life!Top(t).fault,
           a.at \in Report => a.fault \notin reported' /\ (a.last => lastChance'),
           stack' = Life!Becomes(t, a), Keeps(Life!Top(t), TRUE, a.at \in Report)
    PROVE  Kinds' /\ AllFine' /\ OneBody' /\ Latched'
  <1>0. PICK q, top, n : q = stack[t] /\ top = Life!Top(t) /\ n = Len(q)
    OBVIOUS
  <1>1. /\ n \in Nat /\ n > 0 /\ top = q[n] /\ q \in Seq(Activation) /\ q # <<>>
        /\ top \in Activation
    BY <1>0, TopShape DEF LifeInv
  <1>2. /\ Life!Front(q) \in Seq(Activation) /\ Len(Life!Front(q)) = n - 1
        /\ \A i \in 1..(n - 1) : Life!Front(q)[i] = q[i]
    BY <1>0, <1>1, Pops
  <1>3. PICK s : s = Append(Life!Front(q), a)
    OBVIOUS
  <1>4. /\ s \in Seq(Activation) /\ Len(s) = n /\ s[n] = a
        /\ \A i \in 1..(n - 1) : s[i] = q[i]
    BY <1>1, <1>2, <1>3, Pushes
  <1>5. stack' = [stack EXCEPT ![t] = s]
    BY <1>0, <1>3 DEF Life!Becomes
  <1>6. Fine(q, n)
    <2>1. n \in 1..Len(stack[t])
      BY <1>0, <1>1
    <2>2. Fine(stack[t], n)
      BY <2>1 DEF LifeInv, AllFine
    <2> QED BY <1>0, <2>2
  <1>7. Fine(s, n)'
    <2>1. Len(benign) \in Nat /\ Len(benign') \in Nat /\ Len(benign') >= Len(benign)
      BY DEF LifeInv, Kinds, Keeps
    <2> QED BY <1>0, <1>1, <1>4, <1>6, <2>1 DEF Fine, Body, Line, Client, Report
  <1>8. PICK k \in Nat : k = n - 1
    BY <1>1
  <1>9. /\ k <= Len(s) /\ k < n /\ k < Len(s) /\ k \in {n - 1, n} /\ n = Len(stack[t])
        /\ k + 1 = n /\ \A i \in 1..k : s[i] = stack[t][i]
        /\ \A i \in n..Len(s) : i = n
    BY <1>0, <1>1, <1>4, <1>8
  <1>10. Sound(s, k, stack[t][n], k < n)
    BY <1>0, <1>1, <1>4, <1>7, <1>9 DEF Sound
  <1>11. Keeps(stack[t][n], k < n, k < Len(s) /\ s[k + 1].at \in Report)
    BY <1>0, <1>1, <1>4, <1>9 DEF Keeps
  <1> QED BY <1>1, <1>4, <1>5, <1>9, <1>10, <1>11, StackStep

-----------------------------------------------------------------------------
\* What an event line makes of what runs.

\* A line that has yet to take the mutex.
LEMMA Locks ==
    ASSUME NEW f \in Nat
    PROVE  /\ Life!Act("lock", f) \in Activation /\ Life!Act("lock", f).at = "lock"
           /\ Life!Act("lock", f).fault = f /\ ("lock" \in Line)
  BY DEF Life!Act, Activation, Line

\* A hook's line.
LEMMA EmitAlone ==
    ASSUME LifeInv, Quietly, NEW t \in Life!Thread, Life!Emit(t, stack, 0)
    PROVE  Kinds' /\ AllFine' /\ OneBody' /\ Latched'
  <1>1. CASE inEvent[t]
    BY <1>1, QuietStay DEF Life!Emit
  <1>2. CASE ~inEvent[t]
    <2>1. PICK b : b = Life!Act("lock", 0)
      OBVIOUS
    <2>2. b \in Activation /\ Plain(b)
      BY <2>1, Locks DEF Plain
    <2>3. stack' = [stack EXCEPT ![t] = Append(@, b)]
      BY <1>2, <2>1 DEF Life!Emit
    <2> QED BY <2>2, <2>3, QuietPush
  <1> QED BY <1>1, <1>2

\* The line of a report or handler that goes on as a.
LEMMA EmitOn ==
    ASSUME LifeInv, Quietly, NEW t \in Life!Thread, ~Life!Idle(t), NEW a \in Activation,
           a.at \in {"dump", "leave", "flush"} \/ a.fault = 0,
           Follows(a, Life!Top(t)), a.at = "posted" => posted',
           Life!Emit(t, Life!Becomes(t, a), a.fault)
    PROVE  Kinds' /\ AllFine' /\ OneBody' /\ Latched'
  <1>1. CASE inEvent[t]
    BY <1>1, QuietReplace DEF Life!Emit
  <1>2. CASE ~inEvent[t]
    <2>1. PICK b : b = Life!Act("lock", a.fault)
      OBVIOUS
    <2>0. a.fault \in Nat
      BY DEF Activation
    <2>2. b \in Activation /\ b.at \in Line /\ b.fault = a.fault
      BY <2>0, <2>1, Locks
    <2>3. stack' = On(Life!Becomes(t, a), t, b)
      BY <1>2, <2>1 DEF Life!Emit, On
    <2> QED BY <2>2, <2>3, QuietReplaceLine
  <1> QED BY <1>1, <1>2

\* The line of a call that then goes on as a.
LEMMA EmitInside ==
    ASSUME LifeInv, Quietly, NEW t \in Life!Thread, NEW a \in Activation, Plain(a),
           Life!Emit(t, [stack EXCEPT ![t] = Append(@, a)], 0)
    PROVE  Kinds' /\ AllFine' /\ OneBody' /\ Latched'
  <1>1. CASE inEvent[t]
    BY <1>1, QuietPush DEF Life!Emit
  <1>2. CASE ~inEvent[t]
    <2>1. PICK b : b = Life!Act("lock", 0)
      OBVIOUS
    <2>2. b \in Activation /\ Plain(b)
      BY <2>1, Locks DEF Plain
    <2>3. stack' = On([stack EXCEPT ![t] = Append(@, a)], t, b)
      BY <1>2, <2>1 DEF Life!Emit, On
    <2> QED BY <2>2, <2>3, QuietPushLine
  <1> QED BY <1>1, <1>2

\* The last line of a handler that returns.
LEMMA EmitLeaving ==
    ASSUME LifeInv, Quietly, NEW t \in Life!Thread, ~Life!Idle(t), Life!Top(t).at \in Client,
           Life!Emit(t, Life!Popped(t), 0)
    PROVE  Kinds' /\ AllFine' /\ OneBody' /\ Latched'
  <1>0. Life!Top(t).at \notin Report
    BY DEF Client, Report
  <1>1. CASE inEvent[t]
    BY <1>0, <1>1, QuietPop DEF Life!Emit
  <1>2. CASE ~inEvent[t]
    <2>1. PICK b : b = Life!Act("lock", 0)
      OBVIOUS
    <2>2. b \in Activation /\ b.at = "lock" /\ b.fault = 0
      BY <2>1, Locks
    <2>3. Follows(b, Life!Top(t))
      BY <1>0, <2>2 DEF Follows, Body, Line, Client, Report
    <2>4. stack' = [Life!Popped(t) EXCEPT ![t] = Append(@, b)]
      BY <1>2, <2>1 DEF Life!Emit
    <2>5. Life!Popped(t)[t] = Life!Front(stack[t])
      BY DEF Life!Popped, LifeInv, Kinds
    <2>6. stack' = Life!Becomes(t, b)
      BY <2>4, <2>5 DEF Life!Popped, Life!Becomes, LifeInv, Kinds
    <2> QED BY <2>2, <2>3, <2>6, QuietReplace
  <1> QED BY <1>1, <1>2

\* The running activation with another place.
LEMMA Going ==
    ASSUME Kinds, NEW t \in Life!Thread, ~Life!Idle(t), NEW at \in Body \cup Line \cup Client
    PROVE  \E a \in Activation :
              /\ a.at = at /\ a.fault = Life!Top(t).fault /\ a.last = Life!Top(t).last
              /\ Life!Goes(t, at) = Life!Becomes(t, a)
  <1>1. PICK top : top = Life!Top(t)
    OBVIOUS
  <1>2. top \in Activation
    BY <1>1, TopShape
  <1>3. PICK a : a = [top EXCEPT !.at = at]
    OBVIOUS
  <1>4. a \in Activation /\ a.at = at /\ a.fault = top.fault /\ a.last = top.last
    BY <1>2, <1>3 DEF Activation
  <1>5. Life!Goes(t, at) = Life!Becomes(t, a)
    BY <1>1, <1>3 DEF Life!Goes
  <1> QED BY <1>1, <1>4, <1>5

\* What the running activation may rely on.  A line is about no exception, or
\* about one whose report is below it.
LEMMA TopFine ==
    ASSUME LifeInv, NEW t \in Life!Thread, ~Life!Idle(t)
    PROVE  /\ Life!Top(t).at \in Body => Life!Top(t).fault \in 1..Len(benign)
           /\ Life!Top(t).at \in Client => Life!Top(t).fault = 0
           /\ Life!Top(t).at \in Line => Life!Top(t).fault \notin reported
           /\ Life!Top(t).at \in Report => Life!Top(t).fault \notin reported
           /\ Life!Top(t).at \in Report /\ Life!Top(t).last => lastChance
           /\ Life!Top(t).at = "posted" => posted
  <1>1. PICK q, n : q = stack[t] /\ n = Len(q)
    OBVIOUS
  <1>2. n \in Nat /\ n > 0 /\ Life!Top(t) = q[n] /\ n \in 1..Len(stack[t])
    BY <1>1, TopShape DEF LifeInv
  <1>3. Fine(q, n)
    BY <1>1, <1>2 DEF LifeInv, AllFine
  <1>4. ASSUME q[n].at \in Line PROVE q[n].fault \notin reported
    <2>1. CASE q[n].fault = 0
      BY <2>1 DEF LifeInv, Kinds
    <2>2. CASE q[n].fault # 0
      <3>1. /\ n > 1 /\ q[n - 1].fault = q[n].fault
            /\ q[n - 1].at \in {"dump", "flush", "leave"}
        BY <1>3, <1>4, <2>2 DEF Fine
      <3>2. n - 1 \in 1..Len(stack[t])
        BY <1>1, <1>2, <3>1
      <3>3. Fine(q, n - 1)
        BY <1>1, <3>2 DEF LifeInv, AllFine
      <3> QED BY <3>1, <3>3 DEF Fine, Report
    <2> QED BY <2>1, <2>2
  <1> QED BY <1>2, <1>3, <1>4 DEF Fine

\* Lines that were written leave the cache, or only the file of a crash ends.
LEMMA Settles ==
    ASSUME LifeInv,
           \/ cache' = {}
           \/ /\ cache' \subseteq cache /\ reported' \subseteq reported
              /\ ended'.how \notin {"exit", "ctrl"}
    PROVE  Life!DurableInTime'
  BY DEF LifeInv, Life!DurableInTime

\* At the start nothing runs.
LEMMA LifeInit == Life!Init => LifeInv
  <1> SUFFICES ASSUME Life!Init PROVE LifeInv
    OBVIOUS
  <1>1. \A t \in Life!Thread : stack[t] = <<>> /\ Len(stack[t]) = 0
    BY DEF Life!Init
  <1>2. Kinds
    <2>1. stack \in [Life!Thread -> Seq(Activation)] /\ benign \in Seq(BOOLEAN)
      BY DEF Life!Init
    <2> QED BY <2>1 DEF Life!Init, Kinds
  <1>3. AllFine /\ OneBody
    BY <1>1 DEF AllFine, OneBody
  <1>4. Latched /\ Life!DurableInTime /\ Life!QuitWasPosted
    BY DEF Life!Init, Latched, Life!DurableInTime, Life!QuitWasPosted
  <1> QED BY <1>2, <1>3, <1>4 DEF LifeInv

-----------------------------------------------------------------------------
(* The steps                                                               *)

\* The mutex is taken.
LEMMA LockStep ==
    ASSUME LifeInv, NEW t \in Life!Thread, Life!Lock(t) PROVE LifeInv'
  <1>1. /\ ~Life!Idle(t) /\ Life!Top(t).at = "lock" /\ ended.how = "no" /\ Quietly
        /\ UNCHANGED <<cache, reported, ended, quit, posted>>
    BY DEF Life!Lock, Life!At, Quietly, Life!crash, Life!console, Life!rest
  <1>2. PICK a \in Activation : /\ a.at = "write" /\ a.fault = Life!Top(t).fault
                                /\ stack' = Life!Becomes(t, a)
    BY <1>1, Going DEF Life!Lock, LifeInv, Line
  <1>3. Follows(a, Life!Top(t))
    BY <1>1, <1>2 DEF Follows, Body, Report, Line, Client
  <1>4. Kinds' /\ AllFine' /\ OneBody' /\ Latched'
    BY <1>1, <1>2, <1>3, QuietReplace
  <1>5. Life!DurableInTime'
    BY <1>1, Settles
  <1> QED BY <1>1, <1>4, <1>5 DEF LifeInv, Life!QuitWasPosted

\* A line goes to the cache: its exception is not yet reported.
LEMMA WriteLineStep ==
    ASSUME LifeInv, NEW t \in Life!Thread, Life!WriteLine(t) PROVE LifeInv'
  <1>1. /\ ~Life!Idle(t) /\ Life!Top(t).at = "write" /\ ended.how = "no" /\ Quietly
        /\ UNCHANGED <<reported, ended, quit, posted>> /\ stack' = Life!Popped(t)
        /\ cache' = cache \cup {<<t, Life!Top(t).fault>>}
    BY DEF Life!WriteLine, Life!At, Quietly, Life!crash, Life!console, Life!rest
  <1>2. Life!Top(t).at \notin Report /\ Life!Top(t).at \in Line
    BY <1>1 DEF Report, Line
  <1>3. Kinds' /\ AllFine' /\ OneBody' /\ Latched'
    BY <1>1, <1>2, QuietPop
  <1>4. Life!Top(t).fault \notin reported
    BY <1>1, <1>2, TopFine
  <1>5. Life!DurableInTime'
    BY <1>1, <1>4 DEF LifeInv, Life!DurableInTime
  <1> QED BY <1>1, <1>3, <1>5 DEF LifeInv, Life!QuitWasPosted

\* A line of a hook.
LEMMA HookStep ==
    ASSUME LifeInv, NEW t \in Life!Thread, Life!HookLine(t) \/ Life!CreateThread(t) PROVE LifeInv'
  <1>1. /\ Life!Emit(t, stack, 0) /\ ended.how = "no" /\ Quietly
        /\ UNCHANGED <<cache, reported, ended, quit, posted>>
    BY DEF Life!HookLine, Life!CreateThread, Life!AtGame, Quietly, Life!crash, Life!console
  <1>2. Kinds' /\ AllFine' /\ OneBody' /\ Latched'
    BY <1>1, EmitAlone
  <1>3. Life!DurableInTime'
    BY <1>1, Settles
  <1> QED BY <1>1, <1>2, <1>3 DEF LifeInv, Life!QuitWasPosted

\* The game calls ExitProcess or TerminateProcess.
LEMMA ExitCalledStep ==
    ASSUME LifeInv, NEW t \in Life!Thread, Life!ExitCalled(t) PROVE LifeInv'
  <1>1. /\ ended.how = "no" /\ Quietly
        /\ UNCHANGED <<cache, reported, ended, quit, posted>>
    BY DEF Life!ExitCalled, Life!AtGame, Quietly, Life!crash, Life!console
  <1>2. PICK real \in {"exit", "terminate"} :
            Life!Emit(t, [stack EXCEPT ![t] = Append(@, Life!Act(real, 0))], 0)
    BY DEF Life!ExitCalled
  <1>3. PICK a : a = Life!Act(real, 0)
    OBVIOUS
  <1>4. a \in Activation /\ Plain(a)
    BY <1>3 DEF Life!Act, Activation, Plain, Client
  <1>5. Life!Emit(t, [stack EXCEPT ![t] = Append(@, a)], 0)
    BY <1>2, <1>3
  <1>6. Kinds' /\ AllFine' /\ OneBody' /\ Latched'
    BY <1>1, <1>4, <1>5, EmitInside
  <1>7. Life!DurableInTime'
    BY <1>1, Settles
  <1> QED BY <1>1, <1>6, <1>7 DEF LifeInv, Life!QuitWasPosted

\* A new exception, on top of whatever ran.
LEMMA RaiseStep ==
    ASSUME LifeInv, NEW t \in Life!Thread, Life!Raise(t) PROVE LifeInv'
  <1>1. /\ ended.how = "no"
        /\ UNCHANGED <<cache, reported, inFilter, lastChance, ended, quit, posted>>
        /\ \E b \in BOOLEAN : benign' = Append(benign, b)
    BY DEF Life!Raise, Life!log, Life!crash, Life!console
  <1>2. /\ benign' \in Seq(BOOLEAN) /\ Len(benign') = Len(benign) + 1
        /\ Len(benign) \in Nat
    BY <1>1 DEF LifeInv, Kinds
  <1>3. PICK q, n : q = stack[t] /\ n = Len(q)
    OBVIOUS
  <1>4. PICK a : a = Life!Act("enter", Len(benign) + 1)
    OBVIOUS
  <1>5. a \in Activation /\ a.at = "enter" /\ a.fault = Len(benign) + 1
    BY <1>2, <1>4 DEF Life!Act, Activation, Body
  <1>6. PICK s : s = Append(q, a)
    OBVIOUS
  <1>7. n \in Nat /\ q \in Seq(Activation)
    BY <1>3 DEF LifeInv, Kinds
  <1>8. /\ s \in Seq(Activation) /\ Len(s) = n + 1 /\ s[n + 1] = a
        /\ \A i \in 1..n : s[i] = q[i]
    BY <1>3, <1>5, <1>6, <1>7, Pushes
  <1>9. stack' = [stack EXCEPT ![t] = s]
    BY <1>3, <1>4, <1>6 DEF Life!Raise
  <1>10. Fine(s, n + 1)'
    BY <1>2, <1>5, <1>8 DEF Fine, Body, Report, Line, Client
  <1>11. /\ n <= Len(s) /\ n \in {n - 1, n} /\ ~(n < n)
         /\ \A i \in 1..n : s[i] = stack[t][i]
         /\ \A i \in (n + 1)..Len(s) : i = n + 1
    BY <1>3, <1>7, <1>8
  <1>12. Sound(s, n, stack[t][n], n < n)
    BY <1>5, <1>8, <1>10, <1>11 DEF Sound
  <1>13. Keeps(stack[t][n], n < n, n < Len(s) /\ s[n + 1].at \in Report)
    BY <1>1, <1>2, <1>11 DEF Keeps, LifeInv, Kinds
  <1>14. Kinds' /\ AllFine' /\ OneBody' /\ Latched'
    BY <1>3, <1>7, <1>8, <1>9, <1>11, <1>12, <1>13, StackStep
  <1>15. Life!DurableInTime'
    BY <1>1, Settles
  <1> QED BY <1>1, <1>14, <1>15 DEF LifeInv, Life!QuitWasPosted

\* A report begins and takes the latch.
LEMMA EnterStep ==
    ASSUME LifeInv, NEW t \in Life!Thread, Life!Enter(t) PROVE LifeInv'
  <1>1. /\ ~Life!Idle(t) /\ Life!Top(t).at = "enter" /\ ended.how = "no" /\ inFilter' = TRUE
        /\ UNCHANGED <<cache, ended, quit, posted, benign>>
        /\ reported' = reported \ {Life!Top(t).fault}
        /\ lastChance' = (lastChance \/ Life!Top(t).last)
    BY DEF Life!Enter, Life!At, Life!log, Life!console, Life!rest
  <1>2. PICK a \in Activation : /\ a.at = "log" /\ a.fault = Life!Top(t).fault
                                /\ a.last = Life!Top(t).last /\ stack' = Life!Becomes(t, a)
    BY <1>1, Going DEF Life!Enter, LifeInv, Body
  <1>3. /\ a.at \in Body /\ Life!Top(t).at \in Body /\ a.at \in Report
        /\ a.fault \notin reported' /\ (a.last => lastChance')
    BY <1>1, <1>2 DEF Body, Report
  <1>4. Len(benign) \in Nat /\ Len(benign) >= Len(benign)
    BY DEF LifeInv, Kinds
  <1>5. Keeps(Life!Top(t), TRUE, a.at \in Report)
    <2>1. lastChance' \in BOOLEAN /\ (lastChance => lastChance')
      BY <1>1
    <2> QED BY <1>1, <1>3, <1>4, <2>1 DEF Keeps, LifeInv, Kinds
  <1>6. Kinds' /\ AllFine' /\ OneBody' /\ Latched'
    BY <1>1, <1>2, <1>3, <1>5, ReportGoesOn
  <1>7. Life!DurableInTime'
    BY <1>1, Settles
  <1> QED BY <1>1, <1>6, <1>7 DEF LifeInv, Life!QuitWasPosted

\* A report is skipped.
LEMMA SkipStep ==
    ASSUME LifeInv, NEW t \in Life!Thread, Life!Skip(t) PROVE LifeInv'
  <1>1. /\ ~Life!Idle(t) /\ Life!Top(t).at = "enter" /\ ended.how = "no" /\ Quietly
        /\ UNCHANGED <<cache, reported, ended, quit, posted>>
    BY DEF Life!Skip, Life!At, Quietly, Life!log, Life!crash, Life!console, Life!rest
  <1>2. PICK at \in {"die", "search"} : stack' = Life!Goes(t, at)
    BY DEF Life!Skip
  <1>3. PICK a \in Activation : /\ a.at = at /\ a.fault = Life!Top(t).fault
                                /\ stack' = Life!Becomes(t, a)
    BY <1>1, <1>2, Going DEF LifeInv, Body
  <1>4. Follows(a, Life!Top(t)) /\ a.at # "posted"
    BY <1>1, <1>3 DEF Follows, Body, Report, Line, Client
  <1>5. Kinds' /\ AllFine' /\ OneBody' /\ Latched'
    BY <1>1, <1>3, <1>4, QuietReplace
  <1>6. Life!DurableInTime'
    BY <1>1, Settles
  <1> QED BY <1>1, <1>5, <1>6 DEF LifeInv, Life!QuitWasPosted

\* The parts of a report that leave a line, or none.
LEMMA ReportLine ==
    ASSUME LifeInv, Quietly, NEW t \in Life!Thread, ~Life!Idle(t),
           Life!Top(t).at \in {"log", "dump"},
           NEW at \in {"dump", "leave", "flush"},
           \/ Life!Emit(t, Life!Goes(t, at), Life!Top(t).fault)
           \/ stack' = Life!Goes(t, at)
    PROVE  Kinds' /\ AllFine' /\ OneBody' /\ Latched'
  <1>1. PICK a \in Activation : /\ a.at = at /\ a.fault = Life!Top(t).fault
                                /\ a.last = Life!Top(t).last
                                /\ Life!Goes(t, at) = Life!Becomes(t, a)
    BY Going DEF LifeInv, Body
  <1>2. Follows(a, Life!Top(t)) /\ a.at # "posted"
    BY <1>1 DEF Follows, Body, Report, Line, Client
  <1>3. CASE Life!Emit(t, Life!Goes(t, at), Life!Top(t).fault)
    <2>1. Life!Emit(t, Life!Becomes(t, a), a.fault)
      BY <1>1, <1>3
    <2> QED BY <1>1, <1>2, <2>1, EmitOn
  <1>4. CASE stack' = Life!Goes(t, at)
    BY <1>1, <1>2, <1>4, QuietReplace
  <1> QED BY <1>3, <1>4

\* A report goes on with its lines and its dump.
LEMMA LogStep ==
    ASSUME LifeInv, NEW t \in Life!Thread,
           Life!LogException(t) \/ Life!LogBenign(t) \/ Life!WriteMinidump(t)
    PROVE  LifeInv'
  <1>1. /\ ~Life!Idle(t) /\ Life!Top(t).at \in {"log", "dump"} /\ ended.how = "no" /\ Quietly
        /\ UNCHANGED <<cache, reported, ended, quit, posted>>
    BY DEF Life!LogException, Life!LogBenign, Life!WriteMinidump, Life!Note, Life!At, Quietly,
           Life!crash, Life!console, Life!rest
  <1>2. PICK at \in {"dump", "leave", "flush"} :
           \/ Life!Emit(t, Life!Goes(t, at), Life!Top(t).fault)
           \/ stack' = Life!Goes(t, at)
    BY DEF Life!LogException, Life!LogBenign, Life!WriteMinidump, Life!Note
  <1>3. Kinds' /\ AllFine' /\ OneBody' /\ Latched'
    BY <1>1, <1>2, ReportLine
  <1>4. Life!DurableInTime'
    BY <1>1, Settles
  <1> QED BY <1>1, <1>3, <1>4 DEF LifeInv, Life!QuitWasPosted

\* A report ends, which leaves the latch to last-chance reports.
LEMMA ReportEnds ==
    ASSUME LifeInv, NEW t \in Life!Thread, Life!FlushReport(t) \/ Life!Leave(t) PROVE LifeInv'
  <1>1. /\ ~Life!Idle(t) /\ Life!Top(t).at \in {"flush", "leave"} /\ ended.how = "no"
        /\ UNCHANGED <<ended, quit, posted, benign, lastChance>>
        /\ inFilter' = Life!Top(t).last
        /\ cache' = {} \/ UNCHANGED <<cache, reported>>
        /\ reported \subseteq reported' /\ reported' \subseteq reported \cup {Life!Top(t).fault}
    BY DEF Life!FlushReport, Life!Leave, Life!AfterReport, Life!At,
           Life!log, Life!console, Life!rest
  <1>2. PICK at \in {"die", "search"} : stack' = Life!Goes(t, at)
    BY DEF Life!FlushReport, Life!Leave, Life!AfterReport
  <1>3. PICK a \in Activation : /\ a.at = at /\ a.fault = Life!Top(t).fault
                                /\ stack' = Life!Becomes(t, a)
    BY <1>1, <1>2, Going DEF LifeInv, Body
  <1>4. a.at \in Body /\ Life!Top(t).at \in Body /\ a.at \notin Report /\ Life!Top(t).at \in Report
    BY <1>1, <1>3 DEF Body, Report
  <1>5. Life!Top(t) \in Activation
    BY <1>1, TopShape DEF LifeInv
  <1>6. Life!Top(t).fault \in 1..Len(benign) /\ (Life!Top(t).last => lastChance)
    BY <1>1, <1>4, TopFine
  <1>7. Keeps(Life!Top(t), TRUE, a.at \in Report)
    BY <1>1, <1>4, <1>5, <1>6 DEF Keeps, LifeInv, Kinds, Activation
  <1>8. Kinds' /\ AllFine' /\ OneBody' /\ Latched'
    BY <1>1, <1>3, <1>4, <1>7, ReportGoesOn
  <1>9. Life!DurableInTime'
    BY <1>1, Settles
  <1> QED BY <1>1, <1>8, <1>9 DEF LifeInv, Life!QuitWasPosted

\* The game handles its exception.
LEMMA HandledStep ==
    ASSUME LifeInv, NEW t \in Life!Thread, Life!Handled(t) PROVE LifeInv'
  <1>1. /\ ~Life!Idle(t) /\ Life!Top(t).at = "search" /\ ended.how = "no" /\ Quietly
        /\ UNCHANGED <<cache, reported, ended, quit, posted>> /\ stack' = Life!Popped(t)
    BY DEF Life!Handled, Life!At, Quietly, Life!log, Life!crash, Life!console, Life!rest
  <1>2. Life!Top(t).at \notin Report
    BY <1>1 DEF Report
  <1>3. Kinds' /\ AllFine' /\ OneBody' /\ Latched'
    BY <1>1, <1>2, QuietPop
  <1>4. Life!DurableInTime'
    BY <1>1, Settles
  <1> QED BY <1>1, <1>3, <1>4 DEF LifeInv, Life!QuitWasPosted

\* Nobody does.
LEMMA UnhandledStep ==
    ASSUME LifeInv, NEW t \in Life!Thread, Life!Unhandled(t) PROVE LifeInv'
  <1>1. /\ ~Life!Idle(t) /\ Life!Top(t).at = "search" /\ ended.how = "no" /\ Quietly
        /\ UNCHANGED <<cache, reported, ended, quit, posted>>
    BY DEF Life!Unhandled, Life!At, Quietly, Life!log, Life!crash, Life!console, Life!rest
  <1>2. PICK a \in Activation : /\ a.at \in {"enter", "die"} /\ a.fault = Life!Top(t).fault
                                /\ stack' = Life!Becomes(t, a)
    <2>1. CASE stack' = Life!Becomes(t, [Life!Act("enter", Life!Top(t).fault) EXCEPT !.last = TRUE])
      <3>1. PICK a : a = [Life!Act("enter", Life!Top(t).fault) EXCEPT !.last = TRUE]
        OBVIOUS
      <3>2. Life!Top(t) \in Activation
        BY <1>1, TopShape DEF LifeInv
      <3>3. a \in Activation /\ a.at = "enter" /\ a.fault = Life!Top(t).fault
        BY <3>1, <3>2 DEF Life!Act, Activation, Body
      <3> QED BY <2>1, <3>1, <3>3
    <2>2. CASE stack' = Life!Goes(t, "die")
      BY <1>1, <2>2, Going DEF LifeInv, Body
    <2> QED BY <2>1, <2>2 DEF Life!Unhandled
  <1>3. Follows(a, Life!Top(t)) /\ a.at # "posted"
    BY <1>1, <1>2 DEF Follows, Body, Report, Line, Client
  <1>4. Kinds' /\ AllFine' /\ OneBody' /\ Latched'
    BY <1>1, <1>2, <1>3, QuietReplace
  <1>5. Life!DurableInTime'
    BY <1>1, Settles
  <1> QED BY <1>1, <1>4, <1>5 DEF LifeInv, Life!QuitWasPosted

\* The process ends, or a call that was to end it returns.
LEMMA EndStep ==
    ASSUME LifeInv, NEW t \in Life!Thread,
           Life!Die(t) \/ Life!CtrlOther(t) \/ Life!RealExit(t) \/ Life!CtrlRefused(t)
    PROVE  LifeInv'
  <1>1. Quietly /\ UNCHANGED <<quit, posted>>
    BY DEF Life!Die, Life!CtrlOther, Life!RealExit, Life!CtrlRefused, Quietly,
           Life!crash, Life!console
  <1>2. /\ stack' = stack \/ stack' = Life!Popped(t)
        /\ ~Life!Idle(t)
        /\ stack' = Life!Popped(t) => stack' = stack \/ Life!Top(t).at \notin Report
    BY DEF Life!Die, Life!CtrlOther, Life!RealExit, Life!CtrlRefused, Life!At, Report
  <1>3. Kinds' /\ AllFine' /\ OneBody' /\ Latched'
    BY <1>1, <1>2, QuietStay, QuietPop
  <1>4. \/ cache' = {}
        \/ cache' = cache /\ reported' = reported /\ ended'.how \notin {"exit", "ctrl"}
    BY DEF Life!Die, Life!CtrlOther, Life!RealExit, Life!CtrlRefused, Life!log, Life!crash
  <1>5. Life!DurableInTime'
    BY <1>4, Settles
  <1> QED BY <1>1, <1>3, <1>5 DEF LifeInv, Life!QuitWasPosted

\* A console event.
LEMMA CtrlEventStep ==
    ASSUME LifeInv, NEW c \in Life!Thread, Life!CtrlEvent(c) PROVE LifeInv'
  <1>1. /\ ended.how = "no" /\ Quietly /\ stack[c] = <<>>
        /\ UNCHANGED <<cache, reported, ended, quit, posted>>
    BY DEF Life!CtrlEvent, Life!Idle, Quietly, Life!log, Life!crash, Life!console
  <1>2. PICK a : a = Life!Act("ctrl", 0)
    OBVIOUS
  <1>3. a \in Activation /\ Plain(a)
    BY <1>2 DEF Life!Act, Activation, Plain, Client
  <1>4. <<a>> = Append(stack[c], a)
    BY <1>1
  <1>5. stack' = [stack EXCEPT ![c] = Append(@, a)]
    BY <1>2, <1>4 DEF Life!CtrlEvent
  <1>6. Kinds' /\ AllFine' /\ OneBody' /\ Latched'
    BY <1>1, <1>3, <1>5, QuietPush
  <1>7. Life!DurableInTime'
    BY <1>1, Settles
  <1> QED BY <1>1, <1>6, <1>7 DEF LifeInv, Life!QuitWasPosted

\* A handled event.
LEMMA CtrlHandled ==
    ASSUME LifeInv, NEW c \in Life!Thread, Life!CtrlAgain(c) \/ Life!CtrlPosted(c) PROVE LifeInv'
  <1>1. /\ ~Life!Idle(c) /\ Life!Top(c).at \in Client /\ ended.how = "no" /\ Quietly
        /\ Life!Emit(c, Life!Popped(c), 0)
        /\ UNCHANGED <<cache, reported, ended, posted>>
    BY DEF Life!CtrlAgain, Life!CtrlPosted, Life!At, Quietly,
           Life!crash, Life!console, Life!rest, Client
  <1>2. Kinds' /\ AllFine' /\ OneBody' /\ Latched'
    BY <1>1, EmitLeaving
  <1>3. Life!QuitWasPosted'
    <2>1. CASE Life!CtrlAgain(c)
      BY <2>1 DEF Life!CtrlAgain, Life!console, LifeInv, Life!QuitWasPosted
    <2>2. CASE Life!CtrlPosted(c)
      <3>1. posted
        BY <1>1, <2>2, TopFine DEF Life!CtrlPosted, Life!At
      <3> QED BY <1>1, <3>1 DEF Life!QuitWasPosted
    <2> QED BY <2>1, <2>2
  <1>4. Life!DurableInTime'
    BY <1>1, Settles
  <1> QED BY <1>2, <1>3, <1>4 DEF LifeInv

\* An event that finds no request.
LEMMA CtrlFirstStep ==
    ASSUME LifeInv, NEW c \in Life!Thread, Life!CtrlFirst(c) PROVE LifeInv'
  <1>1. /\ ~Life!Idle(c) /\ Life!Top(c).at = "ctrl" /\ ended.how = "no" /\ Quietly
        /\ stack' = Life!Goes(c, "post")
        /\ UNCHANGED <<cache, reported, ended, quit, posted>>
    BY DEF Life!CtrlFirst, Life!At, Quietly, Life!log, Life!crash, Life!console, Life!rest
  <1>2. Life!Top(c).fault = 0
    BY <1>1, TopFine DEF Client
  <1>3. PICK a \in Activation : /\ a.at = "post" /\ a.fault = Life!Top(c).fault
                                /\ stack' = Life!Becomes(c, a)
    BY <1>1, Going DEF LifeInv, Client
  <1>4. Follows(a, Life!Top(c))
    BY <1>1, <1>2, <1>3 DEF Follows, Body, Report, Line, Client
  <1>5. Kinds' /\ AllFine' /\ OneBody' /\ Latched'
    BY <1>1, <1>3, <1>4, QuietReplace
  <1>6. Life!DurableInTime'
    BY <1>1, Settles
  <1> QED BY <1>1, <1>5, <1>6 DEF LifeInv, Life!QuitWasPosted

\* It posts WM_CLOSE, or cannot.
LEMMA CtrlPostStep ==
    ASSUME LifeInv, NEW c \in Life!Thread, Life!CtrlPost(c) PROVE LifeInv'
  <1>1. /\ ~Life!Idle(c) /\ Life!Top(c).at = "post" /\ ended.how = "no" /\ Quietly
        /\ UNCHANGED <<cache, reported, ended>> /\ quit' = quit /\ (posted => posted')
    BY DEF Life!CtrlPost, Life!At, Quietly, Life!crash, Life!rest
  <1>2. Life!Top(c).fault = 0
    BY <1>1, TopFine DEF Client
  <1>3. Kinds' /\ AllFine' /\ OneBody' /\ Latched'
    <2>1. CASE stack' = Life!Goes(c, "posted") /\ posted'
      <3>1. PICK a \in Activation : /\ a.at = "posted" /\ a.fault = Life!Top(c).fault
                                    /\ stack' = Life!Becomes(c, a)
        BY <1>1, <2>1, Going DEF LifeInv, Client
      <3>2. Follows(a, Life!Top(c))
        BY <1>1, <1>2, <3>1 DEF Follows, Body, Report, Line, Client
      <3> QED BY <1>1, <2>1, <3>1, <3>2, QuietReplace
    <2>2. CASE Life!Emit(c, Life!Goes(c, "refuse"), 0)
      <3>1. PICK a \in Activation : /\ a.at = "refuse" /\ a.fault = Life!Top(c).fault
                                    /\ Life!Goes(c, "refuse") = Life!Becomes(c, a)
        BY <1>1, Going DEF LifeInv, Client
      <3>2. Follows(a, Life!Top(c)) /\ a.fault = 0
        BY <1>1, <1>2, <3>1 DEF Follows, Body, Report, Line, Client
      <3>3. Life!Emit(c, Life!Becomes(c, a), a.fault)
        BY <2>2, <3>1, <3>2
      <3> QED BY <1>1, <3>1, <3>2, <3>3, EmitOn
    <2> QED BY <2>1, <2>2 DEF Life!CtrlPost
  <1>4. Life!DurableInTime'
    BY <1>1, Settles
  <1> QED BY <1>1, <1>3, <1>4 DEF LifeInv, Life!QuitWasPosted

\* Every step keeps the invariant.
LEMMA LifeStep == LifeInv /\ [Life!Next]_(Life!vars) => LifeInv'
  <1> SUFFICES ASSUME LifeInv, [Life!Next]_(Life!vars) PROVE LifeInv'
    OBVIOUS
  <1>1. CASE UNCHANGED Life!vars
    <2>1. /\ Quietly /\ stack' = stack
          /\ UNCHANGED <<cache, reported, ended, quit, posted>>
      BY <1>1 DEF Life!vars, Quietly, Life!log, Life!crash, Life!console, Life!rest
    <2>2. Kinds' /\ AllFine' /\ OneBody' /\ Latched'
      BY <2>1, QuietStay
    <2> QED BY <2>1, <2>2 DEF LifeInv, Life!DurableInTime, Life!QuitWasPosted
  <1>2. ASSUME NEW t \in Life!Thread, Life!Step(t) \/ Life!Raise(t) PROVE LifeInv'
    BY <1>2, LockStep, WriteLineStep, EnterStep, SkipStep, LogStep, ReportEnds, HandledStep,
       UnhandledStep, EndStep, CtrlHandled, CtrlFirstStep, CtrlPostStep,
       RaiseStep DEF Life!Step
  <1>3. ASSUME NEW t \in Game, Life!HookLine(t) \/ Life!CreateThread(t) \/ Life!ExitCalled(t)
        PROVE  LifeInv'
    <2>1. t \in Life!Thread
      BY DEF Life!Thread
    <2> QED BY <1>3, <2>1, HookStep, ExitCalledStep
  <1>4. ASSUME NEW c \in Console, Life!CtrlEvent(c) PROVE LifeInv'
    <2>1. c \in Life!Thread
      BY DEF Life!Thread
    <2> QED BY <1>4, <2>1, CtrlEventStep
  <1> QED BY <1>1, <1>2, <1>3, <1>4 DEF Life!Next

\* The invariant holds throughout.
LEMMA LifeHolds == Life!Spec => []LifeInv
  <1>1. Life!Init => LifeInv
    BY LifeInit
  <1>2. LifeInv /\ [Life!Next]_(Life!vars) => LifeInv'
    BY LifeStep
  <1> QED BY <1>1, <1>2, PTL DEF Life!Spec

\* A first-chance report that is over holds the latch no more (crash.rs,
\* handle_exception), for any threads, lines, faults and console events.
THEOREM LatchIsReleased == Life!Spec => []LatchIsHeld
  <1>1. LifeInv => LatchIsHeld
    <2> SUFFICES ASSUME LifeInv, inFilter, ~lastChance
                 PROVE  \E t \in Thread : \E i \in DOMAIN stack[t] :
                            stack[t][i].at \in {"log", "dump", "flush", "leave"}
      BY DEF LatchIsHeld
    <2>0. PICK t \in Life!Thread : \E i \in 1..Len(stack[t]) : stack[t][i].at \in Report
      BY DEF LifeInv, Latched
    <2>1. PICK i \in 1..Len(stack[t]) : stack[t][i].at \in Report
      BY <2>0
    <2>2. i \in DOMAIN stack[t]
      <3>1. stack[t] \in Seq(Activation)
        BY DEF LifeInv, Kinds
      <3> QED BY <3>1
    <2>3. Thread = Life!Thread
      BY DEF Thread, Life!Thread
    <2> QED BY <2>1, <2>2, <2>3 DEF Report
  <1> QED BY <1>1, LifeHolds, PTL

\* What was logged about an exception is on disk when its report is complete,
\* and what the thread that ends the process logged when it ends (crash.rs,
\* exit_hooks.rs, console.rs).
THEOREM ReportsReachDisk == Life!Spec => []DurableInTime
  <1>1. LifeInv => DurableInTime
    BY DEF LifeInv, DurableInTime, Life!DurableInTime
  <1> QED BY <1>1, LifeHolds, PTL

\* A Ctrl-C is swallowed only after a WM_CLOSE was posted (console.rs, handler).
THEOREM CtrlCIsPassedOn == Life!Spec => []QuitWasPosted
  <1>1. LifeInv => QuitWasPosted
    BY DEF LifeInv, QuitWasPosted, Life!QuitWasPosted
  <1> QED BY <1>1, LifeHolds, PTL
=============================================================================
