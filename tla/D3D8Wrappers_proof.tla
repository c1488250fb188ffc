------------------------- MODULE D3D8Wrappers_proof -------------------------
(***************************************************************************)
(* Theorems about the D3D8 wrapper graph, for every number of devices,     *)
(* resources, D3D9 objects and state blocks.                               *)
(***************************************************************************)
EXTENDS D3D8Wrappers, FiniteSetTheorems, TLAPS

(* A token is a 32-bit word. *)
LEMMA TokenType == \A n \in Nat : Token(n) \in 0..(TokenMod - 1)
  <1> SUFFICES ASSUME NEW n \in Nat PROVE Token(n) \in 0..(TokenMod - 1)
    OBVIOUS
  <1>1. n * TokenSpread \in Nat
    BY NumbersAssumption
  <1> DEFINE m == n * TokenSpread
  <1> HIDE DEF m
  <1>2. m % TokenMod \in 0..(TokenMod - 1)
    BY <1>1, NumbersAssumption DEF m
  <1> QED BY <1>2 DEF Token, m

(* Division with remainder. *)
LEMMA Remainder ==
    ASSUME NEW m \in Nat \ {0}, NEW x \in Nat
    PROVE  x \div m \in Nat /\ x = m * (x \div m) + (x % m) /\ x % m \in 0..(m - 1)
  OBVIOUS

(* What leaves the same remainder is a multiple apart. *)
LEMMA SameRemainder ==
    ASSUME NEW m \in Nat \ {0}, NEW a \in Nat, NEW b \in Nat, a % m = b % m
    PROVE  \E q \in Int : a - b = m * q
  <1> DEFINE q == (a \div m) - (b \div m)
  <1>1. q \in Int
    BY Remainder
  <1>2. a - b = m * (a \div m) - m * (b \div m)
    BY Remainder
  <1>3. a - b = m * q
    BY <1>2, Remainder
  <1> QED BY <1>1, <1>3

(* There is no multiple of m between 0 and m. *)
LEMMA NoneBetween ==
    ASSUME NEW m \in Nat \ {0}, NEW z \in Int, NEW a \in 1..(m - 1), a = m * z
    PROVE  FALSE
  <1>1. CASE z <= 0
    BY <1>1
  <1>2. CASE z >= 1
    BY <1>2
  <1> QED BY <1>1, <1>2

(* Multiplication by a factor that has an inverse is one to one. *)
LEMMA Invertible ==
    ASSUME NEW m \in Nat \ {0}, NEW s \in Nat, NEW k \in Nat, (k * s) % m = 1,
           NEW n \in 0..(m - 1), NEW l \in 0..(m - 1), (n * s) % m = (l * s) % m
    PROVE  n = l
  <1>1. ASSUME NEW x \in 0..(m - 1), NEW y \in 0..(m - 1), y < x,
               (x * s) % m = (y * s) % m
        PROVE  FALSE
    <2>1. x * s \in Nat /\ y * s \in Nat /\ k * s \in Nat
      OBVIOUS
    <2>2. PICK p \in Nat : k * s = m * p + 1
      BY <2>1, Remainder
    <2>3. PICK q \in Int : x * s - y * s = m * q
      BY <1>1, <2>1, SameRemainder
    <2> DEFINE a == x - y
    <2>4. a \in 1..(m - 1) /\ a * s = m * q
      <3>1. a * s = x * s - y * s
        BY <1>1
      <3> QED BY <1>1, <2>3, <3>1
    <2> HIDE DEF a
    <2>5. a * (k * s) = k * (a * s)
      BY <2>4
    <2>6. a * (k * s) = m * (a * p) + a
      BY <2>2, <2>4
    <2>7. k * (a * s) = m * (k * q)
      BY <2>4
    <2>8. a = m * (k * q) - m * (a * p)
      BY <2>4, <2>5, <2>6, <2>7
    <2>9. m * (k * q) - m * (a * p) = m * (k * q - a * p)
      BY <2>4
    <2> QED BY <2>4, <2>8, <2>9, NoneBetween
  <1> QED BY <1>1

(* Until the sequence wraps, each of its elements has a token of its own. *)
LEMMA TokensDiffer ==
    \A n, l \in 0..(TokenMod - 1) : Token(n) = Token(l) => n = l
  <1> SUFFICES ASSUME NEW n \in 0..(TokenMod - 1), NEW l \in 0..(TokenMod - 1),
                      Token(n) = Token(l)
               PROVE  n = l
    OBVIOUS
  <1>1. PICK k \in Nat : (k * TokenSpread) % TokenMod = 1
    BY SpreadAssumption, NumbersAssumption
  <1>2. (n * TokenSpread) % TokenMod = (l * TokenSpread) % TokenMod
    BY DEF Token
  <1> QED BY <1>1, <1>2, NumbersAssumption, Invertible

(* Counting one reference up keeps a count a count. *)
LEMMA CountUp ==
    ASSUME NEW S, NEW f \in [S -> Int], NEW o
    PROVE  [f EXCEPT ![o] = @ + 1] \in [S -> Int]
  <1>1. CASE o \in S
    <2>1. f[o] + 1 \in Int
      BY <1>1
    <2> QED BY <2>1
  <1>2. CASE o \notin S
    <2>1. [f EXCEPT ![o] = @ + 1] = f
      BY <1>2
    <2> QED BY <2>1
  <1> QED BY <1>1, <1>2

(* What Capture leaves in the nodes: both halves of the pair, or nothing.   *)
LEMMA CaptureEffect ==
    ASSUME TypeOK, NEW ok \in BOOLEAN, CaptureReturns(ok)
    PROVE  \A s \in Sb :
              \/ blk'[s] = blk[s]
              \/ /\ s \in FindBlock(call.node.dev, call.node.token)
                 /\ blk'[s] = [blk[s] EXCEPT !.indices = shadow[call.node.dev],
                                             !.ib9 = bound9[call.node.dev]]
  <1> TAKE s \in Sb
  <1>1. blk[s] \in Node
    BY DEF TypeOK
  <1>2. [[blk[s] EXCEPT !.ib9 = bound9[call.node.dev]]
            EXCEPT !.indices = shadow[call.node.dev]]
        = [blk[s] EXCEPT !.indices = shadow[call.node.dev],
                         !.ib9 = bound9[call.node.dev]]
    BY <1>1 DEF Node
  <1> QED BY <1>2 DEF CaptureReturns, Follows, Indexed9

(* The initial state is well typed. *)
LEMMA TypeInit == Init => TypeOK
    BY NamesAssumption, EmbeddedAssumption, NumbersAssumption
       DEF Init, TypeOK, Count, Wrapper, NoNode, NoCall, Node, Unbound,
           IndicesBinding, Kinds, BlockType, Idle

(* Every method stores values of its fields' types only. *)
LEMMA TypeInductive == TypeOK /\ [Next]_vars => TypeOK'
  <1> USE NamesAssumption, EmbeddedAssumption, NumbersAssumption
  <1> SUFFICES ASSUME TypeOK, [Next]_vars PROVE TypeOK'
    OBVIOUS
  <1> USE DEF TypeOK, Idle
  <1>1. ASSUME NEW d \in Device, CreateDevice(d) PROVE TypeOK'
    BY <1>1 DEF CreateDevice, Count, Wrapper, PlusRef, Live, bindVars, blockVars
  <1>2. ASSUME NEW w \in Wrapper, AddRef(w) PROVE TypeOK'
    BY <1>2 DEF AddRef, Count, Wrapper, PlusRef, Live, bindVars, blockVars
  <1>3. ASSUME NEW w \in Wrapper, GetOwner(w) PROVE TypeOK'
    <2>1. Owner(w) \in Wrapper
      BY <1>3 DEF GetOwner, Owner, Wrapper
    <2> QED BY <1>3, <2>1 DEF GetOwner, Count, PlusRef, Live, bindVars, blockVars
  <1>4. ASSUME NEW w \in Wrapper, Release(w) PROVE TypeOK'
    <2>1. refs' \in [Wrapper -> Count]
      BY <1>4 DEF Release, Count
    <2>2. held' \in [Wrapper -> Nat]
      BY <1>4 DEF Release, Live, Count
    <2>3. ref9' \in [Obj9 \cup Device \cup {Iface} \cup Sb -> Int]
      <3>1. DOMAIN ref9 = Obj9 \cup Device \cup {Iface} \cup Sb
        OBVIOUS
      <3> QED BY <1>4, <3>1 DEF Release
    <2>4. blk' \in [Sb -> Node]
      BY <1>4 DEF Release, NoNode, Node, Unbound, IndicesBinding, BlockType
    <2> QED BY <1>4, <2>1, <2>2, <2>3, <2>4 DEF Release, bindVars
  <1>5. ASSUME NEW d \in Device, NEW r \in Res, NEW k \in Kinds,
               CreateResource(d, r, k)
        PROVE TypeOK'
    BY <1>5 DEF CreateResource, Wrap, Count, Wrapper, PlusRef, Live, bindVars,
                blockVars
  <1>6. ASSUME NEW t \in Res, NEW r \in Res, GetSurfaceLevel(t, r) PROVE TypeOK'
    <2>1. dev[t] \in Device /\ Wrap(r, dev[t], inner[t], "other")
      BY <1>6 DEF GetSurfaceLevel
    <2>2. refs' \in [Wrapper -> Count]
      BY <2>1 DEF Wrap, Count, Wrapper, PlusRef
    <2>3. held' \in [Wrapper -> Nat]
      BY <2>1 DEF Wrap, Wrapper
    <2>4. /\ inner' \in [Res -> Obj9 \cup {Null}]
          /\ dev' \in [Res -> Device \cup {Null}]
      BY <2>1 DEF Wrap
    <2>5. kind' \in [Res -> Kinds]
      BY <2>1 DEF Wrap, Kinds
    <2>6. ref9' \in [Obj9 \cup Device \cup {Iface} \cup Sb -> Int]
      BY <2>1, CountUp DEF Wrap
    <2> QED
      BY <1>6, <2>2, <2>3, <2>4, <2>5, <2>6
         DEF GetSurfaceLevel, bindVars, blockVars
  <1>7. ASSUME NEW d \in Device, GetBackBuffer(d) PROVE TypeOK'
    BY <1>7 DEF GetBackBuffer, AdoptDead, AdoptSame, AdoptDivergent, Count,
                Wrapper, PlusRef, Live, bindVars, blockVars
  <1>8. ASSUME NEW d \in Device, GetIndices(d) PROVE TypeOK'
    <2>1. shadow[d].ib \in Wrapper
      BY <1>8 DEF GetIndices, IndicesBinding, Wrapper
    <2> QED BY <1>8, <2>1 DEF GetIndices, Count, PlusRef, Live, bindVars, blockVars
  <1>9. ASSUME NEW d \in Device, NEW ib \in Res \cup {Null}, NEW b \in Base,
               SetIndices(d, ib, b)
        PROVE TypeOK'
    BY <1>9 DEF SetIndices, IndicesBinding, gameVars, blockVars
  <1>10. ASSUME NEW d \in Device, NEW left9 \in {Null, bound9[d]}, Reset(d, left9)
         PROVE TypeOK'
    <2>1. bb9' \in [Device -> Obj9 \cup {Null}]
      BY <1>10 DEF Reset
    <2>2. bound9' \in [Device -> Obj9 \cup {Null}]
      BY <1>10 DEF Reset
    <2>3. Unbound \in IndicesBinding
      BY DEF IndicesBinding, Unbound
    <2>4. shadow' \in [Device -> IndicesBinding]
      BY <1>10, <2>3 DEF Reset
    <2>5. drifted' \in SUBSET Device
      BY <1>10 DEF Reset
    <2> QED BY <1>10, <2>1, <2>2, <2>4, <2>5 DEF Reset, gameVars, blockVars
  <1>11. ASSUME NEW d \in Device, NEW s \in Sb, NEW ty \in BlockType,
                CreateStateBlock(d, s, ty)
         PROVE TypeOK'
    <2>1. PICK n \in 1..MaxSeq :
            /\ seq' = n + 1
            /\ blk' = [blk EXCEPT ![s] =
                         [dev |-> d, token |-> Token(n), ty |-> ty,
                          indices |-> shadow[d], ib9 |-> bound9[d]]]
      BY <1>11 DEF CreateStateBlock
    <2>2. n \in Nat /\ Token(n) \in 0..(TokenMod - 1)
      BY <2>1, TokenType
    <2>3. blk' \in [Sb -> Node]
      BY <2>1, <2>2 DEF Node
    <2> QED BY <1>11, <2>1, <2>2, <2>3 DEF CreateStateBlock, gameVars, bindVars
  <1>12. ASSUME NEW d \in Device, NEW t \in 1..(TokenMod - 1),
                DeleteStateBlock(d, t)
         PROVE TypeOK'
    BY <1>12 DEF DeleteStateBlock, FindBlock, LiveBlocks, NoNode, Node, Unbound,
                 IndicesBinding, BlockType, gameVars, bindVars
  <1>13. ASSUME NEW d \in Device, NEW t \in 1..(TokenMod - 1),
                NEW op \in {"apply", "capture"}, EnterD3D9(op, d, t)
         PROVE TypeOK'
    BY <1>13 DEF EnterD3D9, FindBlock, LiveBlocks, gameVars, bindVars
  <1>14. ASSUME NEW ok \in BOOLEAN, ApplyReturns(ok) PROVE TypeOK'
    <2>1. call.node \in Node
      OBVIOUS
    <2>2. bound9' \in [Device -> Obj9 \cup {Null}]
      BY <1>14, <2>1 DEF ApplyReturns, Node
    <2>3. shadow' \in [Device -> IndicesBinding]
      BY <1>14, <2>1 DEF ApplyReturns, Node
    <2>4. call' \in [op : {"none", "apply", "capture"}, node : Node]
      BY <1>14 DEF ApplyReturns, NoCall, NoNode, Node, Unbound,
                   IndicesBinding, BlockType
    <2>5. Idle'
      BY <1>14 DEF ApplyReturns, NoCall
    <2> QED BY <1>14, <2>2, <2>3, <2>4, <2>5 DEF ApplyReturns, gameVars
  <1>15. ASSUME NEW ok \in BOOLEAN, CaptureReturns(ok) PROVE TypeOK'
    <2>1. call' \in [op : {"none", "apply", "capture"}, node : Node]
      <3>1. call' = NoCall
        BY <1>15 DEF CaptureReturns
      <3>2. NoNode \in Node
        BY DEF NoNode, Node, Unbound, IndicesBinding, BlockType
      <3> QED BY <3>1, <3>2 DEF NoCall
    <2> DEFINE d == call.node.dev
               taken(s) == [blk[s] EXCEPT !.indices = shadow[d], !.ib9 = bound9[d]]
    <2>2. blk' \in [Sb -> Node]
      <3>1. ASSUME NEW s \in FindBlock(d, call.node.token) \cap Sb PROVE taken(s) \in Node
        <4>1. blk[s] \in Node /\ blk[s].dev = d /\ call.node \in Node
          BY DEF FindBlock, LiveBlocks
        <4>2. d \in Device
          BY <1>15 DEF CaptureReturns, Idle
        <4>3. shadow[d] \in IndicesBinding /\ bound9[d] \in Obj9 \cup {Null}
          BY <4>2
        <4> QED BY <4>1, <4>3 DEF Node
      <3>2. ASSUME NEW s \in Sb PROVE blk'[s] \in Node
        <4>1. blk'[s] = blk[s] \/ (s \in FindBlock(d, call.node.token) /\ blk'[s] = taken(s))
          BY <1>15, CaptureEffect
        <4>2. blk[s] \in Node
          OBVIOUS
        <4> HIDE DEF taken
        <4> QED BY <3>1, <4>1, <4>2
      <3> QED BY <1>15, <3>2 DEF CaptureReturns
    <2>3. Idle'
      BY <1>15 DEF CaptureReturns, NoCall
    <2> QED BY <1>15, <2>1, <2>2, <2>3 DEF CaptureReturns, gameVars, bindVars
  <1>16. CASE UNCHANGED vars
    BY <1>16 DEF vars
  <1> HIDE DEF TypeOK, Idle
  <1> QED
    BY <1>1, <1>2, <1>3, <1>4, <1>5, <1>6, <1>7, <1>8, <1>9, <1>10, <1>11,
       <1>12, <1>13, <1>14, <1>15, <1>16 DEF Next

(* Every reachable state is well typed: in particular no count leaves its   *)
(* 32-bit field, and nothing but the methods' own values is ever stored.    *)
THEOREM TypeCorrect == Spec => []TypeOK
  BY TypeInit, TypeInductive, PTL DEF Spec

-----------------------------------------------------------------------------
(* The accounting of references.  What the counts are is inductive only     *)
(* together with how the wrappers hang together: a live resource wrapper    *)
(* has a device and an object, a device that D3D9 has not created is dead,  *)
(* and an embedded wrapper belongs to its device as soon as that exists.    *)
Attached ==
    /\ \A r \in Res : Live(r) => dev[r] \in Device /\ inner[r] \in Obj9
    /\ \A d \in Device :
          /\ Live(d) => bb9[d] # Null
          /\ dev[Embedded[d]] = IF bb9[d] = Null THEN Null ELSE d

Counted == Attached /\ RefsAccounted /\ OneReferenceEach /\ BlocksDieWithDevice
CountInv == TypeOK /\ Counted

(* The sets that are counted are finite, wherever they are taken.           *)
LEMMA CountedFinite ==
    /\ \A d \in Device : IsFiniteSet(LiveRes(d)) /\ Cardinality(LiveRes(d)) \in Nat
    /\ \A o : IsFiniteSet(Wrapping(o)) /\ Cardinality(Wrapping(o)) \in Nat
    /\ IsFiniteSet(LiveDevices) /\ Cardinality(LiveDevices) \in Nat
  <1>1. ASSUME NEW T, NEW S \in SUBSET T, IsFiniteSet(T)
        PROVE  IsFiniteSet(S) /\ Cardinality(S) \in Nat
    BY <1>1, FS_Subset, FS_CardinalityType
  <1>2. \A d \in Device : LiveRes(d) \in SUBSET Res
    BY DEF LiveRes
  <1>3. \A o : Wrapping(o) \in SUBSET Res
    BY DEF Wrapping
  <1>4. LiveDevices \in SUBSET Device
    BY DEF LiveDevices
  <1> QED BY <1>1, <1>2, <1>3, <1>4, NamesAssumption

(* A count that is not zero keeps its owner's count from being zero.        *)
LEMMA CountedOwners == CountInv => OwnersAlive
  <1> SUFFICES ASSUME CountInv, NEW w \in Wrapper, Live(w), w # Iface
               PROVE  Owner(w) \in Wrapper /\ Live(Owner(w))
    BY DEF OwnersAlive
  <1> USE DEF CountInv, Counted
  <1>1. CASE w \in Res
    <2>1. Owner(w) = dev[w] /\ dev[w] \in Device
      BY <1>1 DEF Owner, Attached
    <2>2. w \in LiveRes(dev[w])
      BY <1>1 DEF LiveRes
    <2>3. Cardinality(LiveRes(dev[w])) # 0
      BY <2>1, <2>2, CountedFinite, FS_EmptySet
    <2>4. refs[dev[w]] = held[dev[w]] + Cardinality(LiveRes(dev[w]))
      BY <2>1 DEF RefsAccounted
    <2>5. held[dev[w]] \in Nat /\ Cardinality(LiveRes(dev[w])) \in Nat
      BY <2>1, CountedFinite DEF TypeOK, Wrapper
    <2> QED BY <2>1, <2>3, <2>4, <2>5 DEF Live, Wrapper
  <1>2. CASE w \in Device
    <2>1. Owner(w) = Iface
      BY <1>2, NamesAssumption DEF Owner
    <2>2. w \in LiveDevices
      BY <1>2 DEF LiveDevices
    <2>3. Cardinality(LiveDevices) # 0
      BY <2>2, CountedFinite, FS_EmptySet
    <2>4. refs[Iface] = held[Iface] + Cardinality(LiveDevices)
      BY DEF RefsAccounted
    <2>5. held[Iface] \in Nat /\ Cardinality(LiveDevices) \in Nat
      BY CountedFinite DEF TypeOK, Wrapper
    <2> QED BY <2>1, <2>3, <2>4, <2>5 DEF Live, Wrapper
  <1> QED BY <1>1, <1>2 DEF Wrapper

(* A step that moves no reference moves no count. *)
LEMMA CountsFrame ==
    ASSUME CountInv, UNCHANGED <<refs, held, inner, dev, ref9, bb9, blk>>
    PROVE  Counted'
  BY DEF CountInv, Counted, Attached, RefsAccounted, OneReferenceEach,
         BlocksDieWithDevice, Live, LiveRes, LiveDevices, Wrapping

(* One more reference to the game on a live wrapper keeps the account.      *)
LEMMA OneMoreHeld ==
    ASSUME CountInv, NEW w \in Wrapper, Live(w),
           refs' = [refs EXCEPT ![w] = @ + 1],
           held' = [held EXCEPT ![w] = @ + 1],
           UNCHANGED <<inner, dev, ref9, bb9, blk>>
    PROVE  Counted'
  <1> USE DEF CountInv, Counted
  <1>1. \A x \in Wrapper : Live(x)' <=> Live(x)
    BY DEF TypeOK, Live, Count
  <1>2. /\ \A d \in Device : LiveRes(d)' = LiveRes(d)
        /\ LiveDevices' = LiveDevices
        /\ \A o : Wrapping(o)' = Wrapping(o)
    BY <1>1 DEF LiveRes, LiveDevices, Wrapping, Wrapper
  <1>3. Attached'
    BY <1>1 DEF Attached, Wrapper
  <1>4. RefsAccounted'
    BY <1>2, CountedFinite, NamesAssumption DEF RefsAccounted, TypeOK, Wrapper, Count
  <1>5. OneReferenceEach'
    BY <1>1, <1>2 DEF OneReferenceEach, Wrapper
  <1>6. BlocksDieWithDevice'
    BY <1>1 DEF BlocksDieWithDevice, Wrapper
  <1> QED BY <1>3, <1>4, <1>5, <1>6

(* A wrapper that comes alive counts once on its device and once on its     *)
(* object.                                                                  *)
LEMMA OneMoreWrapper ==
    ASSUME CountInv, NEW r \in Res, NEW d \in Device, NEW o \in Obj9,
           Live(d), ~Live(r), r = Embedded[d] \/ r \notin EmbeddedRes,
           refs' = [refs EXCEPT ![r] = 1, ![d] = PlusRef(d)],
           held' = [held EXCEPT ![r] = 1],
           inner' = [inner EXCEPT ![r] = o],
           dev' = [dev EXCEPT ![r] = d],
           ref9' = [ref9 EXCEPT ![o] = @ + 1],
           UNCHANGED <<bb9, blk>>
    PROVE  Counted'
  <1> USE NamesAssumption DEF CountInv, Counted
  <1>1. /\ refs'[r] = 1 /\ refs'[d] = refs[d] + 1
        /\ \A w \in Wrapper \ {r, d} : refs'[w] = refs[w]
    BY DEF PlusRef, Live, TypeOK, Wrapper
  <1>2. \A w \in Wrapper : Live(w)' <=> Live(w) \/ w = r
    BY <1>1 DEF Live, TypeOK, Wrapper, Count
  <1>3. /\ LiveRes(d)' = LiveRes(d) \cup {r} /\ r \notin LiveRes(d)
        /\ \A c \in Device : c # d => LiveRes(c)' = LiveRes(c)
    BY <1>2 DEF LiveRes, TypeOK, Wrapper
  <1>4. LiveDevices' = LiveDevices
    BY <1>2 DEF LiveDevices, Wrapper
  <1>5. /\ Wrapping(o)' = Wrapping(o) \cup {r} /\ r \notin Wrapping(o)
        /\ \A x \in Obj9 : x # o => Wrapping(x)' = Wrapping(x)
    BY <1>2 DEF Wrapping, TypeOK, Wrapper
  <1>6. /\ Cardinality(LiveRes(d)') = Cardinality(LiveRes(d)) + 1
        /\ Cardinality(Wrapping(o)') = Cardinality(Wrapping(o)) + 1
    BY <1>3, <1>5, CountedFinite, FS_AddElement
  <1>7. Attached'
    <2>1. \A c \in Device : dev'[Embedded[c]] = IF bb9[c] = Null THEN Null ELSE c
      <3> TAKE c \in Device
      <3>1. CASE r = Embedded[d]
        BY <3>1, EmbeddedAssumption DEF Attached, TypeOK
      <3>2. CASE r \notin EmbeddedRes
        BY <3>2, EmbeddedAssumption DEF Attached, TypeOK, EmbeddedRes
      <3> QED BY <3>1, <3>2
    <2> QED BY <1>2, <2>1 DEF Attached, TypeOK, Wrapper
  <1>8. RefsAccounted'
    <2>1. \A x \in Res : refs'[x] = held'[x]
      BY <1>1 DEF RefsAccounted, TypeOK, Wrapper
    <2>2. \A c \in Device : refs'[c] = held'[c] + Cardinality(LiveRes(c)')
      <3>1. ASSUME NEW c \in Device, c # d
            PROVE  refs'[c] = refs[c] /\ held'[c] = held[c]
        BY <1>1, <3>1 DEF TypeOK, Wrapper
      <3>2. refs'[d] = refs[d] + 1 /\ held'[d] = held[d]
        BY <1>1 DEF TypeOK, Wrapper
      <3>3. held[d] \in Nat /\ Cardinality(LiveRes(d)) \in Nat
        BY CountedFinite DEF TypeOK, Wrapper
      <3>4. \A c \in Device : refs[c] = held[c] + Cardinality(LiveRes(c))
        BY DEF RefsAccounted
      <3>5. refs'[d] = held'[d] + Cardinality(LiveRes(d)')
        BY <1>6, <3>2, <3>3, <3>4
      <3>6. ASSUME NEW c \in Device, c # d
            PROVE  refs'[c] = held'[c] + Cardinality(LiveRes(c)')
        BY <1>3, <3>1, <3>4, <3>6
      <3> QED BY <3>5, <3>6
    <2>3. refs'[Iface] = held'[Iface] + Cardinality(LiveDevices')
      BY <1>1, <1>4 DEF RefsAccounted, TypeOK, Wrapper
    <2> QED BY <2>1, <2>2, <2>3 DEF RefsAccounted
  <1>9. OneReferenceEach'
    <2>1. /\ ref9'[o] = ref9[o] + 1
          /\ \A x \in Obj9 \cup Device \cup {Iface} \cup Sb : x # o => ref9'[x] = ref9[x]
      BY DEF TypeOK
    <2>2. \A x \in Obj9 : ref9'[x] = Cardinality(Wrapping(x)')
      BY <1>5, <1>6, <2>1 DEF OneReferenceEach
    <2>3. \A w \in Device \cup {Iface} : ref9'[w] = IF Live(w)' THEN 1 ELSE 0
      BY <1>2, <2>1 DEF OneReferenceEach, Wrapper
    <2>4. \A s \in Sb : ref9'[s] = IF blk'[s].dev # Null THEN 1 ELSE 0
      BY <2>1 DEF OneReferenceEach
    <2> QED BY <2>2, <2>3, <2>4 DEF OneReferenceEach
  <1>10. BlocksDieWithDevice'
    BY <1>2 DEF BlocksDieWithDevice, Wrapper
  <1> QED BY <1>7, <1>8, <1>9, <1>10

(* A device that comes alive counts once on the interface. *)
LEMMA OneMoreDevice ==
    ASSUME CountInv, NEW d \in Device, CreateDevice(d)
    PROVE  Counted'
  <1> USE NamesAssumption DEF CountInv, Counted
  <1>1. PICK o \in Obj9 : bb9' = [bb9 EXCEPT ![d] = o]
    BY DEF CreateDevice
  <1>2. ~Live(d) /\ Live(Iface) /\ bb9[d] = Null
    BY DEF CreateDevice, Attached
  <1>3. /\ refs'[d] = 1 /\ refs'[Iface] = refs[Iface] + 1
        /\ \A w \in Wrapper \ {d, Iface} : refs'[w] = refs[w]
    BY <1>2 DEF CreateDevice, PlusRef, Live, TypeOK, Wrapper
  <1>4. \A w \in Wrapper : Live(w)' <=> Live(w) \/ w = d
    BY <1>2, <1>3 DEF Live, TypeOK, Wrapper, Count
  <1>5. \A r \in Res : Live(r) => dev'[r] = dev[r]
    <2>1. ~Live(Embedded[d])
      BY <1>2, EmbeddedAssumption DEF Attached, Wrapper
    <2> QED BY <2>1, EmbeddedAssumption DEF CreateDevice, TypeOK
  <1>6. \A c \in Device : LiveRes(c)' = LiveRes(c)
    BY <1>4, <1>5, EmbeddedAssumption, <1>2
       DEF LiveRes, Wrapper, Attached, CreateDevice, TypeOK
  <1>7. \A x : Wrapping(x)' = Wrapping(x)
    BY <1>4 DEF Wrapping, Wrapper, CreateDevice
  <1>8. LiveDevices' = LiveDevices \cup {d} /\ d \notin LiveDevices
    BY <1>4, <1>2 DEF LiveDevices, Wrapper
  <1>9. Cardinality(LiveDevices') = Cardinality(LiveDevices) + 1
    BY <1>8, CountedFinite, FS_AddElement
  <1>10. LiveRes(d) = {}
    BY <1>2, CountedOwners DEF LiveRes, OwnersAlive, Owner, Wrapper
  <1>11. held[d] = 0 /\ refs[d] = 0 /\ Cardinality(LiveRes(d)) = 0
    BY <1>2, <1>10, FS_EmptySet, CountedFinite
       DEF RefsAccounted, TypeOK, Wrapper, Live, Count
  <1>12. Attached'
    <2>1. \A c \in Device : dev'[Embedded[c]] = IF bb9'[c] = Null THEN Null ELSE c
      BY <1>1, EmbeddedAssumption DEF CreateDevice, Attached, TypeOK
    <2>2. \A r \in Res : Live(r)' => dev'[r] \in Device /\ inner'[r] \in Obj9
      BY <1>4, <1>5 DEF CreateDevice, Attached, Wrapper
    <2>3. \A c \in Device : Live(c)' => bb9'[c] # Null
      BY <1>1, <1>4 DEF Attached, Wrapper, TypeOK
    <2> QED BY <2>1, <2>2, <2>3 DEF Attached
  <1>13. RefsAccounted'
    <2>1. \A x \in Res : refs'[x] = held'[x]
      BY <1>3 DEF CreateDevice, RefsAccounted, TypeOK, Wrapper
    <2>2. \A c \in Device : refs'[c] = held'[c] + Cardinality(LiveRes(c)')
      BY <1>3, <1>6, <1>11 DEF CreateDevice, RefsAccounted, TypeOK, Wrapper
    <2>3. refs'[Iface] = held'[Iface] + Cardinality(LiveDevices')
      BY <1>3, <1>9, CountedFinite DEF CreateDevice, RefsAccounted, TypeOK, Wrapper
    <2> QED BY <2>1, <2>2, <2>3 DEF RefsAccounted
  <1>14. OneReferenceEach'
    <2>1. /\ ref9'[d] = 1
          /\ \A x \in Obj9 \cup Device \cup {Iface} \cup Sb : x # d => ref9'[x] = ref9[x]
      BY DEF CreateDevice, TypeOK
    <2>2. \A x \in Obj9 : ref9'[x] = Cardinality(Wrapping(x)')
      BY <1>7, <2>1 DEF OneReferenceEach, Wrapper
    <2>3. \A w \in Device \cup {Iface} : ref9'[w] = IF Live(w)' THEN 1 ELSE 0
      BY <1>4, <2>1 DEF OneReferenceEach, Wrapper
    <2>4. \A s \in Sb : ref9'[s] = IF blk'[s].dev # Null THEN 1 ELSE 0
      BY <2>1 DEF OneReferenceEach, Wrapper, CreateDevice, blockVars
    <2> QED BY <2>2, <2>3, <2>4 DEF OneReferenceEach
  <1>15. BlocksDieWithDevice'
    BY <1>4 DEF BlocksDieWithDevice, Wrapper, CreateDevice, blockVars
  <1> QED BY <1>12, <1>13, <1>14, <1>15

(* Who loses a reference and who dies of it when the game releases the live *)
(* wrapper w: at most one resource, one device and the interface, each only *)
(* when the one below it dies.                                              *)
LEMMA WhoDies ==
    ASSUME CountInv, NEW w \in Wrapper, Live(w)
    PROVE  /\ Losing(w) \in SUBSET Wrapper
           /\ \A x \in Losing(w) : Live(x)
           /\ \A x \in Wrapper : x \in Dying(w) <=> x \in Losing(w) /\ refs[x] = 1
           /\ Losing(w) \cap Res = {w} \cap Res
           /\ \A d \in Device :
                 d \in Losing(w) <=>
                    d = w \/ (w \in Res /\ refs[w] = 1 /\ dev[w] = d)
           /\ Iface \in Losing(w) <=> w = Iface \/ Dying(w) \cap Device # {}
  <1> USE NamesAssumption DEF CountInv, Counted
  <1>1. OwnersAlive
    BY CountedOwners
  <1>2. \A x \in Wrapper : x \in Dying(w) <=> x \in Losing(w) /\ refs[x] = 1
    BY DEF Dying
  <1>3. CASE w = Iface
    <2>1. Owner(w) \notin Wrapper
      BY <1>3 DEF Owner
    <2>2. Losing(w) = {w}
      BY <2>1 DEF Losing
    <2> QED BY <1>2, <1>3, <2>2 DEF Wrapper
  <1>4. CASE w \in Device
    <2>1. Owner(w) = Iface /\ Live(Iface)
      BY <1>1, <1>4 DEF Owner, OwnersAlive, Wrapper
    <2>2. Owner(Iface) \notin Wrapper
      BY DEF Owner
    <2>3. Losing(w) = {w} \cup {x \in {Iface} : refs[w] = 1}
      BY <2>1, <2>2 DEF Losing, Wrapper
    <2> QED BY <1>2, <1>4, <2>1, <2>3 DEF Wrapper
  <1>5. CASE w \in Res
    <2>1. Owner(w) = dev[w] /\ dev[w] \in Device /\ Live(dev[w])
      BY <1>1, <1>5 DEF Owner, OwnersAlive, Wrapper, Attached
    <2>2. Owner(dev[w]) = Iface /\ Live(Iface)
      BY <1>1, <2>1 DEF Owner, OwnersAlive, Wrapper
    <2>3. Losing(w) = {w} \cup {x \in {dev[w]} : refs[w] = 1}
                      \cup {x \in {Iface} : refs[w] = 1 /\ refs[dev[w]] = 1}
      BY <2>1, <2>2 DEF Losing, Wrapper
    <2>4. Dying(w) \cap Device = {x \in {dev[w]} : refs[w] = 1 /\ refs[dev[w]] = 1}
      BY <1>2, <1>5, <2>1, <2>3 DEF Wrapper
    <2> QED BY <1>2, <1>5, <2>1, <2>2, <2>3, <2>4 DEF Wrapper
  <1> QED BY <1>3, <1>4, <1>5 DEF Wrapper

(* Whatever dies of a release, the counts stay the references held.         *)
LEMMA ReleaseCounts ==
    ASSUME CountInv, NEW w \in Wrapper, Release(w), Live(w)
    PROVE  Counted'
  <1> USE NamesAssumption DEF CountInv, Counted
  <1> DEFINE D == Dying(w)
             L == Losing(w)
  <1> HIDE DEF D, L
  <1>1. /\ L \in SUBSET Wrapper
        /\ \A x \in L : Live(x)
        /\ \A x \in Wrapper : x \in D <=> x \in L /\ refs[x] = 1
        /\ L \cap Res = {w} \cap Res
        /\ \A d \in Device :
              d \in L <=> d = w \/ (w \in Res /\ refs[w] = 1 /\ dev[w] = d)
        /\ Iface \in L <=> w = Iface \/ D \cap Device # {}
    BY WhoDies DEF D, L
  <1>2. \A x \in Wrapper :
           /\ refs[x] \in Nat /\ held[x] \in Nat
           /\ refs'[x] = IF x \in L THEN refs[x] - 1 ELSE refs[x]
           /\ held'[x] = IF x = w THEN held[x] - 1 ELSE held[x]
    BY <1>1 DEF Release, Live, TypeOK, Count, L
  <1>3. \A x \in Wrapper : Live(x)' <=> Live(x) /\ x \notin D
    BY <1>1, <1>2 DEF Live
  <1>4. D \in SUBSET Wrapper /\ UNCHANGED <<inner, dev, bb9>>
    BY <1>1 DEF Release, Dying, D, L
  <1>5. \A d \in Device : LiveRes(d)' = LiveRes(d) \ (D \cap Res)
    BY <1>3, <1>4 DEF LiveRes, Wrapper
  <1>6. \A o : Wrapping(o)' = Wrapping(o) \ (D \cap Res)
    BY <1>3, <1>4 DEF Wrapping, Wrapper
  <1>7. LiveDevices' = LiveDevices \ (D \cap Device)
    BY <1>3 DEF LiveDevices, Wrapper
  <1>8. D \cap Res = {x \in {w} : w \in Res /\ refs[w] = 1}
    BY <1>1 DEF Wrapper
  <1>9. Attached'
    BY <1>3, <1>4 DEF Attached, Wrapper
  <1>10. RefsAccounted'
    <2>1. \A x \in Res : refs'[x] = held'[x]
      BY <1>1, <1>2 DEF RefsAccounted, Wrapper
    <2>2. ASSUME NEW d \in Device
          PROVE  refs'[d] = held'[d] + Cardinality(LiveRes(d)')
      <3>1. refs[d] = held[d] + Cardinality(LiveRes(d))
        BY DEF RefsAccounted
      <3>2. Cardinality(LiveRes(d)) \in Nat /\ IsFiniteSet(LiveRes(d))
        BY CountedFinite
      <3>3. CASE w \in Res /\ refs[w] = 1 /\ dev[w] = d
        <4>1. w \in LiveRes(d) /\ LiveRes(d)' = LiveRes(d) \ {w}
          BY <1>5, <1>8, <3>3 DEF LiveRes
        <4>2. Cardinality(LiveRes(d)') = Cardinality(LiveRes(d)) - 1
          BY <3>2, <4>1, FS_RemoveElement
        <4>3. refs'[d] = refs[d] - 1 /\ held'[d] = held[d]
          BY <1>1, <1>2, <3>3 DEF Wrapper
        <4> QED BY <1>2, <3>1, <3>2, <4>2, <4>3 DEF Wrapper
      <3>4. CASE ~(w \in Res /\ refs[w] = 1 /\ dev[w] = d)
        <4>1. LiveRes(d)' = LiveRes(d)
          BY <1>5, <1>8, <3>4 DEF LiveRes
        <4>2. d \in L <=> d = w
          BY <1>1, <3>4
        <4> QED BY <1>2, <3>1, <3>2, <4>1, <4>2 DEF Wrapper
      <3> QED BY <3>3, <3>4
    <2>3. refs'[Iface] = held'[Iface] + Cardinality(LiveDevices')
      <3>1. refs[Iface] = held[Iface] + Cardinality(LiveDevices)
        BY DEF RefsAccounted
      <3>2. Cardinality(LiveDevices) \in Nat /\ IsFiniteSet(LiveDevices)
        BY CountedFinite
      <3>3. CASE D \cap Device = {}
        <4>1. LiveDevices' = LiveDevices
          BY <1>7, <3>3
        <4> QED BY <1>1, <1>2, <3>1, <3>2, <3>3, <4>1 DEF Wrapper
      <3>4. ASSUME NEW d \in D \cap Device
            PROVE  refs'[Iface] = held'[Iface] + Cardinality(LiveDevices')
        <4>1. D \cap Device = {d}
          BY <1>1 DEF Wrapper
        <4>2. d \in LiveDevices
          BY <1>1 DEF LiveDevices, Wrapper
        <4>3. Cardinality(LiveDevices') = Cardinality(LiveDevices) - 1
          BY <1>7, <3>2, <4>1, <4>2, FS_RemoveElement
        <4>4. w # Iface /\ Iface \in L
          BY <1>1, <4>1 DEF Wrapper
        <4> QED BY <1>2, <3>1, <3>2, <4>3, <4>4 DEF Wrapper
      <3> QED BY <3>3, <3>4
    <2> QED BY <2>1, <2>2, <2>3 DEF RefsAccounted
  <1>11. OneReferenceEach'
    <2>1. \A x \in Obj9 \cup Device \cup {Iface} \cup Sb :
             ref9'[x] = IF \/ x \in D
                           \/ \E r \in D \cap Res : inner[r] = x
                           \/ x \in Sb /\ blk[x].dev \in D \cap Device
                        THEN ref9[x] - 1 ELSE ref9[x]
      BY DEF Release, Drained, TypeOK, D
    <2>2. \A r \in D \cap Res : Live(r) /\ inner[r] \in Obj9
      BY <1>1, <1>4 DEF Attached
    <2>3. ASSUME NEW o \in Obj9
          PROVE  ref9'[o] = Cardinality(Wrapping(o)')
      <3>1. ref9[o] = Cardinality(Wrapping(o)) /\ IsFiniteSet(Wrapping(o))
        BY CountedFinite DEF OneReferenceEach
      <3>2. o \notin D /\ o \notin Sb
        BY <1>4
      <3>3. CASE w \in D \cap Res /\ inner[w] = o
        <4>1. w \in Wrapping(o) /\ Wrapping(o)' = Wrapping(o) \ {w}
          BY <1>6, <1>8, <3>3 DEF Wrapping
        <4>2. Cardinality(Wrapping(o)') = Cardinality(Wrapping(o)) - 1
          BY <3>1, <4>1, FS_RemoveElement
        <4>3. ref9'[o] = ref9[o] - 1
          BY <2>1, <3>3
        <4> QED BY <3>1, <4>2, <4>3
      <3>4. CASE ~(w \in D \cap Res /\ inner[w] = o)
        <4>1. Wrapping(o)' = Wrapping(o)
          BY <1>6, <1>8, <3>4 DEF Wrapping
        <4>2. ~\E r \in D \cap Res : inner[r] = o
          BY <1>8, <3>4
        <4> QED BY <2>1, <3>1, <3>2, <4>1, <4>2
      <3> QED BY <3>3, <3>4
    <2>4. ASSUME NEW x \in Device \cup {Iface}
          PROVE  ref9'[x] = IF Live(x)' THEN 1 ELSE 0
      <3>1. ref9'[x] = IF x \in D THEN ref9[x] - 1 ELSE ref9[x]
        BY <2>1, <2>2 DEF Wrapper
      <3>2. ref9[x] = IF Live(x) THEN 1 ELSE 0
        BY DEF OneReferenceEach
      <3>3. x \in D => Live(x)
        BY <1>1, <1>4
      <3> QED BY <1>3, <3>1, <3>2, <3>3 DEF Wrapper
    <2>5. ASSUME NEW s \in Sb
          PROVE  ref9'[s] = IF blk'[s].dev # Null THEN 1 ELSE 0
      <3>1. ref9'[s] = IF blk[s].dev \in D \cap Device THEN ref9[s] - 1 ELSE ref9[s]
        BY <1>4, <2>1, <2>2
      <3>2. ref9[s] = IF blk[s].dev # Null THEN 1 ELSE 0
        BY DEF OneReferenceEach
      <3>3. blk'[s] = IF blk[s].dev \in D \cap Device THEN NoNode ELSE blk[s]
        BY DEF Release, Drained, D
      <3>4. NoNode.dev = Null /\ Null \notin Device
        BY DEF NoNode, Wrapper
      <3> QED BY <3>1, <3>2, <3>3, <3>4
    <2> QED BY <2>3, <2>4, <2>5 DEF OneReferenceEach
  <1>12. BlocksDieWithDevice'
    <2>1. \A s \in Sb : blk'[s] = IF blk[s].dev \in D \cap Device THEN NoNode ELSE blk[s]
      BY DEF Release, Drained, D
    <2> QED BY <1>3, <2>1 DEF BlocksDieWithDevice, NoNode, Wrapper
  <1> QED BY <1>9, <1>10, <1>11, <1>12

(* A release of a dead wrapper changes nothing at all. *)
LEMMA DeadRelease ==
    ASSUME TypeOK, NEW w \in Wrapper, Release(w), ~Live(w)
    PROVE  UNCHANGED <<refs, held, inner, dev, ref9, bb9, blk>>
  <1> USE DEF TypeOK
  <1>1. refs[w] = 0
    BY DEF Live, Count
  <1>2. Losing(w) = {w} /\ Dying(w) = {}
    BY <1>1 DEF Losing, Dying
  <1>3. refs' = refs
    BY <1>1, <1>2 DEF Release
  <1>4. held' = held
    BY DEF Release
  <1>5. ref9' = ref9
    BY <1>2 DEF Release, Drained
  <1>6. blk' = blk
    BY <1>2 DEF Release, Drained
  <1> QED BY <1>3, <1>4, <1>5, <1>6 DEF Release

(* wrap_add_ref counts up on a live wrapper. *)
LEMMA PlusRefLive ==
    ASSUME TypeOK, NEW w \in Wrapper, Live(w)
    PROVE  [refs EXCEPT ![w] = PlusRef(w)] = [refs EXCEPT ![w] = @ + 1]
  <1>1. refs[w] # 0
    BY DEF Live, TypeOK, Count
  <1> QED BY <1>1 DEF PlusRef

(* The invariant is inductive, one step per method. *)
LEMMA CountInduction == CountInv /\ TypeOK' /\ [Next]_vars => Counted'
  <1> SUFFICES ASSUME CountInv, TypeOK', [Next]_vars PROVE Counted'
    OBVIOUS
  <1> USE NamesAssumption
  <1> CountInv /\ TypeOK /\ Counted
    BY DEF CountInv
  <1>1. ASSUME NEW d \in Device, CreateDevice(d) PROVE Counted'
    BY <1>1, OneMoreDevice
  <1>2. ASSUME NEW w \in Wrapper, AddRef(w) PROVE Counted'
    <2>1. CASE Live(w)
      BY <1>2, <2>1, OneMoreHeld, PlusRefLive DEF AddRef, blockVars
    <2>2. CASE ~Live(w)
      <3>1. refs' = refs /\ held' = held
        BY <1>2, <2>2 DEF AddRef, PlusRef, Live, TypeOK, Count
      <3> QED BY <1>2, <3>1, CountsFrame DEF AddRef, blockVars
    <2> QED BY <2>1, <2>2
  <1>3. ASSUME NEW w \in Wrapper, GetOwner(w) PROVE Counted'
    <2>1. Owner(w) \in Wrapper /\ Live(Owner(w))
      BY <1>3, CountedOwners DEF GetOwner, OwnersAlive, Owner, Wrapper
    <2>2. refs' = [refs EXCEPT ![Owner(w)] = @ + 1]
      BY <1>3, <2>1, PlusRefLive DEF GetOwner
    <2> QED BY <1>3, <2>1, <2>2, OneMoreHeld DEF GetOwner, blockVars
  <1>4. ASSUME NEW w \in Wrapper, Release(w) PROVE Counted'
    BY <1>4, ReleaseCounts, DeadRelease, CountsFrame
  <1>5. ASSUME NEW d \in Device, NEW r \in Res, NEW o \in Obj9, NEW k \in Kinds,
               Live(d), Wrap(r, d, o, k), UNCHANGED <<bb9, blk>>
        PROVE  Counted'
    <2>1. ~Live(r)
      BY <1>5 DEF Wrap, Counted, Attached, Wrapper
    <2> QED BY <1>5, <2>1, OneMoreWrapper DEF Wrap
  <1>6. ASSUME NEW d \in Device, NEW r \in Res, NEW k \in Kinds, CreateResource(d, r, k)
        PROVE  Counted'
    BY <1>5, <1>6 DEF CreateResource, blockVars
  <1>7. ASSUME NEW t \in Res, NEW r \in Res, GetSurfaceLevel(t, r) PROVE Counted'
    <2>1. dev[t] \in Device /\ inner[t] \in Obj9 /\ Live(dev[t])
      BY <1>7, CountedOwners
         DEF GetSurfaceLevel, Counted, Attached, OwnersAlive, Owner, Wrapper
    <2> QED BY <1>5, <1>7, <2>1 DEF GetSurfaceLevel, blockVars, Kinds
  <1>8. ASSUME NEW d \in Device, GetBackBuffer(d) PROVE Counted'
    <2>1. Embedded[d] \in Res /\ bb9[d] \in Obj9 /\ dev[Embedded[d]] = d
      BY <1>8, EmbeddedAssumption DEF GetBackBuffer, Counted, Attached, TypeOK
    <2>2. CASE AdoptDead(d, Embedded[d])
      <3>1. dev' = [dev EXCEPT ![Embedded[d]] = d]
        BY <1>8, <2>1 DEF GetBackBuffer, TypeOK
      <3> QED BY <1>8, <2>1, <2>2, <3>1, OneMoreWrapper
              DEF GetBackBuffer, AdoptDead, blockVars
    <2>3. CASE AdoptSame(d, Embedded[d])
      BY <1>8, <2>1, <2>3, OneMoreHeld DEF GetBackBuffer, AdoptSame, blockVars, Wrapper
    <2>4. CASE AdoptDivergent(d, Embedded[d])
      BY <1>8, <2>4, CountsFrame DEF GetBackBuffer, AdoptDivergent, blockVars
    <2> QED BY <1>8, <2>2, <2>3, <2>4 DEF GetBackBuffer
  <1>9. ASSUME NEW d \in Device, GetIndices(d) PROVE Counted'
    <2>1. shadow[d].ib \in Wrapper /\ Live(shadow[d].ib)
      BY <1>9 DEF GetIndices, TypeOK, IndicesBinding, Wrapper
    <2>2. refs' = [refs EXCEPT ![shadow[d].ib] = @ + 1]
      BY <1>9, <2>1, PlusRefLive DEF GetIndices
    <2> QED BY <1>9, <2>1, <2>2, OneMoreHeld DEF GetIndices, blockVars
  <1>10. ASSUME NEW d \in Device, NEW ib \in Res \cup {Null}, NEW b \in Base,
                SetIndices(d, ib, b)
         PROVE  Counted'
    BY <1>10, CountsFrame DEF SetIndices, gameVars, blockVars
  <1>11. ASSUME NEW d \in Device, NEW left9 \in {Null, bound9[d]}, Reset(d, left9)
         PROVE  Counted'
    <2>1. \A c \in Device : bb9'[c] # bb9[c] => bb9[c] # Null /\ bb9'[c] # Null
      BY <1>11 DEF Reset, Counted, Attached, TypeOK, Wrapper
    <2>2. UNCHANGED <<refs, held, inner, dev, ref9, blk>>
      BY <1>11 DEF Reset, gameVars, blockVars
    <2>3. Attached'
      BY <2>1, <2>2 DEF Counted, Attached, Live
    <2> QED BY <2>2, <2>3 DEF Counted, RefsAccounted, OneReferenceEach,
               BlocksDieWithDevice, Live, LiveRes, LiveDevices, Wrapping
  <1>12. ASSUME UNCHANGED <<refs, held, inner, dev, bb9>>,
                \A x \in Obj9 \cup Device \cup {Iface} : ref9'[x] = ref9[x],
                \A s \in Sb : ref9'[s] = IF blk'[s].dev # Null THEN 1 ELSE 0,
                \A s \in Sb : blk'[s].dev # Null =>
                                 blk'[s].dev \in Device /\ Live(blk'[s].dev)
         PROVE  Counted'
    <2>1. Attached' /\ RefsAccounted'
      BY <1>12 DEF Counted, Attached, RefsAccounted, Live, LiveRes, LiveDevices
    <2>2. BlocksDieWithDevice'
      BY <1>12 DEF BlocksDieWithDevice, Live
    <2>3. \A o \in Obj9 : Wrapping(o)' = Wrapping(o)
      BY <1>12 DEF Wrapping, Live
    <2>4. \A o \in Obj9 : ref9'[o] = Cardinality(Wrapping(o)')
      BY <1>12, <2>3 DEF Counted, OneReferenceEach
    <2>5. \A w \in Device \cup {Iface} : ref9'[w] = IF Live(w)' THEN 1 ELSE 0
      BY <1>12 DEF Counted, OneReferenceEach, Live
    <2> QED BY <1>12, <2>1, <2>2, <2>4, <2>5 DEF Counted, OneReferenceEach
  <1>13. ASSUME NEW d \in Device, NEW s \in Sb, NEW ty \in BlockType,
                CreateStateBlock(d, s, ty)
         PROVE  Counted'
    <2>1. ref9' = [ref9 EXCEPT ![s] = 1] /\ d # Null /\ Live(d)
      BY <1>13 DEF CreateStateBlock, Wrapper
    <2>2. \A x \in Sb : x # s => blk'[x] = blk[x]
      BY <1>13 DEF CreateStateBlock, TypeOK
    <2>3. blk'[s].dev = d
      BY <1>13 DEF CreateStateBlock, TypeOK
    <2>4. UNCHANGED <<refs, held, inner, dev, bb9>>
      BY <1>13 DEF CreateStateBlock, gameVars
    <2>5. \A x \in Obj9 \cup Device \cup {Iface} : ref9'[x] = ref9[x]
      BY <2>1 DEF TypeOK, Wrapper
    <2>6. \A x \in Sb : ref9'[x] = IF blk'[x].dev # Null THEN 1 ELSE 0
      <3>1. \A x \in Sb : ref9'[x] = IF x = s THEN 1 ELSE ref9[x]
        BY <2>1 DEF TypeOK
      <3> QED BY <2>1, <2>2, <2>3, <3>1 DEF Counted, OneReferenceEach
    <2>7. \A x \in Sb : blk'[x].dev # Null =>
                             blk'[x].dev \in Device /\ Live(blk'[x].dev)
      BY <2>1, <2>2, <2>3 DEF Counted, BlocksDieWithDevice
    <2> QED BY <1>12, <2>4, <2>5, <2>6, <2>7
  <1>14. ASSUME NEW d \in Device, NEW t \in 1..(TokenMod - 1), DeleteStateBlock(d, t)
         PROVE  Counted'
    <2>1. PICK s \in FindBlock(d, t) : /\ blk' = [blk EXCEPT ![s] = NoNode]
                                       /\ ref9' = [ref9 EXCEPT ![s] = @ - 1]
      BY <1>14 DEF DeleteStateBlock
    <2>2. s \in Sb /\ blk[s].dev = d /\ d # Null
      BY DEF FindBlock, LiveBlocks, Wrapper
    <2>3. \A x \in Sb : x # s => blk'[x] = blk[x]
      BY <2>1 DEF TypeOK
    <2>4. blk'[s].dev = Null
      BY <2>1, <2>2 DEF TypeOK, NoNode
    <2>5. ref9[s] = 1
      BY <2>2 DEF Counted, OneReferenceEach
    <2>6. UNCHANGED <<refs, held, inner, dev, bb9>>
      BY <1>14 DEF DeleteStateBlock, gameVars
    <2>7. \A x \in Obj9 \cup Device \cup {Iface} : ref9'[x] = ref9[x]
      BY <2>1, <2>2 DEF TypeOK, Wrapper
    <2>8. \A x \in Sb : ref9'[x] = IF blk'[x].dev # Null THEN 1 ELSE 0
      <3>1. \A x \in Sb : ref9'[x] = IF x = s THEN ref9[x] - 1 ELSE ref9[x]
        BY <2>1 DEF TypeOK
      <3> QED BY <2>3, <2>4, <2>5, <3>1 DEF Counted, OneReferenceEach
    <2>9. \A x \in Sb : blk'[x].dev # Null =>
                             blk'[x].dev \in Device /\ Live(blk'[x].dev)
      BY <2>3, <2>4 DEF Counted, BlocksDieWithDevice
    <2> QED BY <1>12, <2>6, <2>7, <2>8, <2>9
  <1>15. ASSUME NEW d \in Device, NEW t \in 1..(TokenMod - 1),
                NEW op \in {"apply", "capture"}, EnterD3D9(op, d, t)
         PROVE  Counted'
    BY <1>15, CountsFrame DEF EnterD3D9, gameVars
  <1>16. ASSUME NEW ok \in BOOLEAN, ApplyReturns(ok) PROVE Counted'
    BY <1>16, CountsFrame DEF ApplyReturns, gameVars
  <1>17. ASSUME NEW ok \in BOOLEAN, CaptureReturns(ok) PROVE Counted'
    <2>1. \A s \in Sb : blk'[s].dev = blk[s].dev
      <3> TAKE s \in Sb
      <3>1. blk[s] \in Node
        BY DEF TypeOK
      <3> QED BY <1>17, <3>1, CaptureEffect DEF Node
    <2> QED BY <1>12, <1>17, <2>1
            DEF CaptureReturns, gameVars, Counted, OneReferenceEach, BlocksDieWithDevice
  <1>18. CASE UNCHANGED vars
    BY <1>18, CountsFrame DEF vars
  <1> QED
    BY <1>1, <1>2, <1>3, <1>4, <1>6, <1>7, <1>8, <1>9, <1>10, <1>11, <1>13,
       <1>14, <1>15, <1>16, <1>17, <1>18 DEF Next

(* The invariant holds when hook_direct3dcreate8 returns. *)
LEMMA CountInit == Init => CountInv
  <1> SUFFICES ASSUME Init PROVE CountInv
    OBVIOUS
  <1> USE NamesAssumption DEF Init
  <1>1. TypeOK
    BY TypeInit
  <1>2. \A w \in Wrapper : Live(w) <=> w = Iface
    BY DEF Live
  <1>3. /\ \A d \in Device : LiveRes(d) = {}
        /\ \A o : Wrapping(o) = {}
        /\ LiveDevices = {}
    BY <1>2 DEF LiveRes, Wrapping, LiveDevices, Wrapper
  <1>4. Attached
    BY <1>2, EmbeddedAssumption DEF Attached, Wrapper
  <1>5. RefsAccounted
    BY <1>3, FS_EmptySet DEF RefsAccounted, Wrapper
  <1>6. OneReferenceEach
    BY <1>2, <1>3, FS_EmptySet DEF OneReferenceEach, Wrapper, NoNode
  <1>7. BlocksDieWithDevice
    BY DEF BlocksDieWithDevice, NoNode
  <1> QED BY <1>1, <1>4, <1>5, <1>6, <1>7 DEF CountInv, Counted

(* So it holds for ever. *)
LEMMA CountInvariant == Spec => []CountInv
  <1>1. CountInv /\ [Next]_vars => CountInv'
    BY TypeInductive, CountInduction DEF CountInv
  <1> QED BY <1>1, CountInit, PTL DEF Spec

(* Every game-facing count is what the game holds plus the live wrappers    *)
(* that depend on it, and every D3D9 object carries one reference per live  *)
(* wrapper and per state block, in every order of creations, releases,      *)
(* adoptions and resets.                                                    *)
THEOREM ReferencesCounted ==
    Spec => [](RefsAccounted /\ OneReferenceEach /\ BlocksDieWithDevice)
  BY CountInvariant, PTL DEF CountInv, Counted

(* A live wrapper's backpointer leads to a live wrapper, and once the game  *)
(* has released everything, no D3D9 object has a reference left.            *)
THEOREM NoLeak == Spec => [](OwnersAlive /\ NothingLeaked)
  <1>1. CountInv => NothingLeaked
    <2> SUFFICES ASSUME CountInv, \A w \in Wrapper : held[w] = 0
                 PROVE  \A o \in DOMAIN ref9 : ref9[o] = 0
      BY DEF NothingLeaked
    <2> USE DEF CountInv, Counted
    <2>1. \A r \in Res : ~Live(r)
      BY DEF RefsAccounted, Live, Wrapper
    <2>2. \A d \in Device : LiveRes(d) = {}
      BY <2>1 DEF LiveRes
    <2>3. \A d \in Device : ~Live(d)
      BY <2>2, FS_EmptySet DEF RefsAccounted, Live, Wrapper
    <2>4. LiveDevices = {} /\ \A o \in Obj9 : Wrapping(o) = {}
      BY <2>1, <2>3 DEF LiveDevices, Wrapping
    <2>5. ~Live(Iface)
      BY <2>4, FS_EmptySet DEF RefsAccounted, Live, Wrapper
    <2>6. \A s \in Sb : blk[s].dev = Null
      BY <2>3 DEF BlocksDieWithDevice
    <2> QED BY <2>3, <2>4, <2>5, <2>6, FS_EmptySet DEF OneReferenceEach, TypeOK
  <1> QED BY <1>1, CountInvariant, CountedOwners, PTL

-----------------------------------------------------------------------------
(* What a step may do to the D3D9 object inside a wrapper: only a wrapper   *)
(* that does not exist yet, or an embedded one that is dead, gets one.      *)
LEMMA InnerMoves ==
    ASSUME CountInv, [Next]_vars, NEW r \in Res, inner'[r] # inner[r]
    PROVE  ~Live(r) /\ (dev[r] = Null \/ r \in EmbeddedRes)
  <1> USE NamesAssumption DEF CountInv
  <1>1. ASSUME NEW d, NEW x \in Res, NEW o, NEW k, Wrap(x, d, o, k)
        PROVE  ~Live(r) /\ dev[r] = Null
    BY <1>1 DEF Wrap, TypeOK, Counted, Attached, Wrapper
  <1>2. ASSUME NEW d \in Device, GetBackBuffer(d)
        PROVE  ~Live(r) /\ r \in EmbeddedRes
    BY <1>2, EmbeddedAssumption
       DEF GetBackBuffer, AdoptDead, AdoptSame, AdoptDivergent, TypeOK, EmbeddedRes
  <1>3. CASE UNCHANGED vars
    BY <1>3 DEF vars
  <1> QED
    BY <1>1, <1>2, <1>3
       DEF Next, CreateDevice, AddRef, GetOwner, Release, CreateResource,
           GetSurfaceLevel, GetIndices, SetIndices, Reset, CreateStateBlock,
           DeleteStateBlock, EnterD3D9, ApplyReturns, CaptureReturns, gameVars

(* A live wrapper keeps its D3D9 object. *)
THEOREM WrappersKeepTheirObject == Spec => NeverRehomed
  <1>1. CountInv /\ [Next]_vars =>
           \A r \in Res : Live(r) /\ Live(r)' => inner'[r] = inner[r]
    BY InnerMoves
  <1>2. CountInv /\ [Next]_vars =>
           [\A r \in Res : Live(r) /\ Live(r)' => inner'[r] = inner[r]]_vars
    BY <1>1
  <1> QED BY <1>2, CountInvariant, PTL DEF Spec, NeverRehomed

(* Which wrappers a step brings to life. *)
LEMMA Births ==
    ASSUME CountInv, [Next]_vars, NEW w \in Wrapper, Born(w), ~Live(w), Live(w)'
    PROVE  w \in EmbeddedRes /\ Live(dev[w])
  <1> USE NamesAssumption DEF CountInv
  <1>0. refs[w] = 0 /\ refs'[w] # 0
    BY DEF Live, TypeOK, Count
  <1>1. ASSUME NEW d \in Device, CreateDevice(d) PROVE FALSE
    BY <1>0, <1>1 DEF CreateDevice, Born, TypeOK, PlusRef, Wrapper
  <1>2. ASSUME NEW x \in Wrapper, refs' = [refs EXCEPT ![x] = PlusRef(x)] PROVE FALSE
    BY <1>0, <1>2 DEF TypeOK, PlusRef
  <1>3. ASSUME NEW x \in Wrapper, AddRef(x) \/ GetOwner(x) PROVE FALSE
    BY <1>0, <1>3 DEF AddRef, GetOwner, PlusRef, TypeOK
  <1>4. ASSUME NEW x \in Wrapper, Release(x) PROVE FALSE
    BY <1>0, <1>4 DEF Release, TypeOK
  <1>5. ASSUME NEW d, NEW x \in Res, NEW o, NEW k, Wrap(x, d, o, k) PROVE FALSE
    BY <1>0, <1>5 DEF Wrap, PlusRef, TypeOK, Born, Wrapper
  <1>6. ASSUME NEW d \in Device, GetBackBuffer(d)
        PROVE  w = Embedded[d] /\ dev[w] = d /\ Live(d)
    BY <1>0, <1>6
       DEF GetBackBuffer, AdoptDead, AdoptSame, AdoptDivergent, PlusRef, TypeOK,
           Counted, Attached
  <1>7. ASSUME NEW d \in Device, GetIndices(d) PROVE FALSE
    BY <1>0, <1>7 DEF GetIndices, PlusRef, TypeOK
  <1>8. CASE UNCHANGED refs
    BY <1>0, <1>8
  <1> QED
    BY <1>1, <1>3, <1>4, <1>5, <1>6, <1>7, <1>8
       DEF Next, CreateResource, GetSurfaceLevel, SetIndices, Reset,
           CreateStateBlock, DeleteStateBlock, EnterD3D9, ApplyReturns,
           CaptureReturns, gameVars, EmbeddedRes, vars

(* No method resurrects a dead wrapper; only the back buffer embedded in a  *)
(* live device starts another life.                                         *)
THEOREM NoResurrection == Spec => DeadStaysDead
  <1>1. CountInv /\ [Next]_vars =>
           [\A w \in Wrapper : Born(w) /\ ~Live(w) /\ Live(w)' =>
               w \in EmbeddedRes /\ Live(dev[w])]_vars
    BY Births
  <1> QED BY <1>1, CountInvariant, PTL DEF Spec, DeadStaysDead

-----------------------------------------------------------------------------
(* The index binding.  A remembered buffer is one that SetIndices accepted: *)
(* an index buffer of its own, never an embedded back buffer, so that the   *)
(* object inside it is the same for ever; and the block inside D3D9 during  *)
(* an Apply was coherent when its node was copied out.                      *)
Remembered(b) ==
    b.ib # Null => /\ b.ib \in Res \ EmbeddedRes
                   /\ dev[b.ib] # Null /\ kind[b.ib] = "index buffer"

BindingFits(d) ==
    Remembered(shadow[d]) /\ (d \notin drifted => Names(shadow[d], bound9[d]))

SnapshotFits(s) ==
    /\ Remembered(blk[s].indices)
    /\ blk[s].dev # Null /\ blk[s].dev \notin drifted /\ blk[s].ty = "ALL" =>
          Names(blk[s].indices, blk[s].ib9)

CallFits ==
    /\ Remembered(call.node.indices)
    /\ ~Idle /\ call.node.dev \notin drifted /\ call.node.ty = "ALL" =>
          Names(call.node.indices, call.node.ib9)

Bindings ==
    /\ \A e \in EmbeddedRes : kind[e] = "other"
    /\ \A d \in Device : BindingFits(d)
    /\ \A s \in Sb : SnapshotFits(s)
    /\ CallFits

BindInv == CountInv /\ Bindings

(* What is remembered stays so, and names the same object. *)
LEMMA RememberedLasts ==
    ASSUME BindInv, [Next]_vars
    PROVE  \A b \in IndicesBinding : Remembered(b) /\ b.ib # Null =>
              /\ dev'[b.ib] # Null /\ kind'[b.ib] = "index buffer"
              /\ inner'[b.ib] = inner[b.ib]
  <1> USE NamesAssumption DEF BindInv
  <1> SUFFICES ASSUME NEW b \in IndicesBinding, Remembered(b), b.ib # Null
               PROVE  /\ dev'[b.ib] # Null /\ kind'[b.ib] = "index buffer"
                      /\ inner'[b.ib] = inner[b.ib]
    OBVIOUS
  <1> DEFINE r == b.ib
  <1>1. r \in Res \ EmbeddedRes /\ dev[r] # Null /\ kind[r] = "index buffer"
    BY DEF Remembered
  <1> HIDE DEF r
  <1>2. inner'[r] = inner[r]
    BY <1>1, InnerMoves
  <1>3. ASSUME NEW d, NEW x \in Res, NEW o, NEW k, Wrap(x, d, o, k)
        PROVE  dev'[r] = dev[r] /\ kind'[r] = kind[r]
    BY <1>1, <1>3 DEF Wrap, CountInv, TypeOK
  <1>4. ASSUME NEW d \in Device, CreateDevice(d)
        PROVE  dev'[r] = dev[r] /\ kind'[r] = kind[r]
    BY <1>1, <1>4 DEF CreateDevice, CountInv, TypeOK, EmbeddedRes
  <1>5. dev'[r] = dev[r] /\ kind'[r] = kind[r]
    BY <1>3, <1>4
       DEF Next, AddRef, GetOwner, Release, CreateResource, GetSurfaceLevel,
           GetBackBuffer, GetIndices, SetIndices, Reset, CreateStateBlock,
           DeleteStateBlock, EnterD3D9, ApplyReturns, CaptureReturns, gameVars, vars
  <1> QED BY <1>1, <1>2, <1>5 DEF r

(* No method gives an embedded back buffer another vtable. *)
LEMMA EmbeddedKind ==
    ASSUME BindInv, [Next]_vars, NEW e \in EmbeddedRes
    PROVE  kind'[e] = "other"
  <1> USE DEF BindInv, Bindings
  <1>1. kind[e] = "other" /\ e \in Res
    BY EmbeddedAssumption DEF EmbeddedRes
  <1>2. ASSUME NEW d, NEW x \in Res, NEW o, NEW k, Wrap(x, d, o, k)
        PROVE  kind'[e] = kind[e]
    BY <1>1, <1>2 DEF Wrap, CountInv, TypeOK
  <1> QED
    BY <1>1, <1>2
       DEF Next, CreateDevice, AddRef, GetOwner, Release, CreateResource,
           GetSurfaceLevel, GetBackBuffer, GetIndices, SetIndices, Reset,
           CreateStateBlock, DeleteStateBlock, EnterD3D9, ApplyReturns,
           CaptureReturns, gameVars, vars

(* A step that moves neither binding, snapshot nor call. *)
LEMMA BindingsFrame ==
    ASSUME BindInv, TypeOK', [Next]_vars, UNCHANGED <<bindVars, call>>,
           \A s \in Sb : blk'[s] \in {blk[s], NoNode}
    PROVE  Bindings'
  <1>1. /\ \A d \in Device : shadow[d] \in IndicesBinding /\ BindingFits(d)
        /\ \A s \in Sb : blk[s].indices \in IndicesBinding /\ SnapshotFits(s)
        /\ call.node.indices \in IndicesBinding /\ CallFits
        /\ UNCHANGED <<shadow, bound9, drifted>>
    BY DEF BindInv, Bindings, CountInv, TypeOK, Node, bindVars
  <1>2. \A d \in Device : BindingFits(d)'
    BY <1>1, RememberedLasts DEF BindingFits, Remembered, Names
  <1>3. ASSUME NEW s \in Sb PROVE SnapshotFits(s)'
    <2>1. CASE blk'[s] = blk[s]
      BY <1>1, <2>1, RememberedLasts DEF SnapshotFits, Remembered, Names
    <2>2. CASE blk'[s] = NoNode
      <3>1. blk'[s].dev = Null /\ blk'[s].indices.ib = Null
        BY <2>2 DEF NoNode, Unbound
      <3> QED BY <3>1 DEF SnapshotFits, Remembered
    <2>3. blk'[s] \in {blk[s], NoNode}
      OBVIOUS
    <2> QED BY <2>1, <2>2, <2>3
  <1>4. CallFits'
    BY <1>1, RememberedLasts DEF CallFits, Remembered, Names, Idle
  <1> QED BY <1>2, <1>3, <1>4, EmbeddedKind DEF Bindings

(* When the wrappers stand still, what fits goes on fitting where nothing   *)
(* is overwritten.                                                          *)
LEMMA FitsFrame ==
    ASSUME Bindings, UNCHANGED <<inner, dev, kind>>, drifted \subseteq drifted'
    PROVE  /\ \A d \in Device : shadow'[d] = shadow[d] /\ bound9'[d] = bound9[d] =>
                 BindingFits(d)'
           /\ \A s \in Sb : blk'[s] = blk[s] => SnapshotFits(s)'
           /\ call' = call \/ call' = NoCall => CallFits'
  <1>1. /\ \A d \in Device : BindingFits(d)
        /\ \A s \in Sb : SnapshotFits(s)
        /\ CallFits
    BY DEF Bindings
  <1>2. \A d \in Device : shadow'[d] = shadow[d] /\ bound9'[d] = bound9[d] =>
           BindingFits(d)'
    BY <1>1 DEF BindingFits, Remembered, Names
  <1>3. \A s \in Sb : blk'[s] = blk[s] => SnapshotFits(s)'
    BY <1>1 DEF SnapshotFits, Remembered, Names
  <1>4. CASE call' = call
    BY <1>1, <1>2, <1>3, <1>4 DEF CallFits, Remembered, Names, Idle
  <1>5. CASE call' = NoCall
    <2>1. call'.op = "none" /\ call'.node.indices.ib = Null
      BY <1>5 DEF NoCall, NoNode, Unbound
    <2>2. CallFits'
      BY <2>1 DEF CallFits, Remembered, Idle
    <2> QED BY <1>2, <1>3, <2>2
  <1> QED BY <1>2, <1>3, <1>4, <1>5

(* SetIndices, Reset and the state-block methods, one by one. *)
LEMMA BindingsInduction == BindInv /\ TypeOK' /\ [Next]_vars => Bindings'
  <1> SUFFICES ASSUME BindInv, TypeOK', [Next]_vars PROVE Bindings'
    OBVIOUS
  <1> USE NamesAssumption
  <1>0. Bindings /\ TypeOK
    BY DEF BindInv, CountInv
  <1>1. \A e \in EmbeddedRes : kind'[e] = "other"
    BY EmbeddedKind
  <1>2. ASSUME UNCHANGED <<bindVars, call, blk>> PROVE Bindings'
    BY <1>2, BindingsFrame
  <1>3. ASSUME NEW w \in Wrapper, Release(w) PROVE Bindings'
    BY <1>3, BindingsFrame DEF Release
  <1>4. ASSUME NEW d \in Device, NEW t \in 1..(TokenMod - 1), DeleteStateBlock(d, t)
        PROVE  Bindings'
    <2>1. \A s \in Sb : blk'[s] \in {blk[s], NoNode}
      BY <1>0, <1>4 DEF DeleteStateBlock, TypeOK
    <2> QED BY <1>4, <2>1, BindingsFrame DEF DeleteStateBlock
  <1>5. ASSUME NEW d \in Device, NEW ib \in Res \cup {Null}, NEW b \in Base,
               SetIndices(d, ib, b)
        PROVE  Bindings'
    <2>1. UNCHANGED <<inner, dev, kind, drifted, blk, call>>
      BY <1>5 DEF SetIndices, gameVars, blockVars
    <2>2. /\ shadow'[d].ib = ib
          /\ bound9'[d] = IF ib = Null THEN Null ELSE inner[ib]
          /\ \A c \in Device : c # d => shadow'[c] = shadow[c] /\ bound9'[c] = bound9[c]
      BY <1>0, <1>5 DEF SetIndices, TypeOK
    <2>3. ib # Null => /\ ib \in Res \ EmbeddedRes /\ dev[ib] # Null
                       /\ kind[ib] = "index buffer"
      <3>1. \A e \in EmbeddedRes : kind[e] = "other"
        BY <1>0 DEF Bindings
      <3> QED BY <1>5, <3>1 DEF SetIndices, Bindable, Wrapper
    <2>4. BindingFits(d)'
      BY <2>1, <2>2, <2>3 DEF BindingFits, Remembered, Names
    <2> QED BY <1>0, <1>1, <2>1, <2>2, <2>4, FitsFrame DEF Bindings
  <1>6. ASSUME NEW d \in Device, NEW left9 \in {Null, bound9[d]}, Reset(d, left9)
        PROVE  Bindings'
    <2>1. UNCHANGED <<inner, dev, kind, blk, call>>
      BY <1>6 DEF Reset, gameVars, blockVars
    <2>2. /\ \A c \in Device : c # d => shadow'[c] = shadow[c] /\ bound9'[c] = bound9[c]
          /\ drifted \subseteq drifted'
      BY <1>0, <1>6 DEF Reset, TypeOK
    <2>3. ASSUME shadow'[d] = Unbound, bound9'[d] = Null PROVE BindingFits(d)'
      <3>1. shadow'[d].ib = Null
        BY <2>3 DEF Unbound
      <3> QED BY <2>3, <3>1 DEF BindingFits, Remembered, Names
    <2>4. ASSUME shadow'[d] = shadow[d], d \in drifted' PROVE BindingFits(d)'
      <3>1. BindingFits(d)
        BY <1>0 DEF Bindings
      <3> QED BY <2>1, <2>4, <3>1 DEF BindingFits, Remembered, Names
    <2>5. \/ shadow'[d] = Unbound /\ bound9'[d] = Null
          \/ shadow'[d] = shadow[d] /\ d \in drifted'
      BY <1>0, <1>6 DEF Reset, TypeOK
    <2>6. BindingFits(d)'
      BY <2>3, <2>4, <2>5
    <2> QED BY <1>0, <1>1, <2>1, <2>2, <2>6, FitsFrame DEF Bindings
  <1>7. ASSUME NEW d \in Device, NEW s \in Sb, NEW ty \in BlockType,
               CreateStateBlock(d, s, ty)
        PROVE  Bindings'
    <2>1. UNCHANGED <<inner, dev, kind, shadow, bound9, drifted, call>>
      BY <1>7 DEF CreateStateBlock, gameVars, bindVars
    <2>2. /\ blk'[s].dev = d /\ blk'[s].indices = shadow[d] /\ blk'[s].ib9 = bound9[d]
          /\ \A x \in Sb : x # s => blk'[x] = blk[x]
      BY <1>0, <1>7 DEF CreateStateBlock, TypeOK
    <2>3. BindingFits(d)
      BY <1>0 DEF Bindings
    <2>4. SnapshotFits(s)'
      BY <2>1, <2>2, <2>3 DEF SnapshotFits, BindingFits, Remembered, Names
    <2> QED BY <1>0, <1>1, <2>1, <2>2, <2>4, FitsFrame DEF Bindings
  <1>8. ASSUME NEW d \in Device, NEW t \in 1..(TokenMod - 1),
               NEW op \in {"apply", "capture"}, EnterD3D9(op, d, t)
        PROVE  Bindings'
    <2>1. UNCHANGED <<inner, dev, kind, shadow, bound9, drifted, blk>>
      BY <1>8 DEF EnterD3D9, gameVars, bindVars
    <2>2. PICK s \in FindBlock(d, t) : call' = [op |-> op, node |-> blk[s]]
      BY <1>8 DEF EnterD3D9
    <2>3. s \in Sb /\ blk[s].dev = d /\ d # Null /\ call'.node = blk[s]
      BY <2>2 DEF FindBlock, LiveBlocks, Wrapper
    <2>4. SnapshotFits(s)
      BY <1>0, <2>3 DEF Bindings
    <2>5. CallFits'
      BY <2>1, <2>3, <2>4 DEF SnapshotFits, CallFits, Remembered, Names
    <2> QED BY <1>0, <1>1, <2>1, <2>5, FitsFrame DEF Bindings
  <1>9. ASSUME NEW ok \in BOOLEAN, ApplyReturns(ok) PROVE Bindings'
    <2>1. UNCHANGED <<inner, dev, kind, drifted, blk>> /\ ~Idle /\ call' = NoCall
      BY <1>9 DEF ApplyReturns, gameVars, Idle
    <2>2. CallFits
      BY <1>0 DEF Bindings
    <2>3. ASSUME NEW c \in Device PROVE BindingFits(c)'
      <3>1. CASE shadow'[c] = shadow[c] /\ bound9'[c] = bound9[c]
        BY <1>0, <2>1, <3>1, FitsFrame
      <3>2. CASE /\ c = call.node.dev /\ call.node.ty = "ALL"
                 /\ shadow'[c] = call.node.indices /\ bound9'[c] = call.node.ib9
        BY <2>1, <2>2, <3>2 DEF CallFits, BindingFits, Remembered, Names
      <3>3. \/ shadow'[c] = shadow[c] /\ bound9'[c] = bound9[c]
            \/ /\ c = call.node.dev /\ call.node.ty = "ALL"
               /\ shadow'[c] = call.node.indices /\ bound9'[c] = call.node.ib9
        BY <1>0, <1>9 DEF ApplyReturns, Follows, Indexed9, TypeOK
      <3> QED BY <3>1, <3>2, <3>3
    <2> QED BY <1>0, <1>1, <2>1, <2>3, FitsFrame DEF Bindings
  <1>10. ASSUME NEW ok \in BOOLEAN, CaptureReturns(ok) PROVE Bindings'
    <2>1. UNCHANGED <<inner, dev, kind, shadow, bound9, drifted>> /\ ~Idle /\ call' = NoCall
      BY <1>10 DEF CaptureReturns, gameVars, bindVars, Idle
    <2>2. call.node.dev \in Device
      BY <1>0, <2>1 DEF TypeOK
    <2>3. BindingFits(call.node.dev)
      BY <1>0, <2>2 DEF Bindings
    <2>4. ASSUME NEW s \in Sb PROVE SnapshotFits(s)'
      <3>1. CASE blk'[s] = blk[s]
        BY <1>0, <2>1, <3>1, FitsFrame
      <3>2. CASE /\ s \in FindBlock(call.node.dev, call.node.token)
                 /\ blk'[s] = [blk[s] EXCEPT !.indices = shadow[call.node.dev],
                                             !.ib9 = bound9[call.node.dev]]
        <4>1. blk[s] \in Node /\ blk[s].dev = call.node.dev
          BY <1>0, <3>2 DEF TypeOK, FindBlock, LiveBlocks
        <4>2. /\ blk'[s].dev = call.node.dev
              /\ blk'[s].indices = shadow[call.node.dev]
              /\ blk'[s].ib9 = bound9[call.node.dev]
          BY <3>2, <4>1 DEF Node
        <4> QED
          BY <2>1, <2>2, <2>3, <4>2 DEF SnapshotFits, BindingFits, Remembered, Names
      <3>3. \/ blk'[s] = blk[s]
            \/ /\ s \in FindBlock(call.node.dev, call.node.token)
               /\ blk'[s] = [blk[s] EXCEPT !.indices = shadow[call.node.dev],
                                           !.ib9 = bound9[call.node.dev]]
        BY <1>0, <1>10, CaptureEffect
      <3> QED BY <3>1, <3>2, <3>3
    <2> QED BY <1>0, <1>1, <2>1, <2>4, FitsFrame DEF Bindings
  <1> QED
    BY <1>2, <1>3, <1>4, <1>5, <1>6, <1>7, <1>8, <1>9, <1>10
       DEF Next, CreateDevice, AddRef, GetOwner, CreateResource, GetSurfaceLevel,
           GetBackBuffer, GetIndices, blockVars, vars, bindVars

(* What the wrapper remembers of the index binding, of the device and in    *)
(* every ALL block, is what D3D9 holds: no order of SetIndices, Reset,      *)
(* Capture, Apply, re-entrant deletion and release parts the two, unless a  *)
(* Reset has logged that it could not unbind.                               *)
THEOREM ShadowIsTheBinding == Spec => [](ShadowCoherent /\ SnapshotsCoherent)
  <1>1. Init => BindInv
    <2> SUFFICES ASSUME Init PROVE BindInv
      OBVIOUS
    <2>1. CountInv
      BY CountInit
    <2>2. Bindings
      BY EmbeddedAssumption
         DEF Init, Bindings, BindingFits, SnapshotFits, CallFits, Remembered,
             Names, Unbound, NoNode, NoCall, Idle, EmbeddedRes
    <2> QED BY <2>1, <2>2 DEF BindInv
  <1>2. BindInv /\ [Next]_vars => BindInv'
    BY CountInduction, TypeInductive, BindingsInduction DEF BindInv, CountInv
  <1>3. BindInv => ShadowCoherent /\ SnapshotsCoherent
    BY DEF BindInv, Bindings, BindingFits, SnapshotFits, ShadowCoherent,
           SnapshotsCoherent
  <1> QED BY <1>1, <1>2, <1>3, PTL DEF Spec

-----------------------------------------------------------------------------
(* The wrapper implements IndexChannel.                                     *)

(* The pair of a device, of a node, and of the call in flight, as the       *)
(* mapping of Channel has them.                                             *)
DevicePair(d) == PairOf(bound9[d], shadow[d].base)
NodePair(n) ==
    IF n.dev # Null /\ n.ty = "ALL" THEN PairOf(n.ib9, n.indices.base)
    ELSE PairOf(Null, -1)

(* Outside of D3D9 there is no node of a call. *)
Returned == Idle => call = NoCall

LEMMA ReturnedInduction == Returned /\ [Next]_vars => Returned'
  <1> SUFFICES ASSUME Returned, [Next]_vars PROVE Returned'
    OBVIOUS
  <1>1. ASSUME NEW ok \in BOOLEAN, ApplyReturns(ok) \/ CaptureReturns(ok)
        PROVE  Returned'
    BY <1>1 DEF ApplyReturns, CaptureReturns, Returned
  <1>2. ASSUME NEW d \in Device, NEW t, NEW op \in {"apply", "capture"},
               EnterD3D9(op, d, t)
        PROVE  Returned'
    BY <1>2 DEF EnterD3D9, Returned, Idle
  <1>3. ASSUME call' = call PROVE Returned'
    BY <1>3 DEF Returned, Idle
  <1> QED
    BY <1>1, <1>2, <1>3
       DEF Next, CreateDevice, AddRef, GetOwner, Release, CreateResource,
           GetSurfaceLevel, GetBackBuffer, GetIndices, SetIndices, Reset,
           CreateStateBlock, DeleteStateBlock, blockVars, vars

LEMMA PairType ==
    ASSUME TypeOK
    PROVE  /\ \A d \in Device : DevicePair(d) \in [buffer : Obj9 \cup {Null}, base : Base]
           /\ \A n \in Node : NodePair(n) = PairOf(Null, -1) <=> ~(n.dev # Null /\ n.ty = "ALL")
           /\ DOMAIN blk = Sb
  <1>1. ASSUME NEW d \in Device
        PROVE  DevicePair(d) \in [buffer : Obj9 \cup {Null}, base : Base]
    BY DEF TypeOK, DevicePair, PairOf, IndicesBinding
  <1>2. ASSUME NEW n \in Node
        PROVE  NodePair(n) = PairOf(Null, -1) <=> ~(n.dev # Null /\ n.ty = "ALL")
    <2>1. n.indices.base \in Nat
      BY NumbersAssumption DEF Node, IndicesBinding
    <2>2. PairOf(n.ib9, n.indices.base).base # PairOf(Null, -1).base
      BY <2>1 DEF PairOf
    <2> QED BY <2>2 DEF NodePair
  <1> QED BY <1>1, <1>2 DEF TypeOK

(* What the state of Channel is made of.                                    *)
Pairs == [d \in Device |-> DevicePair(d)]
Saved == [s \in Sb |-> NodePair(blk[s])]
Inside == [op |-> call.op, dev |-> call.node.dev, pair |-> NodePair(call.node)]

(* Steps that move no part of the channel. *)
LEMMA ChannelStutters ==
    ASSUME UNCHANGED <<bound9, shadow, blk, call>>
    PROVE  UNCHANGED <<Pairs, Saved, Inside>>
  BY DEF Pairs, Saved, Inside, DevicePair, NodePair

LEMMA ChannelSet ==
    ASSUME TypeOK, TypeOK', Returned, Idle, UNCHANGED <<blk, call>>, NEW d \in Device,
           \A c \in Device : c # d => bound9'[c] = bound9[c] /\ shadow'[c] = shadow[c]
    PROVE  Channel!Set
  <1>1. UNCHANGED <<Saved, Inside>>
    BY DEF Saved, Inside, NodePair
  <1>2. Inside = [op |-> "none", dev |-> Null, pair |-> PairOf(Null, -1)]
    BY DEF Returned, Idle, Inside, NoCall, NoNode, NodePair
  <1>3. Pairs' = [Pairs EXCEPT ![d] = DevicePair(d)']
    BY DEF Pairs, DevicePair
  <1>4. DevicePair(d)' \in [buffer : Obj9 \cup {Null}, base : Base]
    BY PairType DEF TypeOK, DevicePair, PairOf, IndicesBinding
  <1> QED
    BY <1>1, <1>2, <1>3, <1>4
       DEF Channel!Set, Channel!None, Channel!NoPair, Channel!Pair, PairOf,
           Pairs, Saved, Inside, DevicePair, NodePair

(* CreateStateBlock records the device's pair, or no pair. *)
LEMMA ChannelCreates ==
    ASSUME TypeOK, NEW d \in Device, NEW s \in Sb, NEW ty \in BlockType,
           CreateStateBlock(d, s, ty)
    PROVE  Channel!Blocks
  <1>1. UNCHANGED <<bound9, shadow, call>>
    BY DEF CreateStateBlock, bindVars
  <1>2. UNCHANGED <<Pairs, Inside>>
    BY <1>1 DEF Pairs, Inside, DevicePair, NodePair
  <1>3. /\ blk'[s].dev = d /\ blk'[s].ty = ty
        /\ blk'[s].ib9 = bound9[d] /\ blk'[s].indices = shadow[d]
        /\ \A x \in Sb : x # s => blk'[x] = blk[x]
    BY DEF CreateStateBlock, TypeOK
  <1>4. NodePair(blk[s])' \in {DevicePair(d), PairOf(Null, -1)}
    BY <1>3 DEF NodePair, DevicePair
  <1>5. \A x \in Sb : x # s => NodePair(blk[x])' = NodePair(blk[x])
    BY <1>3 DEF NodePair
  <1>6. Saved' = [Saved EXCEPT ![s] = NodePair(blk[s])']
    BY <1>5 DEF Saved
  <1>7. Saved' \in {[Saved EXCEPT ![s] = Pairs[d]], [Saved EXCEPT ![s] = PairOf(Null, -1)]}
    BY <1>4, <1>6 DEF Pairs
  <1> QED
    BY <1>2, <1>7
       DEF Channel!Blocks, Channel!Create, Channel!NoPair, PairOf,
           Pairs, Saved, Inside, DevicePair, NodePair

(* DeleteStateBlock and the end of a device forget what they delete. *)
LEMMA ChannelDeletes ==
    ASSUME UNCHANGED <<bound9, shadow, call>>, NEW B \in SUBSET Sb,
           \A s \in B : blk'[s] = NoNode, \A s \in Sb \ B : blk'[s] = blk[s]
    PROVE  Channel!Blocks
  <1>1. UNCHANGED <<Pairs, Inside>>
    BY DEF Pairs, Inside, DevicePair, NodePair
  <1>2. \A s \in B : NodePair(blk[s])' = PairOf(Null, -1)
    BY DEF NodePair, NoNode
  <1>3. \A s \in Sb \ B : NodePair(blk[s])' = NodePair(blk[s])
    BY DEF NodePair
  <1>4. Saved' = [s \in Sb |-> IF s \in B THEN PairOf(Null, -1) ELSE Saved[s]]
    BY <1>2, <1>3 DEF Saved
  <1> QED
    BY <1>1, <1>4
       DEF Channel!Blocks, Channel!Delete, Channel!NoPair, PairOf,
           Pairs, Saved, Inside, DevicePair, NodePair

(* ApplyStateBlock and CaptureStateBlock go into D3D9 with a block's pair. *)
LEMMA ChannelBegins ==
    ASSUME TypeOK, Returned, NEW d \in Device, NEW t \in 1..(TokenMod - 1),
           NEW op \in {"apply", "capture"}, EnterD3D9(op, d, t)
    PROVE  Channel!Next
  <1>1. Idle /\ UNCHANGED <<bound9, shadow, blk>>
    BY DEF EnterD3D9, bindVars
  <1>2. PICK s \in FindBlock(d, t) : call' = [op |-> op, node |-> blk[s]]
    BY DEF EnterD3D9
  <1>3. s \in Sb /\ blk[s].dev = d
    BY <1>2 DEF FindBlock, LiveBlocks
  <1>4. UNCHANGED <<Pairs, Saved>>
    BY <1>1 DEF Pairs, Saved, DevicePair, NodePair
  <1>5. Inside = [op |-> "none", dev |-> Null, pair |-> PairOf(Null, -1)]
    BY <1>1 DEF Returned, Idle, Inside, NoCall, NoNode, NodePair
  <1>6. Inside' = [op |-> op, dev |-> d, pair |-> Saved[s]]
    BY <1>2, <1>3 DEF Inside, Saved, NodePair
  <1>7. Channel!Begin(op, d, s)
    BY <1>4, <1>5, <1>6
       DEF Channel!Begin, Channel!None, Channel!NoPair, PairOf,
           Pairs, Saved, Inside, DevicePair, NodePair
  <1> QED BY <1>3, <1>7 DEF Channel!Next

(* A successful Apply of an ALL block brings its pair back as a whole. *)
LEMMA ChannelApplies ==
    ASSUME TypeOK, NEW ok \in BOOLEAN, ApplyReturns(ok)
    PROVE  Channel!ApplyReturns(ok)
  <1>0. call.op = "apply" /\ call.node.dev \in Device
    BY DEF ApplyReturns, TypeOK, Idle, Wrapper
  <1> PICK d \in Device : d = call.node.dev
    BY <1>0
  <1>1. call.op = "apply" /\ call' = NoCall /\ blk' = blk /\ d # Null
    BY <1>0, NamesAssumption DEF ApplyReturns, Wrapper
  <1>2. Inside.op = "apply" /\ UNCHANGED Saved
    BY <1>1 DEF Inside, Saved, NodePair
  <1>3. Inside' = [op |-> "none", dev |-> Null, pair |-> PairOf(Null, -1)]
    BY <1>1 DEF Inside, NoCall, NoNode, NodePair
  <1>4. call.node \in Node
    BY DEF TypeOK
  <1>5. Inside.dev = d /\ (Inside.pair # PairOf(Null, -1) <=> call.node.ty = "ALL")
    BY <1>1, <1>4, PairType DEF Inside
  <1>6. CASE ok /\ call.node.ty = "ALL"
    <2>1. /\ bound9' = [bound9 EXCEPT ![d] = call.node.ib9]
          /\ shadow' = [shadow EXCEPT ![d] = call.node.indices]
      BY <1>6 DEF ApplyReturns, Indexed9, Follows
    <2>2. /\ bound9'[d] = call.node.ib9 /\ shadow'[d] = call.node.indices
          /\ \A c \in Device : c # d => bound9'[c] = bound9[c] /\ shadow'[c] = shadow[c]
      BY <1>1, <2>1 DEF TypeOK
    <2>3. PairOf(bound9'[d], shadow'[d].base) = NodePair(call.node)
      BY <1>1, <1>6, <2>2 DEF NodePair
    <2>4. Pairs' = [Pairs EXCEPT ![d] = Inside.pair]
      BY <1>1, <2>2, <2>3 DEF Pairs, Inside, DevicePair
    <2> QED
      BY <1>2, <1>3, <1>5, <1>6, <2>4
         DEF Channel!ApplyReturns, Channel!None, Channel!NoPair, PairOf,
             Pairs, Saved, Inside, DevicePair, NodePair
  <1>7. CASE ~(ok /\ call.node.ty = "ALL")
    <2>1. UNCHANGED <<bound9, shadow>>
      BY <1>7 DEF ApplyReturns, Indexed9, Follows
    <2>2. UNCHANGED Pairs
      BY <2>1 DEF Pairs, DevicePair
    <2> QED
      BY <1>2, <1>3, <1>5, <1>7, <2>2
         DEF Channel!ApplyReturns, Channel!None, Channel!NoPair, PairOf,
             Pairs, Saved, Inside, DevicePair, NodePair
  <1> QED BY <1>6, <1>7

(* A Capture records the device's pair in the blocks it finds again, those  *)
(* of type ALL.                                                             *)
LEMMA ChannelCaptures ==
    ASSUME TypeOK, NEW ok \in BOOLEAN, CaptureReturns(ok)
    PROVE  Channel!Next
  <1> DEFINE d == call.node.dev
             B == IF ok /\ call.node.ty = "ALL"
                  THEN {s \in FindBlock(d, call.node.token) : blk[s].ty = "ALL"}
                  ELSE {}
  <1>1. /\ call.op = "capture" /\ call' = NoCall /\ d \in Device /\ d # Null
        /\ UNCHANGED <<bound9, shadow>>
    BY NamesAssumption DEF CaptureReturns, TypeOK, Idle, Wrapper, bindVars
  <1>2. Inside.op = "capture" /\ Inside.dev = d /\ UNCHANGED Pairs
    BY <1>1 DEF Inside, Pairs, DevicePair
  <1>3. Inside' = [op |-> "none", dev |-> Null, pair |-> PairOf(Null, -1)]
    BY <1>1 DEF Inside, NoCall, NoNode, NodePair
  <1>4. \A s \in Sb : blk[s] \in Node
    BY DEF TypeOK
  <1>5. B \in SUBSET {s \in Sb : Saved[s] # PairOf(Null, -1)}
    <2> SUFFICES ASSUME NEW s \in B PROVE s \in Sb /\ Saved[s] # PairOf(Null, -1)
      OBVIOUS
    <2>1. s \in Sb /\ blk[s].dev = d /\ blk[s].ty = "ALL"
      BY DEF FindBlock, LiveBlocks
    <2> QED BY <1>1, <1>4, <2>1, PairType DEF Saved
  <1>6. ASSUME NEW s \in Sb
        PROVE  NodePair(blk[s])' = IF s \in B THEN DevicePair(d) ELSE NodePair(blk[s])
    <2>1. CASE ok /\ call.node.ty = "ALL" /\ s \in FindBlock(d, call.node.token)
      <3>1. blk'[s] = [[blk[s] EXCEPT !.ib9 = bound9[d]] EXCEPT !.indices = shadow[d]]
        BY <2>1 DEF CaptureReturns, Indexed9, Follows
      <3>2. /\ blk'[s].dev = d /\ blk'[s].ty = blk[s].ty
            /\ blk'[s].ib9 = bound9[d] /\ blk'[s].indices = shadow[d]
            /\ blk[s].dev = d
        BY <1>4, <2>1, <3>1 DEF Node, FindBlock, LiveBlocks
      <3> QED BY <1>1, <2>1, <3>2 DEF NodePair, DevicePair
    <2>2. CASE ~(ok /\ call.node.ty = "ALL" /\ s \in FindBlock(d, call.node.token))
      <3>1. blk'[s] = blk[s]
        BY <2>2 DEF CaptureReturns, Indexed9, Follows
      <3>2. s \notin B
        BY <2>2
      <3> QED BY <3>1, <3>2 DEF NodePair
    <2> QED BY <2>1, <2>2
  <1> HIDE DEF B
  <1>7. Saved' = [s \in Sb |-> IF s \in B THEN Pairs[d] ELSE Saved[s]]
    BY <1>1, <1>6 DEF Saved, Pairs
  <1>8. B \in SUBSET Sb /\ \A s \in B : Saved[s] # PairOf(Null, -1)
    BY <1>5
  <1>9. PICK C \in SUBSET Sb : C = B
    BY <1>8
  <1>10. Channel!CaptureReturns(C)
    BY <1>2, <1>3, <1>7, <1>8, <1>9
       DEF Channel!CaptureReturns, Channel!None, Channel!NoPair, PairOf,
           Pairs, Saved, Inside, DevicePair, NodePair
  <1> QED
    BY <1>10 DEF Channel!Next

(* Draws on the device go by what the game set, recorded and brought back,  *)
(* buffer and base together: every method is a step of IndexChannel or      *)
(* leaves it alone, also one that comes while another is inside D3D9.       *)
THEOREM ImplementsIndexChannel == Spec => KeepsIndexChannel
  <1>1. Init => Channel!Init /\ Returned
    <2> SUFFICES ASSUME Init PROVE Channel!Init /\ Returned
      OBVIOUS
    <2>1. Returned
      BY DEF Init, Returned
    <2>2. Pairs = [d \in Device |-> PairOf(Null, 0)]
      BY DEF Init, Pairs, DevicePair, Unbound
    <2>3. Saved = [s \in Sb |-> PairOf(Null, -1)]
      BY DEF Init, Saved, NodePair, NoNode
    <2>4. Inside = [op |-> "none", dev |-> Null, pair |-> PairOf(Null, -1)]
      BY DEF Init, Inside, NodePair, NoCall, NoNode
    <2>5. Channel!Init
      BY <2>2, <2>3, <2>4
         DEF Channel!Init, Channel!Default, Channel!None, Channel!NoPair, PairOf,
             Pairs, Saved, Inside, DevicePair, NodePair
    <2> QED BY <2>1, <2>5
  <1>2. TypeOK /\ TypeOK' /\ Returned /\ [Next]_vars
          => Channel!Next \/ UNCHANGED <<Pairs, Saved, Inside>>
    <2> SUFFICES ASSUME TypeOK, TypeOK', Returned, [Next]_vars
                 PROVE  Channel!Next \/ UNCHANGED <<Pairs, Saved, Inside>>
      OBVIOUS
    <2>1. ASSUME UNCHANGED <<bound9, shadow, blk, call>>
          PROVE  UNCHANGED <<Pairs, Saved, Inside>>
      BY <2>1, ChannelStutters
    <2>2. ASSUME NEW w \in Wrapper, Release(w) PROVE Channel!Next
      <3>1. /\ UNCHANGED <<bound9, shadow, call>> /\ Drained(w) \in SUBSET Sb
            /\ \A s \in Drained(w) : blk'[s] = NoNode
            /\ \A s \in Sb \ Drained(w) : blk'[s] = blk[s]
        BY <2>2 DEF Release, Drained, bindVars
      <3>2. Channel!Blocks
        BY <3>1, ChannelDeletes
      <3> QED BY <3>2 DEF Channel!Next
    <2>3. ASSUME NEW d \in Device, NEW t \in 1..(TokenMod - 1), DeleteStateBlock(d, t)
          PROVE  Channel!Next
      <3>1. PICK s \in FindBlock(d, t) : blk' = [blk EXCEPT ![s] = NoNode]
        BY <2>3 DEF DeleteStateBlock
      <3>2. /\ {s} \in SUBSET Sb /\ blk'[s] = NoNode
            /\ \A x \in Sb \ {s} : blk'[x] = blk[x]
            /\ UNCHANGED <<bound9, shadow, call>>
        BY <2>3, <3>1 DEF FindBlock, LiveBlocks, TypeOK, DeleteStateBlock, bindVars
      <3>3. Channel!Blocks
        BY <3>2, ChannelDeletes
      <3> QED BY <3>3 DEF Channel!Next
    <2>4. ASSUME NEW d \in Device, NEW ib \in Res \cup {Null}, NEW b \in Base,
                 SetIndices(d, ib, b)
          PROVE  Channel!Next
      <3>1. /\ Idle /\ UNCHANGED <<blk, call>>
            /\ \A c \in Device : c # d => bound9'[c] = bound9[c] /\ shadow'[c] = shadow[c]
        BY <2>4 DEF SetIndices, blockVars, TypeOK
      <3>2. Channel!Set
        BY <3>1, ChannelSet
      <3> QED BY <3>2 DEF Channel!Next
    <2>5. ASSUME NEW d \in Device, NEW left9 \in {Null, bound9[d]}, Reset(d, left9)
          PROVE  Channel!Next
      <3>1. /\ Idle /\ UNCHANGED <<blk, call>>
            /\ \A c \in Device : c # d => bound9'[c] = bound9[c] /\ shadow'[c] = shadow[c]
        BY <2>5 DEF Reset, blockVars, TypeOK
      <3>2. Channel!Set
        BY <3>1, ChannelSet
      <3> QED BY <3>2 DEF Channel!Next
    <2>6. ASSUME NEW d \in Device, NEW s \in Sb, NEW ty \in BlockType,
                 CreateStateBlock(d, s, ty)
          PROVE  Channel!Next
      BY <2>6, ChannelCreates DEF Channel!Next
    <2>7. ASSUME NEW d \in Device, NEW t \in 1..(TokenMod - 1),
                 NEW op \in {"apply", "capture"}, EnterD3D9(op, d, t)
          PROVE  Channel!Next
      BY <2>7, ChannelBegins
    <2>8. ASSUME NEW ok \in BOOLEAN, ApplyReturns(ok) PROVE Channel!Next
      BY <2>8, ChannelApplies DEF Channel!Next
    <2>9. ASSUME NEW ok \in BOOLEAN, CaptureReturns(ok) PROVE Channel!Next
      BY <2>9, ChannelCaptures
    <2> HIDE DEF TypeOK
    <2> QED
      BY <2>1, <2>2, <2>3, <2>4, <2>5, <2>6, <2>7, <2>8, <2>9
         DEF Next, CreateDevice, AddRef, GetOwner, CreateResource, GetSurfaceLevel,
             GetBackBuffer, GetIndices, blockVars, vars, bindVars
  <1>3. TypeOK /\ TypeOK' /\ Returned /\ [Next]_vars
          => Channel!Next \/ UNCHANGED
                <<[d \in Device |-> PairOf(bound9[d], shadow[d].base)],
                  [s \in Sb |-> IF blk[s].dev # Null /\ blk[s].ty = "ALL"
                                THEN PairOf(blk[s].ib9, blk[s].indices.base)
                                ELSE PairOf(Null, -1)],
                  [op |-> call.op, dev |-> call.node.dev,
                   pair |-> IF call.node.dev # Null /\ call.node.ty = "ALL"
                            THEN PairOf(call.node.ib9, call.node.indices.base)
                            ELSE PairOf(Null, -1)]>>
    BY <1>2 DEF Pairs, Saved, Inside, DevicePair, NodePair
  <1>4. Spec => []TypeOK
    BY TypeCorrect
  <1> QED
    BY <1>1, <1>3, <1>4, ReturnedInduction, PTL DEF Spec, KeepsIndexChannel, Channel!Spec
-----------------------------------------------------------------------------
(* Tokens *)

(* Only CreateStateBlock makes a node of a block that has none. *)
LEMMA BlocksAreCreated ==
    ASSUME TypeOK, [Next]_vars, NEW s \in Sb, blk[s].dev = Null, blk'[s].dev # Null
    PROVE  \E d \in Device, ty \in BlockType : CreateStateBlock(d, s, ty)
  <1>1. blk'[s] # blk[s]
    OBVIOUS
  <1>2. ASSUME NEW w \in Wrapper, Release(w) PROVE FALSE
    BY <1>2 DEF Release, NoNode, TypeOK
  <1>3. ASSUME NEW d \in Device, NEW t \in 1..(TokenMod - 1), DeleteStateBlock(d, t)
        PROVE  FALSE
    BY <1>3 DEF DeleteStateBlock, NoNode, TypeOK
  <1>4. ASSUME NEW d \in Device, NEW x \in Sb, NEW ty \in BlockType,
               CreateStateBlock(d, x, ty)
        PROVE  x = s
    BY <1>1, <1>4 DEF CreateStateBlock, TypeOK
  <1>5. ASSUME NEW ok \in BOOLEAN, CaptureReturns(ok) PROVE FALSE
    <2>1. blk[s] \in Node
      BY DEF TypeOK
    <2>2. blk'[s].dev = blk[s].dev
      BY <1>5, <2>1, CaptureEffect DEF Node
    <2> QED BY <2>2
  <1>6. CASE blk' = blk
    BY <1>6
  <1> QED
    BY <1>2, <1>3, <1>4, <1>5, <1>6 DEF Next, vars, blockVars, CreateDevice, AddRef, GetOwner,
       CreateResource, GetSurfaceLevel, GetBackBuffer, GetIndices, SetIndices, Reset, EnterD3D9,
       ApplyReturns

(* A new token is not zero and no live block's, and until the sequence      *)
(* wraps it is none that was ever minted, for any width of a token and any  *)
(* invertible factor (d3d8.rs, mint_state_block_token).                     *)
THEOREM MintedTokensAreFresh == Spec => TokensAreFresh
  <1>1. ASSUME TypeOK, TypeOK', [Next]_vars, NEW s \in Sb, blk[s].dev = Null, blk'[s].dev # Null
        PROVE  /\ blk'[s].token # 0
               /\ FindBlock(blk'[s].dev, blk'[s].token) = {}
               /\ seq' <= TokenMod =>
                     \A n \in 1..(seq - 1) : blk'[s].token # Token(n)
    <2>1. PICK d \in Device, ty \in BlockType : CreateStateBlock(d, s, ty)
      BY <1>1, BlocksAreCreated
    <2>2. PICK n \in 1..MaxSeq :
             /\ FirstMintable(d, n) /\ seq' = n + 1
             /\ blk' = [blk EXCEPT ![s] = [dev |-> d, token |-> Token(n), ty |-> ty,
                                           indices |-> shadow[d], ib9 |-> bound9[d]]]
      BY <2>1 DEF CreateStateBlock
    <2>3. blk'[s].dev = d /\ blk'[s].token = Token(n)
      BY <1>1, <2>2 DEF TypeOK
    <2>4. ASSUME seq' <= TokenMod, NEW l \in 1..(seq - 1) PROVE Token(n) # Token(l)
      <3>1. seq \in Nat /\ n >= seq /\ TokenMod \in Nat
        BY <1>1, <2>2, NumbersAssumption DEF FirstMintable, TypeOK
      <3>2. n \in 0..(TokenMod - 1) /\ l \in 0..(TokenMod - 1) /\ n # l
        BY <2>2, <2>4, <3>1, NumbersAssumption
      <3> QED BY <3>2, TokensDiffer
    <2> QED BY <2>2, <2>3, <2>4 DEF FirstMintable, Mintable
  <1>2. TypeOK /\ TypeOK' /\ [Next]_vars =>
          [\A s \in Sb : blk[s].dev = Null /\ blk'[s].dev # Null =>
              /\ blk'[s].token # 0
              /\ FindBlock(blk'[s].dev, blk'[s].token) = {}
              /\ seq' <= TokenMod =>
                    \A n \in 1..(seq - 1) : blk'[s].token # Token(n)]_vars
    BY <1>1
  <1> QED BY <1>2, TypeCorrect, PTL DEF Spec, TokensAreFresh

=============================================================================
