---------------------------- MODULE D3D8Wrappers ----------------------------
(***************************************************************************)
(* The COM object graph that neopatch_core/src/d3d8.rs hands to a Direct3D *)
(* 8 game: one interface wrapper (D3d8), device wrappers (Device8), every  *)
(* device's embedded back-buffer wrapper and the resource wrappers         *)
(* (Resource8), over the D3D9 objects they own; and the state that one     *)
(* device shadows beside D3D9: the index-buffer binding and the list of    *)
(* state blocks, named to the game by 32-bit tokens.                       *)
(*                                                                         *)
(* The game is single threaded (d3d8.rs:1220), so a method is one step,    *)
(* except ApplyStateBlock and CaptureStateBlock, whose call into D3D9 may  *)
(* re-enter the wrapper (d3d8.rs:2280, 2301): they are two steps, between  *)
(* which state blocks may be deleted and created.                          *)
(***************************************************************************)
EXTENDS Integers, FiniteSets

CONSTANTS
    Iface,        \* the Direct3D8 interface wrapper
    Device,       \* device wrappers that CreateDevice may mint
    Res,          \* resource wrappers: boxes are leaked, so each is born once
    Embedded,     \* the back-buffer wrapper inside each device
    Obj9,         \* D3D9 resources, addresses that D3D9 may recycle
    Sb,           \* D3D9 state blocks
    Base,         \* base vertex indices the game passes to SetIndices
    Null,         \* the null pointer
    TokenMod,     \* 2^32 in the code
    TokenSpread,  \* SB_TOKEN_SPREAD
    MaxRefs,      \* bound on a game-facing count: u32::MAX in the code
    MaxSeq        \* bound on SB_SEQ

Wrapper == {Iface} \cup Device \cup Res
Count == 0..MaxRefs
EmbeddedRes == {Embedded[d] : d \in Device}

ASSUME NamesAssumption ==
    /\ Iface \notin Device \cup Res
    /\ Device \cap Res = {}
    /\ Null \notin Wrapper \cup Obj9 \cup Sb
    /\ Obj9 \cap (Wrapper \cup Sb) = {}
    /\ Sb \cap Wrapper = {}
    /\ IsFiniteSet(Device) /\ IsFiniteSet(Res)
ASSUME EmbeddedAssumption ==
    /\ Embedded \in [Device -> Res]
    /\ \A c, d \in Device : Embedded[c] = Embedded[d] => c = d
ASSUME NumbersAssumption ==
    /\ TokenMod \in Nat \ {0} /\ TokenSpread \in Nat
    /\ MaxRefs \in Nat \ {0} /\ MaxSeq \in Nat
    /\ 0 \in Base /\ Base \subseteq Nat
\* An odd factor has an inverse modulo 2^32.
ASSUME SpreadAssumption ==
    \E k \in 0..(TokenMod - 1) : (k * TokenSpread) % TokenMod = 1

VARIABLES
    refs,      \* WrapperState: the game-facing count, 0 when Dead
    inner,     \* WrapperState: the D3D9 resource (the last one when Dead)
    dev,       \* Resource8.device, Null before the wrapper exists
    kind,      \* which vtable the resource wrapper carries
    ref9,      \* references the wrappers own on each D3D9 object
    held,      \* references the game itself still has to release
    bb9,       \* D3D9: the surface GetBackBuffer(0) yields; Null: no device
    bound9,    \* D3D9: the index buffer bound to the device
    shadow,    \* Device8.indices
    blk,       \* the SbNode of a state block; dev = Null when it has none
    seq,       \* SB_SEQ
    drifted,   \* devices whose Reset logged d3d8_reset_reestablish_failed
    call       \* the state-block call that is inside D3D9, if any

gameVars == <<refs, inner, dev, kind, held>>
bindVars == <<bound9, shadow, drifted>>
blockVars == <<blk, seq, call>>
vars == <<refs, inner, dev, kind, ref9, held, bb9, bound9, shadow, blk, seq,
          drifted, call>>

Kinds == {"texture", "index buffer", "other"}
BlockType == {"ALL", "PARTIAL"}
IndicesBinding == [ib : Res \cup {Null}, base : Base]
Unbound == [ib |-> Null, base |-> 0]
Node == [dev : Device \cup {Null}, token : 0..(TokenMod - 1),
         ty : BlockType, indices : IndicesBinding, ib9 : Obj9 \cup {Null}]
NoNode == [dev |-> Null, token |-> 0, ty |-> "ALL", indices |-> Unbound,
           ib9 |-> Null]
NoCall == [op |-> "none", node |-> NoNode]
Idle == call.op = "none"

TypeOK ==
    /\ refs \in [Wrapper -> Count]
    /\ held \in [Wrapper -> Nat]
    /\ inner \in [Res -> Obj9 \cup {Null}]
    /\ dev \in [Res -> Device \cup {Null}]
    /\ kind \in [Res -> Kinds]
    /\ ref9 \in [Obj9 \cup Device \cup {Iface} \cup Sb -> Int]
    /\ bb9 \in [Device -> Obj9 \cup {Null}]
    /\ bound9 \in [Device -> Obj9 \cup {Null}]
    /\ shadow \in [Device -> IndicesBinding]
    /\ blk \in [Sb -> Node]
    /\ seq \in Nat
    /\ drifted \in SUBSET Device
    /\ call \in [op : {"none", "apply", "capture"}, node : Node]
    /\ ~Idle => call.node.dev \in Device

-----------------------------------------------------------------------------
(* Helpers *)

Live(w) == refs[w] > 0

(* The wrapper's box exists (boxes are never freed). *)
Born(w) == \/ w = Iface
           \/ w \in Device /\ bb9[w] # Null
           \/ w \in Res /\ dev[w] # Null

PlusRefUnguarded(w) == refs[w] + 1   \* faulty: no Dead check

(* What wrap_add_ref leaves in the count: a dead wrapper stays dead. *)
PlusRef(w) == IF refs[w] = 0 THEN 0 ELSE refs[w] + 1

(* The wrapper whose reference a dying wrapper gives back. *)
Owner(w) == IF w \in Res THEN dev[w] ELSE IF w \in Device THEN Iface ELSE Null

(* An address D3D9 may hand out: nothing of ours and nothing of its own     *)
(* refers to the object any more.                                          *)
Free9(o) ==
    /\ ref9[o] = 0
    /\ \A d \in Device : Live(d) => bb9[d] # o /\ bound9[d] # o
    /\ \A s \in Sb : blk[s].dev # Null => blk[s].ib9 # o
    /\ call.node.ib9 # o

LiveBlocks(d) == {s \in Sb : blk[s].dev = d}
FindBlock(d, t) == {s \in LiveBlocks(d) : blk[s].token = t /\ t # 0}

Token(n) == (n * TokenSpread) % TokenMod

-----------------------------------------------------------------------------
(* hook_direct3dcreate8: the interface wrapper owns the D3D9 interface. *)
Init ==
    /\ refs = [w \in Wrapper |-> IF w = Iface THEN 1 ELSE 0]
    /\ held = refs
    /\ inner = [r \in Res |-> Null]
    /\ dev = [r \in Res |-> Null]
    /\ kind = [r \in Res |-> "other"]
    /\ ref9 = [o \in Obj9 \cup Device \cup {Iface} \cup Sb |->
                  IF o = Iface THEN 1 ELSE 0]
    /\ bb9 = [d \in Device |-> Null]
    /\ bound9 = [d \in Device |-> Null]
    /\ shadow = [d \in Device |-> Unbound]
    /\ blk = [s \in Sb |-> NoNode]
    /\ seq = 1
    /\ drifted = {}
    /\ call = NoCall

(* IDirect3D8::CreateDevice when D3D9 succeeds.  The device takes a         *)
(* reference on its parent and its embedded back-buffer wrapper is dead.    *)
CreateDevice(d) ==
    /\ Idle /\ Live(Iface) /\ refs[Iface] < MaxRefs
    /\ bb9[d] = Null
    /\ \E o \in Obj9 : Free9(o) /\ bb9' = [bb9 EXCEPT ![d] = o]
    /\ refs' = [refs EXCEPT ![d] = 1, ![Iface] = PlusRef(Iface)]
    /\ held' = [held EXCEPT ![d] = 1]
    /\ ref9' = [ref9 EXCEPT ![d] = 1]
    /\ dev' = [dev EXCEPT ![Embedded[d]] = d]
    /\ UNCHANGED <<inner, kind, bindVars, blockVars>>

(* AddRef returns 0 on a dead wrapper: the game holds nothing more. *)
AddRef(w) ==
    /\ Idle /\ Born(w) /\ refs[w] < MaxRefs
    /\ refs' = [refs EXCEPT ![w] = PlusRef(w)]
    /\ held' = [held EXCEPT ![w] = IF Live(w) THEN @ + 1 ELSE @]
    /\ UNCHANGED <<inner, dev, kind, ref9, bb9, bindVars, blockVars>>

(* Resource8::GetDevice and Device8::GetDirect3D: a reference on the        *)
(* backpointer's target, which the method does not examine.                 *)
GetOwner(w) ==
    /\ Idle /\ Live(w) /\ Owner(w) # Null
    /\ refs[Owner(w)] < MaxRefs
    /\ refs' = [refs EXCEPT ![Owner(w)] = PlusRef(Owner(w))]
    /\ held' = [held EXCEPT ![Owner(w)] = @ + 1]
    /\ UNCHANGED <<inner, dev, kind, ref9, bb9, bindVars, blockVars>>

LosingOneLevel(w) ==   \* faulty: a device dying of its last resource keeps its parent
    {w} \cup {x \in Wrapper : refs[w] = 1 /\ x = Owner(w)}

(* The wrappers that lose a reference when the game releases w: w itself,   *)
(* the owner of w when w dies of it, and the owner's owner when that dies.  *)
Losing(w) ==
    {w} \cup {x \in Wrapper :
                 \/ refs[w] = 1 /\ x = Owner(w)
                 \/ /\ refs[w] = 1 /\ Owner(w) \in Wrapper
                    /\ refs[Owner(w)] = 1 /\ x = Owner(Owner(w))}

Dying(w) == {x \in Losing(w) : refs[x] = 1}

DrainedNone(w) == {}   \* faulty: device8_release without drain_state_blocks

(* The state blocks that die with a device. *)
Drained(w) == {s \in Sb : blk[s].dev \in Dying(w) \cap Device}

(* Release by a game that holds a reference on w, or that releases a dead   *)
(* wrapper once more, which has no effect.  A wrapper that dies releases    *)
(* the one D3D9 reference it owns, a dying device also drains its state     *)
(* blocks, and both then give back the reference on their owner.            *)
Release(w) ==
    /\ Idle /\ Born(w) /\ (held[w] > 0 \/ ~Live(w))
    /\ refs' = [x \in Wrapper |->
                   IF x \in Losing(w) /\ refs[x] > 0 THEN refs[x] - 1
                   ELSE refs[x]]
    /\ held' = [held EXCEPT ![w] = IF Live(w) THEN @ - 1 ELSE @]
    /\ ref9' = [o \in DOMAIN ref9 |->
                   IF \/ o \in Dying(w)
                      \/ \E r \in Dying(w) \cap Res : inner[r] = o
                      \/ o \in Drained(w)
                   THEN ref9[o] - 1 ELSE ref9[o]]
    /\ blk' = [s \in Sb |-> IF s \in Drained(w) THEN NoNode ELSE blk[s]]
    /\ UNCHANGED <<inner, dev, kind, bb9, bindVars, seq, call>>

(* Resource8::new_raw: the wrapper r, born with one game reference, takes   *)
(* over the reference D3D9 returned on o and takes one on its device.       *)
Wrap(r, d, o, k) ==
    /\ dev[r] = Null /\ r \notin EmbeddedRes /\ refs[d] < MaxRefs
    /\ refs' = [refs EXCEPT ![r] = 1, ![d] = PlusRef(d)]
    /\ held' = [held EXCEPT ![r] = 1]
    /\ inner' = [inner EXCEPT ![r] = o]
    /\ dev' = [dev EXCEPT ![r] = d]
    /\ kind' = [kind EXCEPT ![r] = k]
    /\ ref9' = [ref9 EXCEPT ![o] = @ + 1]

(* The Create* methods that succeed, and GetBackBuffer of another surface   *)
(* than the one the device embeds: a fresh D3D9 object in a fresh wrapper.  *)
CreateResource(d, r, k) ==
    /\ Idle /\ Live(d)
    /\ \E o \in Obj9 : Free9(o) /\ Wrap(r, d, o, k)
    /\ UNCHANGED <<bb9, bindVars, blockVars>>

(* Texture8::GetSurfaceLevel: every call wraps the level anew.  A level's   *)
(* references count on the texture, as in D3D9.                             *)
GetSurfaceLevel(t, r) ==
    /\ Idle /\ Live(t) /\ kind[t] = "texture"
    /\ dev[t] # Null /\ Wrap(r, dev[t], inner[t], "other")
    /\ UNCHANGED <<bb9, bindVars, blockVars>>

-----------------------------------------------------------------------------
(* The embedded back-buffer wrapper: Resource8::adopt *)

(* A dead wrapper is revived for a new live period. *)
AdoptDead(d, e) ==
    /\ ~Live(e) /\ refs[d] < MaxRefs
    /\ refs' = [refs EXCEPT ![e] = 1, ![d] = PlusRef(d)]
    /\ held' = [held EXCEPT ![e] = 1]
    /\ inner' = [inner EXCEPT ![e] = bb9[d]]
    /\ ref9' = [ref9 EXCEPT ![bb9[d]] = @ + 1]

(* A live wrapper of the same surface: the reference D3D9 just took is      *)
(* redundant and is given back, and the game's count grows.                 *)
AdoptSame(d, e) ==
    /\ Live(e) /\ inner[e] = bb9[d] /\ refs[e] < MaxRefs
    /\ refs' = [refs EXCEPT ![e] = @ + 1]
    /\ held' = [held EXCEPT ![e] = @ + 1]
    /\ UNCHANGED <<inner, ref9>>

(* A live wrapper of another surface: refused, the incoming reference is    *)
(* released and the wrapper left untouched.                                 *)
AdoptDivergent(d, e) ==
    /\ Live(e) /\ inner[e] # bb9[d]
    /\ UNCHANGED <<refs, held, inner, ref9>>

GetBackBuffer(d) ==
    /\ Idle /\ Live(d)
    /\ \/ AdoptDead(d, Embedded[d])
       \/ AdoptSame(d, Embedded[d])
       \/ AdoptDivergent(d, Embedded[d])
    /\ UNCHANGED <<dev, kind, bb9, bindVars, blockVars>>

-----------------------------------------------------------------------------
(* The index-buffer binding and its shadow *)

(* What the game may pass and unwrap8 takes: a dead wrapper is refused.     *)
Bindable(d, ib) ==
    ib # Null => Live(ib) /\ kind[ib] = "index buffer" /\ dev[ib] = d

(* Device8::SetIndices when D3D9 accepts it. *)
SetIndices(d, ib, base) ==
    /\ Idle /\ Live(d) /\ Bindable(d, ib)
    /\ bound9' = [bound9 EXCEPT ![d] = IF ib = Null THEN Null ELSE inner[ib]]
    /\ shadow' = [shadow EXCEPT ![d] = [ib |-> ib, base |-> base]]
    /\ UNCHANGED <<gameVars, ref9, bb9, drifted, blockVars>>

(* Device8::GetIndices of a bound buffer: one more game reference, unless   *)
(* the game has released the wrapper to death meanwhile.                    *)
GetIndices(d) ==
    /\ Idle /\ Live(d) /\ shadow[d].ib # Null
    /\ Live(shadow[d].ib) /\ refs[shadow[d].ib] < MaxRefs
    /\ refs' = [refs EXCEPT ![shadow[d].ib] = PlusRef(shadow[d].ib)]
    /\ held' = [held EXCEPT ![shadow[d].ib] = @ + 1]
    /\ UNCHANGED <<inner, dev, kind, ref9, bb9, bindVars, blockVars>>

(* Device8::Reset when D3D9 succeeds: ResetEx keeps the binding, a plain    *)
(* Reset clears it (left9), and the back buffer may be another surface.     *)
(* The handler then unbinds through its own SetIndices; when D3D9 refuses   *)
(* that, a warning is all that happens.                                     *)
Reset(d, left9) ==
    /\ Idle /\ Live(d)
    /\ bb9' = bb9 \/ \E o \in Obj9 : Free9(o) /\ bb9' = [bb9 EXCEPT ![d] = o]
    /\ \/ /\ bound9' = [bound9 EXCEPT ![d] = Null]
          /\ shadow' = [shadow EXCEPT ![d] = Unbound]
          /\ drifted' = drifted
       \/ /\ bound9' = [bound9 EXCEPT ![d] = left9]
          /\ shadow' = shadow
          /\ drifted' = drifted \cup {d}
    /\ UNCHANGED <<gameVars, ref9, blockVars>>

-----------------------------------------------------------------------------
(* State blocks *)

MintableIfUsed(d, n) == Token(n) # 0   \* faulty: live tokens are not looked at

(* mint_state_block_token: the next element of the sequence that is not     *)
(* zero and not the token of a block on this device.                        *)
Mintable(d, n) == Token(n) # 0 /\ FindBlock(d, Token(n)) = {}

FirstMintableEver(d, n) ==   \* faulty: the scan restarts, tokens come back
    Mintable(d, n) /\ \A m \in 1..(n - 1) : ~Mintable(d, m)

FirstMintable(d, n) ==
    n >= seq /\ Mintable(d, n) /\ \A m \in seq..(n - 1) : ~Mintable(d, m)

(* CreateStateBlock when D3D9 succeeds, possibly inside a Capture: D3D9     *)
(* captures its own binding in the block, the node the shadow.              *)
CreateStateBlock(d, s, ty) ==
    /\ call.op # "apply" /\ Live(d) /\ blk[s].dev = Null
    /\ \E n \in 1..MaxSeq :
          /\ FirstMintable(d, n)
          /\ seq' = n + 1
          /\ blk' = [blk EXCEPT ![s] =
                        [dev |-> d, token |-> Token(n), ty |-> ty,
                         indices |-> shadow[d], ib9 |-> bound9[d]]]
    /\ ref9' = [ref9 EXCEPT ![s] = 1]
    /\ UNCHANGED <<gameVars, bb9, bindVars, call>>

(* DeleteStateBlock with a live token, possibly re-entrant. *)
DeleteStateBlock(d, t) ==
    /\ Live(d)
    /\ \E s \in FindBlock(d, t) :
          /\ blk' = [blk EXCEPT ![s] = NoNode]
          /\ ref9' = [ref9 EXCEPT ![s] = @ - 1]
    /\ UNCHANGED <<gameVars, bb9, bindVars, seq, call>>

(* ApplyStateBlock and CaptureStateBlock up to the call into D3D9: the node *)
(* is copied out, for a re-entrant delete would free it.                    *)
EnterD3D9(op, d, t) ==
    /\ Idle /\ Live(d)
    /\ \E s \in FindBlock(d, t) : call' = [op |-> op, node |-> blk[s]]
    /\ UNCHANGED <<gameVars, ref9, bb9, bindVars, blk, seq>>

(* D3D9 itself has restored or recaptured an index buffer. *)
Indexed9(ok) == ok /\ call.node.ty = "ALL"

(* Whether the wrapper's pair follows. *)
Follows(ok) == ok /\ call.node.ty = "ALL"

ApplyReturnsHalf(ok) ==   \* faulty: the base vertex index is not restored
    LET d == call.node.dev IN
    /\ call.op = "apply" /\ call' = NoCall
    /\ bound9' = IF Indexed9(ok) THEN [bound9 EXCEPT ![d] = call.node.ib9]
                 ELSE bound9
    /\ shadow' = IF Follows(ok) THEN [shadow EXCEPT ![d].ib = call.node.indices.ib]
                 ELSE shadow
    /\ UNCHANGED <<gameVars, ref9, bb9, drifted, blk, seq>>

(* Apply returns.  D3D9 has restored the binding captured in an ALL block,  *)
(* and the shadow follows with the pair copied out before the call.         *)
ApplyReturns(ok) ==
    LET d == call.node.dev IN
    /\ call.op = "apply" /\ call' = NoCall
    /\ bound9' = IF Indexed9(ok) THEN [bound9 EXCEPT ![d] = call.node.ib9]
                 ELSE bound9
    /\ shadow' = IF Follows(ok) THEN [shadow EXCEPT ![d] = call.node.indices]
                 ELSE shadow
    /\ UNCHANGED <<gameVars, ref9, bb9, drifted, blk, seq>>

CaptureReturnsStale(ok) ==   \* faulty: the node keeps its old pair
    LET d == call.node.dev IN
    /\ call.op = "capture" /\ call' = NoCall
    /\ blk' = [s \in Sb |->
                  IF Indexed9(ok) /\ s \in FindBlock(d, call.node.token)
                  THEN [blk[s] EXCEPT !.ib9 = bound9[d]] ELSE blk[s]]
    /\ UNCHANGED <<gameVars, ref9, bb9, bindVars, seq>>

(* Capture returns.  D3D9 has redefined the block, if it is still there;    *)
(* the node is looked up again and takes the shadow.                        *)
CaptureReturns(ok) ==
    LET d == call.node.dev
        found == FindBlock(d, call.node.token)
        D3D9(n) == IF Indexed9(ok) THEN [n EXCEPT !.ib9 = bound9[d]] ELSE n
        Node8(n) == IF Follows(ok) THEN [n EXCEPT !.indices = shadow[d]] ELSE n
    IN
    /\ call.op = "capture" /\ call' = NoCall
    /\ blk' = [s \in Sb |-> IF s \in found THEN Node8(D3D9(blk[s])) ELSE blk[s]]
    /\ UNCHANGED <<gameVars, ref9, bb9, bindVars, seq>>

-----------------------------------------------------------------------------
Next ==
    \/ \E d \in Device : CreateDevice(d)
    \/ \E w \in Wrapper : AddRef(w) \/ GetOwner(w) \/ Release(w)
    \/ \E d \in Device, r \in Res, k \in Kinds : CreateResource(d, r, k)
    \/ \E t, r \in Res : GetSurfaceLevel(t, r)
    \/ \E d \in Device : GetBackBuffer(d) \/ GetIndices(d)
    \/ \E d \in Device, ib \in Res \cup {Null}, b \in Base :
          SetIndices(d, ib, b)
    \/ \E d \in Device : \E left9 \in {Null, bound9[d]} : Reset(d, left9)
    \/ \E d \in Device, s \in Sb, ty \in BlockType : CreateStateBlock(d, s, ty)
    \/ \E d \in Device, t \in 1..(TokenMod - 1) :
          \/ DeleteStateBlock(d, t)
          \/ EnterD3D9("apply", d, t)
          \/ EnterD3D9("capture", d, t)
    \/ \E ok \in BOOLEAN : ApplyReturns(ok) \/ CaptureReturns(ok)

Spec == Init /\ [][Next]_vars

-----------------------------------------------------------------------------
(* Properties of the reference counts *)

LiveRes(d) == {r \in Res : Live(r) /\ dev[r] = d}
LiveDevices == {d \in Device : Live(d)}
Wrapping(o) == {r \in Res : Live(r) /\ inner[r] = o}

(* Every game-facing count is the references the game still holds plus one  *)
(* for each live wrapper that keeps this one alive: new_raw, adopt and      *)
(* CreateDevice take exactly the references that the releases give back.    *)
RefsAccounted ==
    /\ \A r \in Res : refs[r] = held[r]
    /\ \A d \in Device : refs[d] = held[d] + Cardinality(LiveRes(d))
    /\ refs[Iface] = held[Iface] + Cardinality(LiveDevices)

(* "The wrapper owns exactly one reference on the wrapped surface for its   *)
(* whole Alive period" (d3d8.rs:737): on every D3D9 object the wrappers     *)
(* together own one reference per live wrapper of it, neither leaked nor    *)
(* released twice, and one per state block node.                            *)
OneReferenceEach ==
    /\ \A o \in Obj9 : ref9[o] = Cardinality(Wrapping(o))
    /\ \A w \in Device \cup {Iface} : ref9[w] = IF Live(w) THEN 1 ELSE 0
    /\ \A s \in Sb : ref9[s] = IF blk[s].dev # Null THEN 1 ELSE 0

(* "A live receiver's backpointer target is itself alive" (d3d8.rs:824,     *)
(* 1536), whatever order the game releases things in: GetDevice and         *)
(* GetDirect3D never hand out a dead wrapper.                               *)
OwnersAlive ==
    \A w \in Wrapper : Live(w) /\ w # Iface =>
        Owner(w) \in Wrapper /\ Live(Owner(w))

(* State blocks do not survive their device (d3d8.rs:1504): a node belongs  *)
(* to a live device.                                                        *)
BlocksDieWithDevice ==
    \A s \in Sb : blk[s].dev # Null => blk[s].dev \in Device /\ Live(blk[s].dev)

(* Once the game has released everything it was given, no D3D9 object is    *)
(* kept alive by a wrapper or by a state block the game never deleted.      *)
NothingLeaked ==
    (\A w \in Wrapper : held[w] = 0) => \A o \in DOMAIN ref9 : ref9[o] = 0

(* A dead wrapper is never resurrected (d3d8.rs:633), except the embedded   *)
(* back buffer, and that only while its device is alive.                    *)
DeadStaysDead ==
    [][\A w \in Wrapper : Born(w) /\ ~Live(w) /\ Live(w)' =>
          w \in EmbeddedRes /\ Live(dev[w])]_vars

(* A live wrapper never changes the D3D9 object under the references the    *)
(* game already holds (d3d8.rs:742).                                        *)
NeverRehomed ==
    [][\A r \in Res : Live(r) /\ Live(r)' => inner'[r] = inner[r]]_vars

-----------------------------------------------------------------------------
(* Properties of the shadowed index binding and of state blocks *)

(* b, the pair the wrapper remembers, names the buffer o that D3D9 holds. *)
Names(b, o) == IF b.ib = Null THEN o = Null ELSE o = inner[b.ib]

(* The shadow that GetIndices and DrawIndexedPrimitive go by is the binding *)
(* D3D9 really has, across SetIndices, Reset and the application of blocks  *)
(* captured before or after any of them; a device is exempt only once its   *)
(* Reset has logged that the binding could not be re-established.           *)
ShadowCoherent ==
    \A d \in Device : Live(d) /\ d \notin drifted => Names(shadow[d], bound9[d])

(* The pair a node of an ALL block holds is the one D3D9 captured in the    *)
(* block, so that applying it cannot part the shadow from the binding.      *)
SnapshotsCoherent ==
    \A s \in Sb : blk[s].dev # Null /\ blk[s].dev \notin drifted
                  /\ blk[s].ty = "ALL" =>
        Names(blk[s].indices, blk[s].ib9)

(* The buffer that the shadow names is D3D9's own as long as it is bound:   *)
(* the address was not recycled for another resource while the game-facing  *)
(* wrapper was dead.                                                        *)
BoundNotRecycled ==
    \A d \in Device, r \in Res :
        shadow[d].ib # Null /\ Live(d) /\ d \notin drifted /\ Live(r)
        /\ inner[r] = bound9[d] => r = shadow[d].ib

(* A new block's token is not zero, which ApplyStateBlock takes for "no      *)
(* block", and names no other block of its device, also past the wrap of    *)
(* the 32-bit sequence (mint_token, find_node).  And "tokens from released  *)
(* devices should not be reused" (d3d8.rs:1273), nor those of deleted       *)
(* blocks: until the sequence wraps, it is none that was ever minted.       *)
TokensAreFresh ==
    [][\A s \in Sb : blk[s].dev = Null /\ blk'[s].dev # Null =>
          /\ blk'[s].token # 0
          /\ FindBlock(blk'[s].dev, blk'[s].token) = {}
          /\ seq' <= TokenMod =>
                \A n \in 1..(seq - 1) : blk'[s].token # Token(n)]_vars

-----------------------------------------------------------------------------
(* The pair a draw goes by has its halves in two places. *)
PairOf(buffer, base) == [buffer |-> buffer, base |-> base]

Channel == INSTANCE IndexChannel WITH
    Block <- Sb, Buffer <- Obj9, BaseIndex <- Base, NoBuffer <- Null,
    pair <- [d \in Device |-> PairOf(bound9[d], shadow[d].base)],
    saved <- [s \in Sb |->
                 IF blk[s].dev # Null /\ blk[s].ty = "ALL"
                 THEN PairOf(blk[s].ib9, blk[s].indices.base)
                 ELSE PairOf(Null, -1)],
    inside <- [op |-> call.op, dev |-> call.node.dev,
               pair |-> IF call.node.dev # Null /\ call.node.ty = "ALL"
                        THEN PairOf(call.node.ib9, call.node.indices.base)
                        ELSE PairOf(Null, -1)]

(* The wrapper implements the native D3D8 index channel: buffer and base    *)
(* are set, recorded and restored together although D3D9 has only one half. *)
KeepsIndexChannel == Channel!Spec
=============================================================================
