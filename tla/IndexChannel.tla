---------------------------- MODULE IndexChannel ----------------------------
(***************************************************************************)
(* What Direct3D 8 promises a game about its indexed draws: the device has *)
(* one pair, an index buffer with a base vertex index, which SetIndices    *)
(* replaces as a whole, a state block may record as a whole and applying   *)
(* the block brings back as a whole.  D3D9 keeps only the buffer half      *)
(* (d3d8.rs:2445), so the wrapper has to keep the two together.            *)
(***************************************************************************)
EXTENDS Integers

CONSTANTS Device, Block, Buffer, BaseIndex, NoBuffer

VARIABLES
    pair,    \* the pair a draw on the device goes by
    saved,   \* the pair recorded in a block; NoPair: no index state in it
    inside   \* the Apply or Capture that has begun and not returned

Pair == [buffer : Buffer \cup {NoBuffer}, base : BaseIndex]
Default == [buffer |-> NoBuffer, base |-> 0]
NoPair == [buffer |-> NoBuffer, base |-> -1]
None == [op |-> "none", dev |-> NoBuffer, pair |-> NoPair]

Init ==
    /\ pair = [d \in Device |-> Default]
    /\ saved = [b \in Block |-> NoPair]
    /\ inside = None

(* SetIndices, or Reset back to the default; a plain Reset whose            *)
(* re-establishing call failed has lost the buffer and kept the base.       *)
Set ==
    /\ inside = None
    /\ UNCHANGED <<saved, inside>>
    /\ \E d \in Device, p \in Pair : pair' = [pair EXCEPT ![d] = p]

(* CreateStateBlock and DeleteStateBlock; several blocks go when the device *)
(* dies.                                                                   *)
Create(b, p) == saved' = [saved EXCEPT ![b] = p]

Delete(B) == saved' = [b \in Block |-> IF b \in B THEN NoPair ELSE saved[b]]

Blocks ==
    /\ UNCHANGED <<pair, inside>>
    /\ \/ \E b \in Block, d \in Device : Create(b, pair[d]) \/ Create(b, NoPair)
       \/ \E B \in SUBSET Block : Delete(B)

Begin(op, d, b) ==
    /\ inside = None
    /\ inside' = [op |-> op, dev |-> d, pair |-> saved[b]]
    /\ UNCHANGED <<pair, saved>>

ApplyReturns(ok) ==
    /\ inside.op = "apply" /\ inside' = None
    /\ pair' = IF ok /\ inside.pair # NoPair
               THEN [pair EXCEPT ![inside.dev] = inside.pair] ELSE pair
    /\ UNCHANGED saved

CaptureReturns(B) ==
    /\ inside.op = "capture" /\ inside' = None
    /\ \A b \in B : saved[b] # NoPair
    /\ saved' = [b \in Block |-> IF b \in B THEN pair[inside.dev] ELSE saved[b]]
    /\ UNCHANGED pair

Next ==
    \/ Set
    \/ Blocks
    \/ \E op \in {"apply", "capture"}, d \in Device, b \in Block : Begin(op, d, b)
    \/ \E ok \in BOOLEAN : ApplyReturns(ok)
    \/ \E B \in SUBSET Block : CaptureReturns(B)

Spec == Init /\ [][Next]_<<pair, saved, inside>>
=============================================================================
