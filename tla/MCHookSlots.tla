----------------------------- MODULE MCHookSlots -----------------------------
(***************************************************************************)
(* An instance of HookSlots whose behaviours are each about one family of  *)
(* vtables, the plain or the pooled ones, which share nothing but the      *)
(* tools: interleaving the two families shows nothing that each alone does *)
(* not.  A third kind of behaviour is about the controller, the client of  *)
(* the pooled vtables, to which a visit is one step.                       *)
(***************************************************************************)
EXTENDS HookSlots

CONSTANTS
    PoolTool,                      \* the tools that patch pooled vtables
    Interface, Device, Hat, Stick  \* as in PadInput

VARIABLES
    family,   \* the vtables that a behaviour is about
    \* the variables of PadInput
    dpad, real, handed, created, hooked, asked, refused, entitled, read

Pad == INSTANCE PadInput

pvars == <<dpad, real, handed, created, hooked, asked, refused, entitled, read>>

MCInit ==
    /\ Init /\ Pad!Init
    /\ family \in {Plain, Pooled, {}}
    /\ family # {} => ~dpad

MCNext ==
    \/ /\ family # {}
       /\ Next
       /\ \A v \in Vtable \ family : slot'[v] = slot[v]
       /\ \A t \in Visitors : visit'[t].of \in family \cup {Null}
       /\ family = Pooled => \A f \in Tool \ PoolTool : tool'[f] = tool[f]
       /\ UNCHANGED <<family, pvars>>
    \/ family = {} /\ Pad!Next /\ UNCHANGED <<family, vars>>

MCSpec == MCInit /\ [][MCNext]_<<vars, family, pvars>>

\* The property of the controller, as PadInput states it.
HatSteers == Pad!HatSteers
=============================================================================
