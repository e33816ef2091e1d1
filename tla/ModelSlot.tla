----------------------------- MODULE ModelSlot -----------------------------
(***************************************************************************)
(* What the detector promises of its model, to a client that only sees the *)
(* replies: in one life of the process a model is installed at most once   *)
(* and never replaced, and whatever the detector says about a name being   *)
(* loaded is true when it says it, and stays true until the process ends.  *)
(***************************************************************************)
CONSTANTS Models,   \* [name |-> ..., blob |-> ...]
          NoModel   \* nothing installed

VARIABLES slot,     \* the installed model, or NoModel
          said      \* the last thing said: [name, loaded], or NoModel at first

vars == <<slot, said>>

Installed(name) == slot # NoModel /\ slot.name = name

Init == slot = NoModel /\ said = NoModel

Install ==
    /\ slot = NoModel
    /\ slot' \in Models
    /\ UNCHANGED said

\* A claim to have loaded `name` is true; a denial may also come from a failed attempt.
Say ==
    /\ \E name \in {m.name : m \in Models}, loaded \in BOOLEAN :
        /\ loaded = Installed(name)
        /\ said' = [name |-> name, loaded |-> loaded]
    /\ UNCHANGED slot

\* The process exits and a new one starts.
NewLife ==
    /\ slot' = NoModel /\ said' = NoModel

Next == Install \/ Say \/ NewLife

Spec == Init /\ [][Next]_vars
=============================================================================
