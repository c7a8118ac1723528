---------------------------- MODULE IdealTransfer ----------------------------
(***************************************************************************)
(* What a sender may rely on: a payment reported completed has moved the   *)
(* money, and a payment reported failed has not and never will.  A caller  *)
(* who hears nothing knows nothing.  Payments is compared with this        *)
(* specification by a refinement mapping.                                  *)
(***************************************************************************)
CONSTANT Payment

VARIABLES moved,   \* the payments whose money has moved
          told     \* what the caller of each has heard

vars == <<moved, told>>

Init == moved = {} /\ told = [p \in Payment |-> "nothing"]

Move(p) == /\ told[p] = "nothing"
           /\ moved' = moved \cup {p}
           /\ UNCHANGED told

ReportCompleted(p) == /\ told[p] = "nothing"
                      /\ p \in moved
                      /\ told' = [told EXCEPT ![p] = "completed"]
                      /\ UNCHANGED moved

ReportFailed(p) == /\ told[p] = "nothing"
                   /\ p \notin moved
                   /\ told' = [told EXCEPT ![p] = "failed"]
                   /\ UNCHANGED moved

Next == \E p \in Payment : Move(p) \/ ReportCompleted(p) \/ ReportFailed(p)

Spec == Init /\ [][Next]_vars
=============================================================================
