------------------------------- MODULE Custody -------------------------------
(***************************************************************************)
(* Who has a recording.  The booth promises that a recording is always on  *)
(* the phone or in the cloud, as it was recorded, and that the phone lets  *)
(* go of it only when the cloud has it.                                    *)
(***************************************************************************)
CONSTANTS Videos, Cut, Whole, Nothing

VARIABLES phone,    \* what the phone holds of each video
          cloud     \* what the server stores of it

vars == <<phone, cloud>>

Init ==
    /\ phone = [v \in Videos |-> Nothing]
    /\ cloud = [v \in Videos |-> Nothing]

\* A recording begins, and what was begun may become the whole.
Record(v, c) ==
    /\ phone[v] = Nothing \/ (phone[v] = Cut /\ c = Whole)
    /\ cloud[v] = Nothing
    /\ phone' = [phone EXCEPT ![v] = c]
    /\ UNCHANGED cloud

Deliver(v) ==
    /\ phone[v] # Nothing
    /\ cloud[v] = Nothing
    /\ cloud' = [cloud EXCEPT ![v] = phone[v]]
    /\ UNCHANGED phone

Release(v) ==
    /\ cloud[v] = phone[v]
    /\ phone' = [phone EXCEPT ![v] = Nothing]
    /\ UNCHANGED cloud

Next ==
    \E v \in Videos :
        \/ \E c \in {Cut, Whole} : Record(v, c)
        \/ Deliver(v)
        \/ Release(v)

Spec == Init /\ [][Next]_vars
=============================================================================
