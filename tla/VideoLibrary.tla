---------------------------- MODULE VideoLibrary ----------------------------
(***************************************************************************)
(* What resumable uploads promise to a booth that sends its videos: a      *)
(* video enters the library once, whole and with a content that was        *)
(* declared for it and is playable, and it is acknowledged only then.      *)
(* Sessions, parts, retries, crashes and the second writing of the same    *)
(* file are invisible here.                                                *)
(***************************************************************************)
CONSTANTS Videos,
          Contents,     \* Contents[v]: what v may turn out to be
          Nothing

VARIABLES library,      \* the content of each video, or Nothing
          acknowledged  \* videos whose upload a client was told is complete

vars == <<library, acknowledged>>

Init ==
    /\ library = [v \in Videos |-> Nothing]
    /\ acknowledged = {}

Publish(v) ==
    /\ library[v] = Nothing
    /\ \E c \in Contents[v] : library' = [library EXCEPT ![v] = c]
    /\ UNCHANGED acknowledged

Acknowledge(v) ==
    /\ library[v] # Nothing
    /\ acknowledged' = acknowledged \cup {v}
    /\ UNCHANGED library

Next == \E v \in Videos : Publish(v) \/ Acknowledge(v)

Spec == Init /\ [][Next]_vars
=============================================================================
