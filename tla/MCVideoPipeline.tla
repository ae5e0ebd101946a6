--------------------------- MODULE MCVideoPipeline ---------------------------
(***************************************************************************)
(* Small instances of VideoPipeline for TLC: one operator, and either one  *)
(* video that is uploaded under two keys, in one part or in two, or two     *)
(* videos under a key each.                                                *)
(***************************************************************************)
EXTENDS VideoPipelineProperties, TLC

CONSTANTS o1, e1, t1, t2, v1, v2, k1, k2, w1, w2

Request(k, v, t) ==
    [operator |-> o1, key |-> k, video |-> v, event |-> e1, token |-> t,
     size |-> 2, sha |-> (0 :> "head")]

TwoParts(k) ==
    [Request(k, v1, t1) EXCEPT !.size = 3, !.sha = (0 :> "head") @@ (1 :> "tail")]

\* The only part, or the first of two, and the second with the right or the
\* wrong bytes.
MCBodies == {[size |-> 2, tag |-> "head"]}
TwoPartBodies ==
    MCBodies \cup {[size |-> 1, tag |-> "tail"], [size |-> 1, tag |-> "head"]}
MCOwnerOf == (e1 :> o1)
MCEventOf == (t1 :> e1) @@ (t2 :> e1)
MCQuota == (o1 :> 4)
OneVideoTwice == {Request(k1, v1, t1), Request(k2, v1, t1)}
TwoPartsTwice == {TwoParts(k1), TwoParts(k2)}
TwoVideos == {Request(k1, v1, t1), Request(k2, v2, t2)}

\* Neither workers nor, in OneVideoTwice, keys are told apart.
SameWorkersAndKeys == Permutations({k1, k2}) \cup Permutations({w1, w2})

\* TwoVideos stays the same when the videos change places with their keys
\* and tokens.
Swap ==
    {(k1 :> k2) @@ (k2 :> k1) @@ (v1 :> v2) @@ (v2 :> v1) @@
     (t1 :> t2) @@ (t2 :> t1)}
=============================================================================
