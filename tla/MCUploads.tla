------------------------------ MODULE MCUploads ------------------------------
(***************************************************************************)
(* A small instance of Uploads for TLC: an operator with two videos and    *)
(* two keys, and a second operator who asks for the first one's video and  *)
(* token.                                                                  *)
(***************************************************************************)
EXTENDS UploadsProperties, TLC

CONSTANTS o1, o2, e1, e2, t1, t2, t3, v1, v2, k1, k2

Request(o, k, v, e, t, size, sha) ==
    [operator |-> o, key |-> k, video |-> v, event |-> e, token |-> t,
     size |-> size, sha |-> sha]

TwoParts == (0 :> "head") @@ (1 :> "tail")
OnePart == (0 :> "head")
NotMp4 == (0 :> "tail")

\* A full part, and the short part with the right or the wrong bytes.
MCBodies == {[size |-> 2, tag |-> "head"], [size |-> 1, tag |-> "tail"],
             [size |-> 1, tag |-> "head"]}

MCOwnerOf == (e1 :> o1) @@ (e2 :> o2)
MCEventOf == (t1 :> e1) @@ (t2 :> e1) @@ (t3 :> e2)
MCQuota == (o1 :> 4) @@ (o2 :> 4)

\* o1: v1 in two parts under two keys; v2 in one part, once as a file that is
\* no MP4, once too big for the quota beside v1, once with the token of v1.
\* o2: v1 under its own token, and a token of o1.
MCRequests ==
    {Request(o1, k1, v1, e1, t1, 3, TwoParts),
     Request(o1, k2, v1, e1, t1, 3, TwoParts),
     Request(o1, k2, v2, e1, t2, 1, NotMp4),
     Request(o1, k2, v2, e1, t2, 2, OnePart),
     Request(o1, k2, v2, e1, t1, 1, NotMp4),
     Request(o2, k1, v1, e2, t3, 1, NotMp4),
     Request(o2, k1, v2, e1, t2, 2, OnePart)}
=============================================================================
