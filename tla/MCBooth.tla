------------------------------- MODULE MCBooth -------------------------------
(***************************************************************************)
(* A small instance of Booth for TLC: one booth with one video, whose      *)
(* whole recording has two parts and whose cut one has one, and two        *)
(* tokens, of which the phone has one or none when it goes offline.  The   *)
(* plan has room for the whole recording (MCQuota) or only for the cut one *)
(* (FullQuota).                                                            *)
(***************************************************************************)
EXTENDS BoothProperties, TLC

CONSTANTS o1, e1, t1, t2, v1, k1

MCKeyOf == (v1 :> k1)
MCSizeOf == (Whole :> 3) @@ (Cut :> 2)
MCShaOf == (Whole :> ((0 :> "head") @@ (1 :> "tail"))) @@ (Cut :> (0 :> "head"))
MCOwnerOf == (e1 :> o1)
MCEventOf == [t \in Tokens |-> e1]
MCQuota == (o1 :> 3)
FullQuota == (o1 :> 2)
MCBodies == {[size |-> 2, tag |-> "head"], [size |-> 1, tag |-> "tail"]}
MCPools == {{}, {t1}}
NoPools == {{}}
MCRequests == {RequestFor(v, t, c) : v \in Videos, t \in Tokens, c \in {Cut, Whole}}
=============================================================================
