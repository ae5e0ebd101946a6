---------------------------- MODULE MCOperatorPlan ----------------------------
(***************************************************************************)
(* A small instance of OperatorPlan for TLC: two operators, two requests   *)
(* at a time, and two plans of which one allows one event and one device.  *)
(***************************************************************************)
EXTENDS OperatorPlanProperties, TLC

CONSTANTS o1, o2, r1, r2, e1, e2, i1, i2, small, large

MCEventLimit == (small :> 1) @@ (large :> 2)
MCDeviceLimit == (small :> 1) @@ (large :> 2)
Symmetric ==
    Permutations(Handlers) \cup Permutations(Operators)
        \cup Permutations(Installations)
=============================================================================
