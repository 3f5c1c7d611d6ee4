----------------------- MODULE MCInterSliceScheduler -----------------------
(* A cell of three RBs and two slices, TDD with two DL and two UL slots:    *)
(* PUSCH slot 2 is reached from slot 0 and again from slot 1.               *)
EXTENDS InterSliceScheduler, TLC

Budget(lo, hi, prio) == [min_prb |-> lo, max_prb |-> hi, priority |-> prio]

(* One slice without limits, one configured with its limits out of order.   *)
MCInitCfg == 1 :> Budget(0, 3, 1) @@ 2 :> Budget(2, 1, 0)

(* Both slices with minima; one slice only, with limits out of order and    *)
(* out of range; no slice at all.                                           *)
MCBudgetMsgs == {1 :> Budget(1, 3, 0) @@ 2 :> Budget(1, 3, 0),
                 2 :> Budget(2, 1, 9), 2 :> Budget(1, 2, 0),
                 << >>, Garbled}

MCBearerSets == {{}, {1}, {1, 2}}
MCPuschDelays == 0 :> {2} @@ 1 :> {1, 2} @@ 2 :> {} @@ 3 :> {}
=============================================================================
