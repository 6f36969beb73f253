------------------------- MODULE MC_StateDiffTracer -------------------------
(* on_reward_granted computes each address's entry from that address     *)
(* alone, so one address shows every branch; two transactions let the    *)
(* second start from what IntraBlockStateTracer recorded of the first.    *)
EXTENDS StateDiffTracer

CONSTANTS a1, k1

MCAddrs == {a1}
MCKeys == {k1}
=============================================================================
