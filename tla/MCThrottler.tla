----------------------------- MODULE MCThrottler -----------------------------
(* Small instances of Throttler for TLC. *)
EXTENDS Throttler, TLC

CONSTANTS w1, w2

TwoAndOne == (w1 :> 2) @@ (w2 :> 1)
ThreeEach == [w \in Workers |-> 3]

============================================================================
