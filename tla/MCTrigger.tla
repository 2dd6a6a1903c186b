----------------------------- MODULE MCTrigger -----------------------------
(* Instances of Trigger: two keys, one commit that writes both.            *)
EXTENDS Trigger

SmallBatches == {<<1>>, <<2, 1>>}
=============================================================================
