----------------------------- MODULE MCSampling -----------------------------
(* One worker, and a pool of two with and without a timeout. *)
EXTENDS Sampling

MCConfigs == {[workers |-> 1, timed |-> TRUE],
              [workers |-> 2, timed |-> TRUE],
              [workers |-> 2, timed |-> FALSE]}
=============================================================================
