--------------------------- MODULE MCRunPipeline ----------------------------
(* Three uploads, two of which carry the same idempotency key. *)
EXTENDS RunPipeline, TLC

CONSTANTS q1, q2, q3, k1, k2

MCRequests == {q1, q2, q3}
MCKeyOf == [q \in MCRequests |-> IF q = q3 THEN k2 ELSE k1]

(* All uploads carry one key: a third one meets the rows of two that raced. *)
MCSameKey == [q \in MCRequests |-> k1]

(* Under MCSameKey the uploads are interchangeable. *)
SameKey == Permutations(MCRequests)
=============================================================================
