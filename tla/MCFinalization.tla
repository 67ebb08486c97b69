--------------------------- MODULE MCFinalization ---------------------------
(* Small instances of Finalization. *)
EXTENDS Finalization, TLC

CONSTANTS w1, w2

\* The session may be gone from Redis, and with it the checkpoint.
AnyLeftovers == {<<"ACTIVE", "ACTIVE">>, <<"gone", "ACTIVE">>, <<"gone", "none">>}

\* The checkpoint of the call was written while it was billed.
Checkpointed == {"ACTIVE", "gone"} \X {"ACTIVE"}

\* breached is read by OverlapOnlyAfterBreach only.
WithoutBreach == <<redis, mongo, pc, locals, bounds>>

WorkerSymmetry == Permutations(Workers)
=============================================================================
