---------------------------- MODULE MCPhysicsSwap -----------------------------
(***************************************************************************)
(* Constants for model-checking PhysicsSwap: the three engines of the      *)
(* table, two models in the cache and a failure in any stage.              *)
(***************************************************************************)
EXTENDS PhysicsSwap

CONSTANTS JOLT, BULLET, m1, m2

MCEngines == {HAVOK, JOLT, BULLET}

MCModels == {m1, m2}

(* Any engine may fail in any stage, Havok included. *)
AnyFailure == MCEngines \X Stages

===============================================================================
