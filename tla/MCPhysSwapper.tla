---------------------------- MODULE MCPhysSwapper -----------------------------
(***************************************************************************)
(* Constants for model-checking PhysSwapper: the three engines of the      *)
(* table, one model, the files the maps come with, and one host, or both.  *)
(***************************************************************************)
EXTENDS PhysSwapper

CONSTANTS JOLT, BULLET, m1, EnginePlugins, SourceMod

MCEngines == {HAVOK, JOLT, BULLET}

MCModels == {m1}

OneHost == {SourceMod}
BothHosts == {EnginePlugins, SourceMod}

(* Files that state an engine, that fill the buffer up to its terminator and that
   are one character too long for it. *)
MCFiles ==
  {[word |-> BULLET, size |-> 6, lineEnd |-> FALSE],
   [word |-> JOLT, size |-> 4, lineEnd |-> FALSE],
   [word |-> UnknownName, size |-> MaxSize - 1, lineEnd |-> TRUE],
   [word |-> UnknownName, size |-> MaxSize, lineEnd |-> FALSE]}

(* As an editor leaves it, the only line of a file is ended. *)
EndedFiles == {[word |-> JOLT, size |-> 5, lineEnd |-> TRUE]}

(* Bullet may fail in any stage; Havok and Jolt come up. *)
BulletFails == {BULLET} \X Stages

===============================================================================
