----------------------------- MODULE EngineChoice -----------------------------
(***************************************************************************)
(* Which engine a map load asks for: the console command phys_override and *)
(* PhysicsNeedsSwap of extension.cpp, with the <map>_physics.cfg file the  *)
(* latter reads.                                                           *)
(*                                                                         *)
(* A file is abstracted to its text (one of Words, compared without regard *)
(* to case), whether a line end follows that text, and its size.           *)
(***************************************************************************)
EXTENDS PhysicsEngines, Naturals

CONSTANTS
  UnknownName,  \* a word that names no engine
  NoFile,       \* the map has no such file, or the load has no map name
  Files         \* the files the maps may come with

Words == Engines \cup {UnknownName}

MaxSize == 32 \* the length of the buffer PhysicsName

ASSUME ChoiceAssumption ==
  /\ UnknownName \notin OptionalEngine
  /\ NoFile \notin Files
  /\ Files \subseteq [word : Words, size : Nat, lineEnd : BOOLEAN]
  /\ \A f \in Files : f.word \in Engines => f.size < MaxSize \* names are short

VARIABLES
  overrideName, \* g_PhysicsEngineOverrideName, NoEngine for PHYSICS_NAME_MAX
  reply         \* the answer to the last phys_override that named an engine

Replies == [kind : {"none", "active", "swap", "invalid"},
            name : Words \cup {NoEngine}]

NoReply == [kind |-> "none", name |-> NoEngine]

ChoiceInit ==
  /\ overrideName = NoEngine
  /\ reply = NoReply

(* Which files are read.  As a fault: one that fills the buffer, too. *)
FitsBarely(f) == f.size <= MaxSize
Fits(f) == f.size < MaxSize

(* The engine file f names, NoEngine when it is missing or invalid. *)
CfgEngine(f) ==
  IF f # NoFile /\ Fits(f) /\ ~f.lineEnd /\ f.word \in Engines
    THEN f.word ELSE NoEngine

(* Behind what was read of f, the terminator is written outside the buffer. *)
EndStrays(f) ==
  overrideName = NoEngine /\ f # NoFile /\ Fits(f) /\ f.size \notin 0 .. MaxSize - 1

(* The engine that is to run on a map with file f.  As faults: the file is
   asked before the override; nothing asks for the default engine again. *)
WantedNoRevert(f) ==
  CASE overrideName # NoEngine -> overrideName
    [] CfgEngine(f) # NoEngine -> CfgEngine(f)
    [] OTHER -> engineName

WantedFileFirst(f) ==
  CASE CfgEngine(f) # NoEngine -> CfgEngine(f)
    [] overrideName # NoEngine -> overrideName
    [] OTHER -> DefaultEngine

Wanted(f) ==
  CASE overrideName # NoEngine -> overrideName
    [] CfgEngine(f) # NoEngine -> CfgEngine(f)
    [] OTHER -> DefaultEngine

(* PhysicsNeedsSwap returns true and leaves e in g_PhysicsEngineSwapName. *)
NeedsSwapTo(f, e) == e = Wanted(f) /\ e # engineName

(* phys_override <name> of an administrator.  Without a name the command only
   lists the engines. *)
NameActive(name) ==
  /\ name = engineName
  /\ reply' = [kind |-> "active", name |-> name]
  /\ UNCHANGED overrideName

SetOverride(name) ==
  /\ name \in Engines \ {engineName}
  /\ overrideName' = name
  /\ reply' = [kind |-> IF name = overrideName THEN "invalid" ELSE "swap",
               name |-> name]

RejectName(name) ==
  /\ name \notin Engines
  /\ reply' = [kind |-> "invalid", name |-> name]
  /\ UNCHANGED overrideName

PhysOverride(name) ==
  /\ NameActive(name) \/ SetOverride(name) \/ RejectName(name)
  /\ UNCHANGED <<engineName, swapName>>

ChoiceTypeOK ==
  /\ overrideName \in OptionalEngine
  /\ reply \in Replies

===============================================================================
