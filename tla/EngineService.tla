---------------------------- MODULE EngineService -----------------------------
(***************************************************************************)
(* What the plugin promises to the administrator of a server, without the  *)
(* way it is done: the game runs one engine; a map load changes it to the  *)
(* one wanted for that map or, when that engine cannot be brought up, not  *)
(* at all; without the plugin the engine stays what it is.                 *)
(***************************************************************************)
CONSTANTS
  Engines, Default,
  None,     \* no engine
  NoFile,   \* one of Files: the map comes with nothing
  Files,    \* what a map load may come with
  Stated    \* Stated[f]: the engine that f asks for, or None

VARIABLES
  map,      \* what the last map load came with
  attached, \* the plugin is loaded
  active,   \* the engine the game runs
  override, \* the engine the administrator asked for, or None
  target    \* the engine a map load is changing to, or None

serviceVars == <<map, attached, active, override, target>>

WantedFor(f) ==
  CASE override # None -> override
    [] Stated[f] # None -> Stated[f]
    [] OTHER -> Default

ServiceInit ==
  /\ map = NoFile
  /\ attached = FALSE
  /\ active = Default
  /\ override = None
  /\ target = None

(* The plugin refuses to load into a process whose engine is not the default. *)
Attach ==
  /\ ~attached
  /\ active = Default
  /\ attached' = TRUE
  /\ UNCHANGED <<map, active, override, target>>

Detach ==
  /\ attached
  /\ target = None
  /\ attached' = FALSE
  /\ override' = None
  /\ UNCHANGED <<map, active, target>>

Override(e) ==
  /\ attached
  /\ target = None
  /\ e # active
  /\ override' = e
  /\ UNCHANGED <<map, attached, active, target>>

(* A map load begins a change exactly if another engine is wanted. *)
LoadMap(f) ==
  /\ target = None
  /\ map' = f
  /\ target' = IF attached /\ WantedFor(f) # active THEN WantedFor(f) ELSE None
  /\ UNCHANGED <<attached, active, override>>

EndChange ==
  /\ target # None
  /\ active' \in {active, target}
  /\ target' = None
  /\ UNCHANGED <<map, attached, override>>

ServiceNext ==
  \/ Attach \/ Detach
  \/ \E e \in Engines : Override(e)
  \/ \E f \in Files : LoadMap(f)
  \/ EndChange

(* A change that was begun comes to its end. *)
ChangeEnds == target # None ~> target = None

ServiceSafety == ServiceInit /\ [][ServiceNext]_serviceVars

ServiceSpec == ServiceSafety /\ ChangeEnds

===============================================================================
