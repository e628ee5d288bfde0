------------------------------ MODULE MCGameData ------------------------------
(* The game's modules and references, reduced to one function per kind of  *)
(* module and the data references of two modules, one of which shares its  *)
(* name with another; and the files made of entries that each differ from  *)
(* a good one in what one check looks at.                                  *)
EXTENDS GameData

CONSTANTS client, engine, datacache

MCModules == {client, engine, datacache}

Spawn   == "CGameServer::SpawnServer"
DLLInit == "PhysicsDLLInit"
Coll    == "physcollision"
Props   == "physprops"

MCNames == {Spawn, DLLInit, Coll, Props}

MCFuncRefs == { [name |-> Spawn, module |-> engine],
                [name |-> DLLInit, module |-> client] }
MCDataRefs == { [name |-> Coll, module |-> engine],
                [name |-> Coll, module |-> datacache],
                [name |-> Props, module |-> engine] }

GoodSpawn == [name |-> Spawn, library |-> engine, text |-> "bytes", found |-> TRUE]
GoodInit  == [name |-> DLLInit, library |-> client, text |-> "bytes", found |-> TRUE]
GoodColl  == [name |-> Coll, library |-> datacache, text |-> "bytes", found |-> TRUE]

SpawnEntries ==
  { GoodSpawn,
    [GoodSpawn EXCEPT !.text = "truncated"],
    [GoodSpawn EXCEPT !.library = NoLibrary],
    [GoodSpawn EXCEPT !.library = Undefined],
    [GoodSpawn EXCEPT !.library = datacache],
    [GoodSpawn EXCEPT !.found = FALSE] }

InitEntries ==
  {GoodInit, [GoodInit EXCEPT !.text = "missing"], [GoodInit EXCEPT !.found = FALSE]}

MCSignatures ==
  { <<s, i>> : s \in SpawnEntries, i \in InitEntries }
  \cup { <<i, s, s2>> : i \in InitEntries, s \in SpawnEntries, s2 \in {GoodSpawn, GoodColl} }
  \cup { <<s>> : s \in SpawnEntries } \cup { <<>> }

GoodProps ==
  [ name |-> Props, library |-> engine, shape |-> "block", platform |-> TRUE,
    offset |-> "near", base |-> "signature", baseName |-> Spawn, operand |-> engine ]
FromProps == [GoodProps EXCEPT !.name = Coll, !.base = "address", !.baseName = Props]
InCache ==
  [GoodProps EXCEPT !.name = Coll, !.library = datacache, !.baseName = Coll, !.operand = datacache]

MCAddressEntries ==
  { GoodProps, FromProps, InCache,
    [GoodProps EXCEPT !.library = NoLibrary, !.shape = "empty"],
    [GoodProps EXCEPT !.library = NoLibrary, !.shape = "pair"],
    [GoodProps EXCEPT !.library = Undefined],
    [GoodProps EXCEPT !.library = client],
    [GoodProps EXCEPT !.library = datacache],
    [GoodProps EXCEPT !.platform = FALSE],
    [GoodProps EXCEPT !.offset = "none"],
    [GoodProps EXCEPT !.offset = "far"],
    [GoodProps EXCEPT !.base = "none"],
    [GoodProps EXCEPT !.baseName = Coll],
    [GoodProps EXCEPT !.operand = Outside],
    [GoodProps EXCEPT !.operand = datacache],
    [FromProps EXCEPT !.offset = "far"],
    [FromProps EXCEPT !.baseName = Spawn] }

MCFiles ==
  [ signatures : MCSignatures,
    addresses  : UNION {[1..n -> MCAddressEntries] : n \in 0..2} ]
===============================================================================
