------------------------------- MODULE GameData -------------------------------
(***************************************************************************)
(* ParseGameData: how the entries of PhysSwapper.games.txt become the      *)
(* references through which the plugin calls and patches the game.  The    *)
(* file is a parsed tree; one step handles one entry.                      *)
(*                                                                         *)
(* An address is abstracted to its place: the module it lies in, Outside   *)
(* every module the plugin knows, or Nowhere for a null pointer.           *)
(***************************************************************************)
EXTENDS Naturals, Sequences

CONSTANTS
  Modules,    \* the modules of g_Modules
  Client,     \* the one of them a dedicated server does not have
  Outside,    \* the place of an address in no module
  Nowhere,    \* the place of a null pointer
  Undefined,  \* a library name that is not in the table
  NoLibrary,  \* what an entry has for a library when it names none
  FuncRefs,   \* the function references, records of a name and a module
  DataRefs,   \* the data references, likewise
  Names,      \* the names of references and signatures
  Files,      \* the files the server may have
  NoFile      \* a file that is not there, or is no key-value text

Refs == FuncRefs \cup DataRefs
Places == Modules \cup {Outside, Nowhere}

(* One child of "Signatures": whether the text for this platform is there  *)
(* and can be read, and whether the library's image contains its bytes.    *)
SignatureEntries ==
  [ name    : Names,
    library : Modules \cup {Undefined, NoLibrary},
    text    : {"missing", "truncated", "too long", "bytes"},
    found   : BOOLEAN ]

(* One library of one child of "!Addresses".  An address whose block is    *)
(* empty, or that is a pair and no block, is an entry with NoLibrary; its  *)
(* shape says which.  The operand is what the game's code holds at the     *)
(* signature plus the offset.                                              *)
AddressEntries ==
  [ name     : Names,
    library  : Modules \cup {Undefined, NoLibrary},
    shape    : {"block", "empty", "pair"},
    platform : BOOLEAN,
    offset   : {"none", "near", "far"},
    base     : {"signature", "address", "none"},
    baseName : Names,
    operand  : Modules \cup {Outside} ]

ASSUME GameDataAssumption ==
  /\ Client \in Modules
  /\ FuncRefs \cap DataRefs = {}
  /\ Refs \subseteq [name : Names, module : Modules]
  /\ {Outside, Nowhere, Undefined, NoLibrary} \cap Modules = {}
  /\ Outside # Nowhere
  /\ NoFile \notin Files
  /\ Files \subseteq [ signatures : Seq(SignatureEntries),
                       addresses  : Seq(AddressEntries) ]

VARIABLES
  file,        \* the file, NoFile when reading or parsing it fails
  dedicated,   \* g_Dedicated
  phase,       \* the loop that runs, or how the function ended
  next,        \* the entry the loop is at
  signatures,  \* g_Signatures, Nowhere for a name that is not a key
  ref,         \* m_Ref of every reference
  ok           \* Ok, and the answer once the function has ended

vars == <<file, dedicated, phase, next, signatures, ref, ok>>

Phases == {"read", "signatures", "functions", "addresses", "done", "crashed"}

GameDataInit ==
  /\ file \in Files \cup {NoFile}
  /\ dedicated \in BOOLEAN
  /\ phase = "read"
  /\ next = 1
  /\ signatures = [n \in Names |-> Nowhere]
  /\ ref = [r \in Refs |-> Nowhere]
  /\ ok = TRUE

-------------------------------------------------------------------------------
(* What is not looked at on a dedicated server.  As a fault: everything is. *)
SkipsNothing(m) == FALSE
Skips(m) == dedicated /\ m = Client

(* Module_t::IsValidAddress.  As a fault: an address in whatever module.   *)
ValidAnywhere(place, m) == place \in Modules
IsValidAddress(place, m) == place = m

(* An address plus an offset.  A null pointer plus an offset is no null    *)
(* pointer, but still in no module.                                        *)
Plus(place, offset) ==
  IF offset = "near" /\ place \in Modules THEN place ELSE Outside

ReadFile ==
  /\ phase = "read"
  /\ phase' = IF file = NoFile THEN "done" ELSE "signatures"
  /\ ok' = (file # NoFile)
  /\ UNCHANGED <<file, dedicated, next, signatures, ref>>

-------------------------------------------------------------------------------
(* The first loop.  The checks come in this order: platform and text, the  *)
(* library, whether it is a client's on a dedicated server, the search.    *)
(* As a fault: a library that is not in the table is searched.             *)
Readable(e) == e.text = "bytes"
SearchedInNull(e) == Readable(e) /\ ~Skips(e.library)
Searched(e) == Readable(e) /\ e.library \in Modules /\ ~Skips(e.library)
Ignored(e)  == Readable(e) /\ e.library \in Modules /\ Skips(e.library)
Stored(e)   == Searched(e) /\ e.found

ScanSignature(e) ==
  /\ e.library # NoLibrary \/ ~Readable(e)
  /\ signatures' = IF Stored(e)
                   THEN [signatures EXCEPT ![e.name] = e.library]
                   ELSE signatures
  /\ ok' = (ok /\ (Stored(e) \/ Ignored(e)))
  /\ next' = next + 1
  /\ UNCHANGED <<file, dedicated, phase, ref>>

(* GetModule compares the table's names with a null string. *)
ScanCrashes(e) ==
  /\ Readable(e)
  /\ e.library = NoLibrary
  /\ phase' = "crashed"
  /\ UNCHANGED <<file, dedicated, next, signatures, ref, ok>>

SignaturesEnd ==
  /\ phase = "signatures"
  /\ next = Len(file.signatures) + 1
  /\ phase' = "functions"
  /\ next' = 1
  /\ UNCHANGED <<file, dedicated, signatures, ref, ok>>

-------------------------------------------------------------------------------
(* The second loop; its rounds do not depend on each other.                *)
Expected == {f \in FuncRefs : ~Skips(f.module)}
HasSignature(f) == signatures[f.name] # Nowhere

AllFound == \A f \in Expected : HasSignature(f)

InitFunctions ==
  /\ phase = "functions"
  /\ ref' = [r \in Refs |-> IF r \in Expected /\ HasSignature(r)
                            THEN signatures[r.name] ELSE ref[r]]
  /\ ok' = (ok /\ AllFound)
  /\ phase' = "addresses"
  /\ UNCHANGED <<file, dedicated, next, signatures>>

-------------------------------------------------------------------------------
(* The third loop.  A reference is assigned before the address assigned to *)
(* it is checked.                                                          *)
Target(e) == [name |-> e.name, module |-> e.library]
Base(e) == [name |-> e.baseName, module |-> e.library]

Resolvable(e) ==
  /\ e.library \in Modules
  /\ Target(e) \in DataRefs
  /\ e.platform
  /\ e.offset # "none"
  /\ \/ /\ e.base = "signature"
        /\ signatures[e.baseName] # Nowhere
        /\ IsValidAddress(Plus(signatures[e.baseName], e.offset), e.library)
     \/ /\ e.base = "address"
        /\ Base(e) \in DataRefs

Resolved(e) ==
  IF e.base = "signature" THEN e.operand ELSE Plus(ref[Base(e)], e.offset)

(* What lets the loop pass an entry without a look: a client's entry, and  *)
(* an address that is a pair, which has a length but no children.          *)
Passed(e) ==
  \/ e.shape = "block" /\ e.library \in Modules /\ Skips(e.library)
  \/ e.shape = "pair"

ResolveAddress(e) ==
  /\ ~Passed(e)
  /\ e.shape = "block"
  /\ Resolvable(e)
  /\ ref' = [ref EXCEPT ![Target(e)] = Resolved(e)]
  /\ ok' = (ok /\ IsValidAddress(Resolved(e), e.library))
  /\ next' = next + 1
  /\ UNCHANGED <<file, dedicated, phase, signatures>>

Rejected(e) == ~Passed(e) /\ (e.shape = "empty" \/ ~Resolvable(e))

ReportAddress(e) ==
  /\ Rejected(e)
  /\ ok' = FALSE
  /\ next' = next + 1
  /\ UNCHANGED <<file, dedicated, phase, signatures, ref>>

(* Two of the messages have fewer arguments than their format reads: that  *)
(* of a library that is not in the table and that of a missing platform.   *)
(* What the missing argument is read as may end the process.               *)
ReportCrashes(e) ==
  /\ Rejected(e)
  /\ e.shape = "block"
  /\ \/ e.library \notin Modules
     \/ Target(e) \in DataRefs /\ ~e.platform
  /\ phase' = "crashed"
  /\ UNCHANGED <<file, dedicated, next, signatures, ref, ok>>

PassAddress(e) ==
  /\ Passed(e)
  /\ next' = next + 1
  /\ UNCHANGED <<file, dedicated, phase, signatures, ref, ok>>

AddressesEnd ==
  /\ phase = "addresses"
  /\ next = Len(file.addresses) + 1
  /\ phase' = "done"
  /\ UNCHANGED <<file, dedicated, next, signatures, ref, ok>>

-------------------------------------------------------------------------------
HandleSignature ==
  /\ phase = "signatures"
  /\ next \in DOMAIN file.signatures
  /\ LET e == file.signatures[next] IN ScanSignature(e) \/ ScanCrashes(e)

HandleAddress ==
  /\ phase = "addresses"
  /\ next \in DOMAIN file.addresses
  /\ LET e == file.addresses[next] IN
     \/ ResolveAddress(e)
     \/ ReportAddress(e)
     \/ ReportCrashes(e)
     \/ PassAddress(e)

Ended == phase \in {"done", "crashed"} /\ UNCHANGED vars

GameDataNext ==
  \/ ReadFile
  \/ HandleSignature \/ SignaturesEnd
  \/ InitFunctions
  \/ HandleAddress \/ AddressesEnd
  \/ Ended

GameDataSpec == GameDataInit /\ [][GameDataNext]_vars

-------------------------------------------------------------------------------
(* The type invariant. *)
GameDataTypeOK ==
  /\ file \in Files \cup {NoFile}
  /\ dedicated \in BOOLEAN
  /\ phase \in Phases
  /\ next \in Nat \ {0}
  /\ signatures \in [Names -> Modules \cup {Nowhere}]
  /\ ref \in [Refs -> Places]
  /\ ok \in BOOLEAN

(* The modules that are not part of the process. *)
Absent(m) == dedicated /\ m = Client

(* An entry that says where a data reference of the server leads.  One     *)
(* that is a pair says nothing, and is passed without a look.              *)
Gives(e, d) == e.shape = "block" /\ Target(e) = d /\ ~Absent(d.module)

(* A load that goes on after ParseGameData (799-803) calls functions and   *)
(* writes through data references without another look: every function of *)
(* a module the server has leads into a module.  A data reference is       *)
(* assigned before the address is checked (479, 494), possibly from a      *)
(* reference that was rejected, and may be assigned again by a later       *)
(* entry: it leads into its own module.  It is null only when the file has *)
(* no entry for it, which nothing looks for as the second loop does for    *)
(* the functions (421).                                                    *)
SuccessIsUsable ==
  phase = "done" /\ ok =>
    /\ \A f \in FuncRefs : Absent(f.module) \/ ref[f] \in Modules
    /\ \A d \in DataRefs :
         \/ ref[d] = d.module
         \/ /\ ref[d] = Nowhere
            /\ \A i \in DOMAIN file.addresses : ~Gives(file.addresses[i], d)

(* A file in which nothing is wrong: it names the signature of every       *)
(* function of the server, every text is readable and is found where it is *)
(* looked for, and an address is computed from a signature of its library  *)
(* or from an address of its library that an earlier entry gives.          *)
SearchedSignatures(n) ==
  {e \in {file.signatures[i] : i \in DOMAIN file.signatures} :
     e.name = n /\ ~Absent(e.library)}

CleanSignature(e) ==
  e.text = "bytes" /\ e.library \in Modules /\ (e.found \/ Absent(e.library))

CleanAddress(i) ==
  LET e == file.addresses[i] IN
  /\ e.shape = "block"
  /\ e.library \in Modules
  /\ \/ Absent(e.library)
     \/ /\ Target(e) \in DataRefs
        /\ e.platform
        /\ e.offset = "near"
        /\ \/ /\ e.base = "signature"
              /\ SearchedSignatures(e.baseName) # {}
              /\ \A s \in SearchedSignatures(e.baseName) : s.library = e.library
              /\ e.operand = e.library
           \/ /\ e.base = "address"
              /\ \E j \in 1..(i - 1) : Target(file.addresses[j]) = Base(e)

CleanFile ==
  /\ file # NoFile
  /\ \A i \in DOMAIN file.signatures : CleanSignature(file.signatures[i])
  /\ \A f \in FuncRefs : Absent(f.module) \/ SearchedSignatures(f.name) # {}
  /\ \A i \in DOMAIN file.addresses : CleanAddress(i)

(* A clean file is never refused and never ends the process, on either     *)
(* kind of server: what is said of the client does not count against a     *)
(* dedicated server (398, 426, 449), whose process has no such module.     *)
CleanFileAccepted == CleanFile => ok /\ phase # "crashed"

-------------------------------------------------------------------------------
(* What every step keeps, and what the properties above follow from.  A    *)
(* data reference that leads out of its module is only ever there after Ok *)
(* was cleared, ...                                                        *)
StrayIsReported ==
  ok => \A d \in DataRefs : ref[d] \in {Nowhere, d.module}

(* ... from the third loop on the same holds of a function without an      *)
(* address, ...                                                            *)
FunctionsSet ==
  phase \in {"addresses", "done"} /\ ok =>
    \A f \in Expected : ref[f] \in Modules

(* ... as long as Ok is set, no entry of the third loop that was read left *)
(* its reference null, ...                                                 *)
AddressesRead ==
  CASE phase = "addresses" -> next - 1
    [] phase = "done" /\ file # NoFile -> Len(file.addresses)
    [] OTHER -> 0

GivenIsSet ==
  ok => \A d \in DataRefs : \A i \in 1 .. AddressesRead :
          Gives(file.addresses[i], d) => ref[d] # Nowhere

Unread ==
  /\ phase = "read" => ok
  /\ phase \in {"read", "functions"} => next = 1

RefusedWithoutFile ==
  /\ file = NoFile /\ phase # "read" => ~ok
  /\ file = NoFile => phase \in {"read", "done"}

ReferencesInv ==
  /\ GameDataTypeOK
  /\ StrayIsReported /\ FunctionsSet /\ GivenIsSet
  /\ RefusedWithoutFile /\ Unread

(* ... and of a clean file, the entries that have been read are stored: a  *)
(* name has a signature from one of its entries, and an address that was   *)
(* passed over belongs to an absent module.                                *)
SignaturesRead ==
  CASE phase = "read" -> 0
    [] phase = "signatures" -> next - 1
    [] OTHER -> Len(file.signatures)

CleanSoFar ==
  CleanFile =>
    /\ ok /\ phase # "crashed"
    /\ \A n \in Names :
         /\ signatures[n] # Nowhere =>
              \E s \in SearchedSignatures(n) : signatures[n] = s.library
         /\ (\E i \in 1 .. SignaturesRead : file.signatures[i] \in SearchedSignatures(n)) =>
              signatures[n] # Nowhere
    /\ phase = "addresses" =>
         \A i \in 1 .. next - 1 :
           LET e == file.addresses[i] IN
           Absent(e.library) \/ ref[Target(e)] # Nowhere

(* Every step of every loop keeps all of it, whatever the file says. *)
GameDataInv == ReferencesInv /\ CleanSoFar
===============================================================================
