# A model of PhysSwapper

PhysSwapper is a plugin for Source engine servers that exchanges the physics
engine (a shared library) of a running game between two maps. This directory
holds a TLA+ model of it, the TLC configurations that check the model on small
instances, and proofs, checked by TLAPS, of what matters most for all instances.
Line numbers below are those of `src/extension/extension.cpp` unless another
file is named.

## The system

| part | state it keeps | operations | talks to |
|---|---|---|---|
| **physics swap** (163-307, 130-161, 625-650, `util.h` 85-150) | the running and the target engine, `g_PhysicsSystem`, the three queried interfaces, the vphysics entry of the module table, scope guards | `PhysicsSwap`, `FixAppSystemGroup`, `PhysicsQueryInterface`, `DestroyAllVCollides`, `LoadAllVCollides`, `CPhysicsHook::Init` | dynamic loader, application system group, model cache, client and server modules |
| **engine choice** (511-583, 662-707) | `g_PhysicsEngineOverrideName` | `PhysicsNeedsSwap`, `phys_override` | reads the running engine and the map's `_physics.cfg`; decides for the swap |
| **plugin lifecycle and hook** (585-623, 709-891) | the bytes saved from the call in `SpawnServer`, the registered convars | `LoadPhysSwapper`, `PatchSpawnServer`, `UnloadPhysSwapper`, glue for the two hosts | the host, the console, the game's code |
| **game data** (309-509) | signatures, function and data references | `ParseGameData`, `FindAdminCommandIssueFunc` | KeyValue tree, memory helpers |
| **KeyValue** (`kv/KeyValue.cpp`, `.h`) | a tree of nodes, its pools of nodes and strings | parse, look up, add, solidify, print, destroy | file contents |
| **memory and module helpers** (`memory.h`, `module.h`) | the table of modules, the list of references | patch, scan for a signature, find a reference, module bounds | mapped images |
| build files, vdf, shell script | none at run time | | |

Everything runs on the server's main thread, so what is hard here is not
preemption. It is a long sequence of irreversible steps on the state of a process
the plugin does not own, where each of the first steps may fail; stale pointers
left in other modules; a choice that depends on the history of commands, map
files and earlier failures; loads, failed loads and unloads in any order, by two
hosts that share one library; memory that is allocated by one engine and must be
freed by it; and code of the game that is searched and overwritten byte by byte.

What makes each part correct:

* *physics swap*: no call into an engine that is not mapped or not up; collision
  data is owned by a live engine; a swap that fails before the point of no return
  changes nothing the game can see; afterwards exactly one engine is referenced,
  everywhere; the working directory comes back.
* *engine choice*: override, then the map's file, then the default; no other
  engine is ever swapped to; an override takes effect in the end.
* *lifecycle*: the process is patched exactly while the plugin is there, and the
  plugin refuses to take over a process whose engine it does not know.
* *game data*: a load succeeds only with every reference the swap uses.
* *memory*: a search answers with the first occurrence and reads nothing beyond a
  module; the patched call reaches the plugin and comes back between two
  instructions; an unload leaves bytes and page protections as they were.
* *KeyValue*: every input is accepted or rejected in finitely many steps, what is
  accepted is complete, memory is freed once, a solid tree is read-only, printed size
  is enough.

## Modules

| module | models |
|---|---|
| `PhysicsEngines` | the engine table and the two globals that the other parts share |
| `PhysicsSwap` | `PhysicsSwap()` and what it calls, one action per group of statements; `pc` names the next group. Every `return false` leads to `Unwind`, which is what the destructors of the two scope guards do. The game between two swaps adds, uses and evicts models. |
| `EngineChoice` | `phys_override` and `PhysicsNeedsSwap`. The loop and the early returns of the latter are the operator `Wanted`: it returns true exactly when the wanted engine is not the running one. A map's file is reduced to its text, its size, and whether a line end follows the text. |
| `PhysSwapper` | the composition: staged loading with a failure in each stage, the patched call, map loads that reach it, commands, unloading, the hosts (one, or both) that map and unmap the library and share its statics |
| `EngineService` | the abstract specification: a map load changes the engine to the wanted one or not at all, and a change that was begun ends. What a map's file states is given to it as the README of the plugin says it, not as the code reads it (`StatedBy`). |
| `CodePatch` | the plugin and the game's memory, cell by cell: `Module_t::Init`, `FindSignature`, `FindAdminCommandIssueFunc`, `PatchSpawnServer` with `PatchMemory` and `CalcRelativeJmp`, the unload, and a processor that executes the patched call; both platforms |
| `GameData` | `ParseGameData`: its three loops, one step per entry of the file. An entry is a record of what the checks look at; an address is the module it lies in. |
| `KeyValueParser` | `KeyValue::Parse` with its recursion as a stack of calls, and `BuildData`, over texts of tokens; `ToString` and `ToStringLength` as operators |
| `KeyValueTree` | the tree in memory: `KeyValuePool::Get`, a parse that succeeds or is refused, `Add`, `AddNode`, `Solidify`, additions to a solid tree, the destructor of the root |
| `PhysicsSwap_proofs`, `PhysSwapper_proofs`, `CodePatch_proofs`, `GameData_proofs`, `KeyValueTree_proofs`, `KeyValueParser_proofs` | the proofs about the module each is named after; the invariants they prove stand at the end of that module, where TLC checks them too |
| `InductionLemmas` | facts about numbers that the proofs on `CodePatch` and the key values cite: a set of naturals has a least element, induction upwards and downwards between two bounds, an operation can be iterated |
| `MCPhysicsSwap`, `MCPhysSwapper`, `MCCodePatch`, `MCGameData`, `MCKeyValueParser` | constants for TLC |

How state corresponds: a module handle, a physics system and an interface pointer
are all represented by the engine they belong to (`NoEngine` for null), so "the
pointer leads to the right engine" is an equation. `refs[e]` is the loader's
reference count of e's module, `system[e]` how far its system has been brought
up. `holder[h]` says where an interface pointer held by another module leads.
`serverFactory` is the server's `physinterface`. `g_Physics`, `g_PhysCollision`
and `g_PhysSurfaceProps` are set and cleared together and are one variable,
`queried`.

Undefined behaviour: asking a system whose module is unmapped ends the process
(`pc = "crashed"`). In the game data, a library's bytes are found or not (`found`),
and what the game's code holds at a signature may lie in any module or in none
(`operand`); both are facts of the server's build that the plugin cannot know. A
search that reads where no memory is ends the process, as does a write to a page that
is not open (`"search fault"`, `"write fault"` in `CodePatch`). In
`KeyValueTree`, members that a node's constructor does not set are `Junk`, an
address of nothing, and asking a drained pool for a cell ends the process.

In `CodePatch` a cell of memory stands for one byte of code, except that a 32-bit
operand and the four bytes `PatchSpawnServer` looks for take one cell each. A relative
call is thus two cells instead of five bytes (`JumpSize`), Windows' call through a
pointer one more, as in the code. An opcode and an operand are the same kind of value,
so that an operand may look like a call. `found`, `record`, `patchAddr` and `saved` are
`g_Signatures`, `g_Modules`, `g_SpawnServerPatchAddr` and the two trampolines.
`PhysSwapper` says when the patch is there and `CodePatch` what it is made of: the
action `PatchSpawnServer` of the one is that of the other with `site` for the bytes.

In `KeyValueParser` a token is a word, a quoted string, a string that is not
closed, a brace, a blank (white space and comments in a row), or a slash that
begins no comment; `Texts` are sequences of them. A string is named by the position
of its token, which makes "every string in its place" an equation between the tree
and the text. `children`, `childCount`, `next` and `lastChild` are one sequence
there; `KeyValueTree` keeps them apart and is about nothing else.

Operators marked "As a fault" stand beside the definition they vary; they are
never used by the specifications. `PROJECT.json` ("mutants") names, for every
checked property, the variation that breaks it.

## Runs

| run | what it asks | result |
|---|---|---|
| `swap` | listen server, 3 engines, 2 models, any engine may fail in any of 5 stages, and the group may lack an entry of Havok: `CallsLive`, `VCollidesOwned`, `OneEngineInUse`, `ReferencesBalanced`, `RegistryCurrent`, `WorkdirRestored`, types, and the inductive invariant `SwapInv` | holds, 11 804 states |
| `plugin` | the composition with one host, dedicated server: `FootprintExact`, `OneEngineServed`, `StuckUntilRestart`, refinement of `EngineService`, `OverrideTakesEffect`, types, and the inductive invariants `PluginInv`, `FootprintInv` | holds, 124 740 states |
| `code_patch` | binaries of both platforms, loads, refused loads, map loads with swaps, unloads: `SearchIsExact`, `SearchStaysMapped`, `AdminDecoded`, `HookReached`, `CodeIntact`, types, and the inductive invariant `CodeInv` | holds, 68 020 states |
| `gamedata` | files that are wrong in every way a check looks for: `SuccessIsUsable`, `CleanFileAccepted`, types, and the inductive invariant `GameDataInv` | holds, 323 258 states |
| `kv_parse` | all texts of up to eight tokens: `Decides`, `TreeIsText`, `BufferFits`, `PrintFits`, `Answered`, types, and the inductive invariant `ParserInv` | holds, 57 262 states |
| `kv_tree` | all ways to parse or refuse a text, grow a tree to six nodes, solidify it, add to it and destroy it: `ReadsAgree`, `FreedOnce`, `MovedOnce`, `SolidIsReadOnly`, types, and the inductive invariant `TreeInv` | holds, 25 149 states |
| `failed_swap_factory` | after a failed swap the server's factory still answers | **violated** |
| `two_hosts` | while a host holds the plugin, the convars are there | **violated** |
| `override_pinned` | a pending override can be taken back | **violated** |
| `ended_line` | a map's file whose single line is ended is heeded | **violated** |
| `kv_slash` | every round of the parse loop reads something | **violated** |
| `kv_cut_block` | a text whose blocks are open is refused | **violated** |

The six violations are described in `PROJECT.json` ("findings"). Where a property
that holds and one that does not are neighbours, the first is the second with the
condition under which the code is right: `Decides` holds of texts that end with a
blank and `BlocksAreComplete` drops the condition; `plugin` has no file that states an
engine and ends its line (`LinesNotEnded`) and `ended_line` has no other; `kv_parse` has
no slash in its texts and `kv_slash` does; `FootprintExact` is about one host and
`NullMeansNotLoaded` about two.

Some properties that hold state the exact extent of a defect. `PrintFits`: the comment at
`KeyValue.cpp` 746 says that `ToString` allocates the length of all pairs and blocks. What
`ToStringLength` counts is one short for the space behind the key of a block and one too
many for every tab, so an empty block right under the root loses the text a character: for
the key `a` and an empty block, 10 characters are printed and 9 counted, and the text loses
its last line end. The property has the condition that there is no such block, and says that
there is no other case. `SuccessIsUsable`: a data reference may be null after a load that
succeeds, although the message at 801 speaks of required game data, but only when the file
has no entry for it, or one that is a pair and no block (the loop at 440 uses `childCount`,
which for a pair is a length, and passes it without a look). `SearchIsExact`: `FindSignature` misses what
lies at the last position of an image, and nothing else. `SearchStaysMapped`: a search
leaves the image only on Linux, in a library that stayed mapped over a swap to a larger
engine and back, for the recorded size is never lowered, and only when what is sought
is not there.

*Bounds.* Three engines are the whole table: one to leave, one to go to, one to
go to next. The proofs cover any number. Two models are enough to have one with
collision data and one without, in and out of the cache. There is no counter to
bound: reference counts stay at 0 or 1, which the proofs confirm. The composition
uses one host (both in `two_hosts`), one model, and four map files: two that state an
engine, one that fills the buffer of 32 characters up to its terminator, and one that is
a character too long to be read. A terminator written behind the buffer ends the process
in the model, so a check of the size that is off by one breaks `ImplementsService`.
Bullet may fail in any stage, Havok and Jolt come up.

`code_patch`: 48 addresses in pages of four cells. `SpawnServer` begins at each of the
four places of a page, so that the call lies in one page, across two, and on Windows
with its last byte in the next; a page of data follows the code. The pattern is before,
at the first, at the last and behind the last scanned offset. The code in front of
`SpawnServer` matches none, the first or the last byte of its signature. The plugin's
function lies below the game's code, so that the distance wraps. The physics engine
contains the bytes sought in the middle, at its last position and not at all, and is
exchanged for a larger and a smaller one; the file may ask for other bytes at each load.
The command's code has a call at each offset of what is scanned, none, and an operand
that looks like one. In every binary the cells scanned for the pattern lie in the engine.

`gamedata`: up to three signatures and two addresses. Each entry differs from a good
one in what a single check looks at, so every check is met alone, and one address
may take another as its base, before or after that one was read. There are one
function reference for every kind of module and three data references, two of which
share a name, as `physcollision` does in the code.

`kv_parse`: texts of up to eight words and braces, of up to four tokens with quoted
strings, with or without a blank at the end, and texts that break off in a quoted
string. Eight tokens are enough for a block in a block with pairs on either side.
A word has two characters and a quoted string none, so that sizes differ.
`MaxNodes` bounds the nodes; eight tokens make at most five, so the bound of six
never binds here. Only the loop that `kv_slash` shows to be stuck reaches it.

`kv_tree`: up to `MaxLabels` = 6 nodes, the root included, from no parse or the four
trees a parse may leave (empty, empty with a key read, a pair, a block with a pair). `POOL_INCREMENT_LENGTH` is 4
in the code and `Increment` = 1 in the run: the chunks have 1, 2, 3, 4 cells, so
that the strings of five added nodes fill four chunks behind the empty one that every
pool starts with (`POOL_STARTING_LENGTH` is 0), and chunks end full and partly used.

*Deadlock* is checked in every run but `swap`: there a failed swap may leave an
incomplete group half fixed (the comment at 249 says that no recovery is possible),
and the next swap ends the process. In `plugin`, where the group is complete, it is
checked.

*Fairness* is assumed in `plugin` and `kv_parse`. In `plugin`: weak fairness of the steps of a swap, since
the function never waits and the main thread runs it to its return; and of map
loads, since an override is promised for "the next map". Nothing is assumed of
commands, the hosts, the cache, or of the success of an engine's start:
`OverrideTakesEffect` speaks of engines that can be brought up. The same fairness makes
`plugin` implement the liveness of `EngineService` (`ChangeEnds`): whatever fails, a
swap comes to its end and the next map can load. In `kv_parse`: weak
fairness of the parser's own steps, as it is a function that never waits.

## Proofs

`PhysicsSwap_proofs` proves for `SwapSpec`, for every set of engines and of
models, every set of possible failures, with and without a client module, and with
a complete group or not: `SwapInvariant`, and from it `SwapTypeCorrect`,
`SwapCallsLive`, `SwapVCollidesOwned`, `SwapOneEngineInUse`,
`SwapReferencesBalanced`, `SwapRegistryCurrent` and `SwapWorkdirRestored`. The
assumptions are those on the constants: Havok is an engine, `NoEngine` is none,
the plugin's factory is neither.

None of the properties is inductive. `OneEngineInUse` speaks of `pc = "idle"` only
and needs to know at every statement which pointers have been replaced already
(`HoldersInv`), which engine the locals mean (`LocalsInv`) and which modules are
referenced (`ModulesInv`); `VCollidesOwned` needs to know that the cache is empty of
collision data from the flush to the reload (`CacheInv`); `RegistryCurrent` needs
that an incomplete group is never Havok's entry twice (`RegistryInv`). `SwapInv` is
their conjunction. The argument at the point of no return: before it, the only
engine that can be called is the one in use (lemma `OriginalIsRunning`), so the
system fetched from the engine's factory belongs to the handle in the module
table; hence `FixAppSystemGroup` either replaces both entries or the group was
incomplete from the start (`FixDecides`); and what is unloaded at 273 is the one
engine that no collision data belongs to any more (`RetireLeavesNew`).

`GameData_proofs` proves for `GameDataSpec`, for every table of modules, every set of
references and every file: `GameDataInvariant`, and from it `GameDataTypeCorrect`,
`GameDataSuccessIsUsable` and `GameDataCleanFileAccepted`. The loops do not stop at an error, so references go
on being assigned after one; the invariant therefore says that a data reference out
of its module is there only once `Ok` is cleared (`StrayIsReported`), that from
the third loop on the same holds of a function without an address
(`FunctionsSet`), which the second loop establishes, and that as long as `Ok` is set, each
entry of the third loop that was passed has set its reference (`GivenIsSet`). `CleanFileAccepted` speaks of a whole
file and the loops check entry by entry. Its invariant (`CleanSoFar`) says, of a file in
which nothing is wrong, that no error has been reported, that each name whose entry has
been passed has an address and that it came from one of its entries, and that each
address entry that was passed set its reference or belongs to an absent module.

`PhysSwapper_proofs` proves about the composition, for any number of hosts and
again with or without a complete group: `PluginInvariant`, `PluginTypeCorrect`,
`PluginOneEngineServed`, `PluginCallsLive`, `PluginVCollidesOwned` and
`PluginStuckUntilRestart`. `PluginInv` says that the hosts take turns (`TurnsInv`),
that while the plugin is loaded `SwapInv` holds and while it is not the game is at
rest with one engine (`AtRest`), and that a load which has got past the module table
has found Havok running, which is why it may take the process over (`StaticsInv`).
`StuckUntilRestart` rests on that last part. A step of a swap in the composition
is a step of `PhysicsSwap`, and the lemmas on those steps are used as they stand;
loads and unloads are new. `PluginCallsLive` and `PluginVCollidesOwned` carry two
results about the swap over to a process that loads and unloads the plugin at will.

For one host (`OneHostOnly`, a hypothesis of the theorems, not of the module) it
proves `FootprintInvariant`, `PluginFootprintExact` and `PluginImplementsService`. Two
hosts break the first two, as `two_hosts` shows: the unload by one takes the hook
from the other. The refinement is proved for `ServiceSafety`, the part of
`EngineService` without fairness: every step is a change to the wanted engine, a
change that failed, a load or an unload, or a stutter. It needs `SwapInv` for the
engine that the map load chose, and `FootprintInv` for whether a map load reaches the
plugin. Its second hypothesis, `LinesNotEnded`, is what makes the code's reading of a map's
file that of the README; that the size of a file that states an engine is below the
buffer's is an assumption (`ChoiceAssumption`), as the names in the table are short.

`CodePatch_proofs` proves for every page size, every place of the code, the engine
and the physics engines, every window and every binary: `CodeInvariant`,
`CodeTypeCorrect`, `CodeHookReached`, `CodeIsIntact`, `CodeSearchIsExact`,
`CodeSearchStaysMapped` and `CodeAdminDecoded`. `CodeInv` says that memory is the binary but for the hook
of a loaded plugin and the protections are the loader's (`GameInv`), which sizes the
module table may record (`RecordInv`), that the patch address is the call and the saved
cells are the call's (`PatchInv`), and where the processor may be in `SpawnServer`
(`CpuInv`); the two facts on searches are about the answer just given and are carried
along. That the call may cross a page is settled in the lemma on `PatchMemory`
(`PagesKept`): each write touches the pages of its first and its last cell and none
between, all are pages of the engine's code, and so the protection of the first,
which the code gives back to all of them, is the right one. The assumptions, evaluated by TLC for the
run's instance, are what the game data file and the loader promise: images do not
overlap and fit into the address space (`LayoutAssumption`); the signature of
`SpawnServer` matches nothing in front of it, the scanned window lies in the engine
and contains the four bytes once, in front of the call (`BuildAssumption`). The
plugin cannot check the latter, and would patch another place if the file were
wrong. Nothing is assumed of the signature sought in vphysics, which may match
anywhere or nowhere. `AdminDecoded` is about a fold over the instructions of the command;
the fold is unrolled, and what each step of it appends is followed upwards over the
sequence. The condition in it is its own (`NoStrayCallByte`): in front of the call, no
operand has the call's opcode as its byte, which nothing in the code makes sure of.

`KeyValueTree_proofs` proves for every pool increment and every bound on the nodes,
after each of the parses in `ParsedTrees` (up to three nodes) and any additions:
`TreeInvariant`, `TreeTypeCorrect`, `TreeFreedOnce`, `TreeMovedOnce`,
`TreeReadsAgree` and `TreeSolidIsReadOnly`. `TreeInv` fixes where nodes lie and how
they are labelled (`NodesInv`), that the labels form a tree (`KidsInv`), each pointer
in the pools and in the arrays (`LinksInv`), what `Solidify` has still to do
(`SolidInv`), the cells the pools have given out (`PoolsInv`), and all that is
allocated (`AllocatedInv`). Induction over data is avoided in three places:

* A walk along `next` is a recursive function. The list of a block's children is
  given explicitly, and a least index at which the walk could leave it refuted
  (`WalkFollows`).
* `Solidify` moves the children of what it has moved, so that all are moved in the
  end would be an induction over the tree. Labels are given in the order of creation,
  and a child's is larger than its parent's; so the least label left behind would
  have a parent that was moved (`AllMoved`).
* A block has at most `MaxLabels` children, as their labels differ (`KidsBounded`).

`KeyValueParser_proofs` proves for every set of texts, every length of a word and of a
quoted string, and every bound on the nodes: `ParserInvariant`, and from it
`ParserTypeCorrect`, `ParserDecides`, `ParserTreeIsText` and `ParserBufferFits`; and
`ParserPrintFits`. The assumption (`ParserAssumption`) says what the tokens of a text
are: nothing follows a string that is not closed, blanks in a row are one token, a word is
not empty. The properties are about the answer; `ParserInv` says what holds before it:

* `TreeGrows`: a node is newer than its parent, and each open call belongs to a newer
  node than the call it was made by. A block that is open is not yet in its parent's list
  (`AddNode` comes after the recursive call).
* `PlaceKnown`: what has been read is well-formed so far, as many calls are open as there
  are blocks open, and a key is sought exactly after an even number of strings. At the end
  of a text the check for open blocks is skipped, so there the calls are only bounded by
  the open blocks; a text that ends with a blank never gets there in a call.
* `BufferCounted`: `bufferSize` is the space for all that hangs on the open calls and for
  the key just read.
* `TokensKept`: the strings in the tree, read call by call from the root and with the key
  just read at the end, are those of the text up to the place of the parser.

The functions of the text and of the tree in these properties are recursive
(`Depth`, `TreeTokens`, the sizes). No rule of the library gives a recursive function its
equation without an induction over an operator, so the induction is made over sets
of numbers (`InductionLemmas`). Over a text, two functions that satisfy the equation agree
from the first token on. In a tree, a child is newer than its parent, so two solutions
agree from the newest node down. That there is a solution at all is an invariant of its own
(`Known` in the proofs): an empty tree has one, a step that adds a node gives that node the
empty tree's value and leaves the others, and a step that lengthens the list of an
open call changes the value of that call's node only, because no other node lists it yet.
Sums and joined sequences are iterated operations and split at any index.

`PrintFits` is then an argument about single nodes, made from the newest down. Behind
`n` tabs, a pair is counted `n` characters longer than it is printed, for its missing space
and its terminator even out; a block is counted `3n - 1` longer, and whatever its children
give on top of that. Below the root `n` is at least one, so nothing there is ever short and
every child leaves a character over. Right under the root `n` is zero: a pair comes out
even, a block is one short unless a child makes up for it, and an empty block has none
(lemma `PrintHolds` bounds the loss by the number of these).

*Only model-checked*: liveness under fairness, which is out of the prover's reach.
These are `OverrideTakesEffect`, `ChangeEnds` (the liveness of `EngineService`) and
`Answered`. Every invariant that a passing run checks is proved.

## Plan

1. *Done*: physics swap, engine choice, lifecycle, their composition and abstract
   specification, the proofs about the swap.
2. *Done*: `GameData` and its proofs; `KeyValueParser`; `KeyValueTree`; two hosts in
   `PhysSwapper`; `CodePatch`.
3. *Done*: the proofs about the composition, with the safety part of the refinement
   of `EngineService`; about `CodePatch`; about `KeyValueTree`.
4. *Done*: the proofs about `KeyValueParser`; `CleanFileAccepted` and `AdminDecoded`.
5. Left: liveness, which TLC checks, and the hazards that `PROJECT.json` lists without a
   property, each with its reason.

## Not modelled

Texts, colours and logging; the decoding of file names and paths; the layout of
the game's classes (`engine.h`); what an engine does inside Connect, Init and
Shutdown; the admin check itself (a command that is refused changes nothing); build
and packaging files. Other threads of the server: the plugin runs on the main thread
and takes no lock, and what else executes code of the patched page is the game's. Of
`memory.h`: the overloads of `DataRef::Init` and `FuncRef::Init` that search for a
signature, which are used nowhere. Of the key-value code: a second `Parse` on one root
(the header shows one), the members `next` and `lastChild` that a fresh root has not
initialised and `IsValid` reads, and look-up by key, which reads the lists in order and
changes nothing. A library that is loaded as an engine but has no factory (201): the
engines of the model differ in what their factories answer.
