---------------------------- MODULE KeyValueParser ----------------------------
(***************************************************************************)
(* KeyValueRoot::Parse: a text becomes a tree of pairs and blocks, whose   *)
(* strings are then copied out of the text into one buffer.                *)
(*                                                                         *)
(* A text is a sequence of tokens: a word (a string without quotes), a     *)
(* quoted string, an unclosed one, a brace (open, close), a blank (white   *)
(* space and comments in a row) and a slash that begins no comment.  The   *)
(* string at a token is named by the token's position, an empty read by 0. *)
(* The fields children, childCount, next and lastChild are together the    *)
(* sequence of a node's children.  Line numbers are those of               *)
(* kv/KeyValue.cpp.                                                        *)
(***************************************************************************)
EXTENDS Naturals, Sequences, FiniteSets, SequencesExt

CONSTANTS
  Texts,        \* the texts that are parsed
  WordLength,   \* the length of a string without quotes
  QuotedLength, \* the length of a quoted string
  MaxNodes      \* a bound on the nodes, which only a stuck loop reaches

Tokens == {"word", "quoted", "unclosed", "open", "close", "blank", "slash"}

(* Nothing can be read behind a string that is not closed, and blanks in a *)
(* row are one token.                                                      *)
ASSUME ParserAssumption ==
  /\ WordLength \in Nat \ {0}
  /\ QuotedLength \in Nat
  /\ MaxNodes \in Nat \ {0}
  /\ Texts \subseteq Seq(Tokens)
  /\ \A t \in Texts : \A i \in 1..(Len(t) - 1) :
       t[i] # "unclosed" /\ (t[i] = "blank" => t[i + 1] # "blank")

Codes == {"ERROR_NONE", "INCOMPLETE_BLOCK", "UNEXPECTED_START_OF_BLOCK",
          "UNEXPECTED_END_OF_BLOCK", "INCOMPLETE_STRING"}
NoCode == "none yet"
NoError == "ERROR_NONE"

Root == 1

VARIABLES
  text,       \* the text
  str,        \* the position of the next token
  pc,         \* what is read next
  frames,     \* the calls of KeyValue::Parse, the innermost last
  key,        \* the key read in the innermost call
  nodes,      \* the root and what readPool gave out
  bufferSize, \* bufferSize of the root
  written,    \* the bytes BuildData wrote to the buffer
  code        \* the answer

vars == <<text, str, pc, frames, key, nodes, bufferSize, written, code>>

NoString == 0

Node == [key : Nat, value : Nat, block : BOOLEAN, kids : Seq(Nat)]

EmptyBlock == [key |-> NoString, value |-> NoString, block |-> FALSE, kids |-> <<>>]

ParserInit ==
  /\ text \in Texts
  /\ str = 1
  /\ pc = "key"
  /\ frames = <<[node |-> Root, key |-> NoString]>>
  /\ key = NoString
  /\ nodes = <<[EmptyBlock EXCEPT !.block = TRUE]>>
  /\ bufferSize = 0
  /\ written = 0
  /\ code = NoCode

-------------------------------------------------------------------------------
AtEnd(p) == p > Len(text)
Char(p) == IF AtEnd(p) THEN "end" ELSE text[p]

(* IsWhitespace holds of the terminator, too.  As a fault: the loop does   *)
(* not look for it, and is beyond the text after its last token.           *)
SkipsTerminator(p) == IF Char(p) \in {"blank", "end"} THEN p + 1 ELSE p
SkipWhitespace(p) == IF Char(p) = "blank" THEN p + 1 ELSE p

IsString(p) == Char(p) \in {"word", "quoted", "slash"}

(* A read without quotes ends at once on a slash.  As a fault: a string    *)
(* that is read without moving the position.                               *)
Unmoved(p) == p
Behind(p) == IF Char(p) = "slash" THEN p ELSE p + 1

StringAt(p) == IF Char(p) = "slash" THEN NoString ELSE p
LengthOf(t, s) ==
  IF s = NoString THEN 0
  ELSE IF t[s] = "word" THEN WordLength ELSE QuotedLength

(* What a string adds to the size of the buffer.  As a fault: its          *)
(* terminator is forgotten.                                                *)
BareSize(s) == LengthOf(text, s)
SizeOf(s) == LengthOf(text, s) + 1

IsRoot == Len(frames) = 1
Current == Last(frames)

(* The error that the token where a key, or a value, should begin leads    *)
(* to.  As a fault: the end of the text ends every block.                  *)
KeyErrorButEnd(c) ==
  CASE c = "open" -> "UNEXPECTED_START_OF_BLOCK"
    [] c = "close" /\ IsRoot -> "UNEXPECTED_END_OF_BLOCK"
    [] c = "unclosed" -> "INCOMPLETE_STRING"
    [] OTHER -> NoError

KeyError(c) ==
  CASE c = "open" -> "UNEXPECTED_START_OF_BLOCK"
    [] c = "close" /\ IsRoot -> "UNEXPECTED_END_OF_BLOCK"
    [] c = "end" /\ ~IsRoot -> "INCOMPLETE_BLOCK"
    [] c = "unclosed" -> "INCOMPLETE_STRING"
    [] OTHER -> NoError

ValueError(c) ==
  CASE c = "close" -> "UNEXPECTED_END_OF_BLOCK"
    [] c = "end" /\ ~IsRoot -> "INCOMPLETE_BLOCK"
    [] c = "unclosed" -> "INCOMPLETE_STRING"
    [] OTHER -> NoError

(* The list of a block's children grows at its end.  As a fault: at its    *)
(* beginning.                                                              *)
LinkedFirst(ns, parent, child) == [ns EXCEPT ![parent].kids = <<child>> \o @]
Linked(ns, parent, child) == [ns EXCEPT ![parent].kids = Append(@, child)]

-------------------------------------------------------------------------------
(* The innermost call returns without an error: the root's ends the parse, *)
(* another hands its block to the call around it, which closes the block   *)
(* and links it.                                                           *)
ReturnsTo(p) ==
  /\ str' = p
  /\ IF IsRoot
     THEN pc' = "build" /\ UNCHANGED <<frames, key, nodes>>
     ELSE /\ frames' = Front(frames)
          /\ nodes' = Linked([nodes EXCEPT ![Current.node].key = Current.key,
                                           ![Current.node].block = TRUE],
                             frames[Len(frames) - 1].node, Current.node)
          /\ pc' = "key"
          /\ key' = NoString
  /\ UNCHANGED <<text, bufferSize, written, code>>

(* An error is returned through all calls. *)
Fails(error) ==
  /\ error # NoError
  /\ code' = error
  /\ pc' = "answered"
  /\ UNCHANGED <<text, str, frames, key, nodes, bufferSize, written>>

(* The test of the loop, before the blanks are skipped. *)
TextEnds ==
  /\ pc = "key"
  /\ AtEnd(str)
  /\ ReturnsTo(str)

ReadKey(p) ==
  /\ IsString(p)
  /\ key' = StringAt(p)
  /\ str' = Behind(p)
  /\ bufferSize' = bufferSize + SizeOf(key')
  /\ pc' = "value"
  /\ UNCHANGED <<text, frames, nodes, written, code>>

BlockEnds(p) ==
  /\ Char(p) = "close"
  /\ ~IsRoot
  /\ ReturnsTo(p + 1)

TextEndsInBlanks(p) ==
  /\ AtEnd(p)
  /\ KeyError("end") = NoError
  /\ ReturnsTo(p)

KeyStep ==
  /\ pc = "key"
  /\ ~AtEnd(str)
  /\ LET p == SkipWhitespace(str) IN
     ReadKey(p) \/ BlockEnds(p) \/ TextEndsInBlanks(p) \/ Fails(KeyError(Char(p)))

-------------------------------------------------------------------------------
ReadValue(p) ==
  /\ IsString(p)
  /\ Len(nodes) < MaxNodes
  /\ LET pair == [key |-> key, value |-> StringAt(p), block |-> FALSE, kids |-> <<>>]
     IN nodes' = Linked(Append(nodes, pair), Current.node, Len(nodes) + 1)
  /\ bufferSize' = bufferSize + SizeOf(StringAt(p))
  /\ str' = Behind(p)
  /\ pc' = "key"
  /\ key' = NoString
  /\ UNCHANGED <<text, frames, written, code>>

OpenBlock(p) ==
  /\ Char(p) = "open"
  /\ Len(nodes) < MaxNodes
  /\ nodes' = Append(nodes, EmptyBlock)
  /\ frames' = Append(frames, [node |-> Len(nodes) + 1, key |-> key])
  /\ key' = NoString
  /\ str' = p + 1
  /\ pc' = "key"
  /\ UNCHANGED <<text, bufferSize, written, code>>

(* A key of the root without a value is dropped. *)
DropKey(p) ==
  /\ AtEnd(p)
  /\ IsRoot
  /\ ReturnsTo(p)

ValueStep ==
  /\ pc = "value"
  /\ LET p == SkipWhitespace(str) IN
     ReadValue(p) \/ OpenBlock(p) \/ DropKey(p) \/ Fails(ValueError(Char(p)))

-------------------------------------------------------------------------------
(* The sum of a row of numbers, and a row of sequences behind each other.  *)
Total(s) ==
  LET upTo[i \in 0..Len(s)] == IF i = 0 THEN 0 ELSE upTo[i - 1] + s[i]
  IN  upTo[Len(s)]

Joined(s) ==
  LET upTo[i \in 0..Len(s)] == IF i = 0 THEN <<>> ELSE upTo[i - 1] \o s[i]
  IN  upTo[Len(s)]

(* BuildData, ToString and ToStringLength go through a tree in the same    *)
(* way.  What they write or count besides the characters of the strings,   *)
(* their layout, is: for a tab, with a key, with a value, and with the two *)
(* braces of a block, which have a line each.                              *)
KidSize(t, kid, layout, tabs, inside) ==
  layout.tab * tabs + layout.key + LengthOf(t, kid.key)
    + IF kid.block THEN 2 * (layout.tab * tabs + layout.brace) + inside
      ELSE layout.value + LengthOf(t, kid.value)

Sizes(t, ns, layout) ==
  LET size[m \in DOMAIN ns] ==
        [tabs \in Nat |->
           Total([i \in DOMAIN ns[m].kids |->
                    KidSize(t, ns[ns[m].kids[i]], layout, tabs,
                            size[ns[m].kids[i]][tabs + 1])])]
  IN  size

(* KeyValue::BuildData copies keys and values, each with a terminator,     *)
(* going down into the blocks.                                             *)
CopyLayout == [tab |-> 0, key |-> 1, value |-> 1, brace |-> 0]

BytesBelow(n) == Sizes(text, nodes, CopyLayout)[n][0]

BuildData ==
  /\ pc = "build"
  /\ written' = IF bufferSize > 0 THEN BytesBelow(Root) ELSE 0
  /\ code' = NoError
  /\ pc' = "answered"
  /\ UNCHANGED <<text, str, frames, key, nodes, bufferSize>>

Ended == pc = "answered" /\ UNCHANGED vars

ParserNext == TextEnds \/ KeyStep \/ ValueStep \/ BuildData \/ Ended

(* The parser never waits: its caller's thread runs it to its return. *)
ParserSpec == ParserInit /\ [][ParserNext]_vars /\ WF_vars(ParserNext)

-------------------------------------------------------------------------------
(* The type invariant. *)
ParserTypeOK ==
  /\ text \in Texts
  /\ str \in 1..(Len(text) + 1)
  /\ pc \in {"key", "value", "build", "answered"}
  /\ frames \in Seq([node : 1..Len(nodes), key : 0..Len(text)]) \ {<<>>}
  /\ key \in 0..Len(text)
  /\ nodes \in Seq(Node) /\ Len(nodes) \in 1..MaxNodes
  /\ bufferSize \in Nat
  /\ written \in Nat
  /\ code \in Codes \cup {NoCode}

Accepted == pc = "answered" /\ code = NoError

(* What a key-value text is, said of the whole text: braces nest and are   *)
(* all closed, an opening brace follows a key that has no value yet, a     *)
(* closing brace does not, and every string is closed.                     *)
Braces(t, b, i) == Cardinality({j \in 1..i : t[j] = b})
Depth(t, i) == Braces(t, "open", i) - Braces(t, "close", i)

StringsSinceBrace(t, i) ==
  Cardinality({j \in 1..(i - 1) :
    /\ t[j] \in {"word", "quoted"}
    /\ \A k \in j..(i - 1) : t[k] \notin {"open", "close"}})

InPlace(t, i) ==
  /\ t[i] \notin {"unclosed", "slash"}
  /\ Depth(t, i) >= 0
  /\ t[i] = "open" => StringsSinceBrace(t, i) % 2 = 1
  /\ t[i] = "close" => StringsSinceBrace(t, i) % 2 = 0

WellFormed(t) ==
  /\ Depth(t, Len(t)) = 0
  /\ \A i \in DOMAIN t : InPlace(t, i)

EndsBlank(t) == t # <<>> /\ Last(t) = "blank"

(* A well-formed text is accepted, and of the texts that end with a line   *)
(* end no other: an error deep in a block reaches the caller through every *)
(* call (591-593), and a brace is never taken for one of another level.    *)
Decides ==
  pc = "answered" =>
    /\ WellFormed(text) => code = NoError
    /\ EndsBlank(text) /\ code = NoError => WellFormed(text)

(* Without the condition on the end of the text: no block that the text    *)
(* leaves open is accepted (536, INCOMPLETE_BLOCK).                        *)
BlocksAreComplete == Accepted => WellFormed(text)

(* The tokens of a tree and of the text, a string with its position. *)
StringToken(t, s) == <<t[s], s>>
BraceToken(b) == <<b, 0>>

Opening(t, k) == <<StringToken(t, k), BraceToken("open")>>

KidTokens(t, kid, inside) ==
  IF kid.block THEN Opening(t, kid.key) \o inside \o <<BraceToken("close")>>
  ELSE <<StringToken(t, kid.key), StringToken(t, kid.value)>>

TreeTokens(t, ns) ==
  LET below[m \in DOMAIN ns] ==
        Joined([i \in DOMAIN ns[m].kids |->
                  KidTokens(t, ns[ns[m].kids[i]], below[ns[m].kids[i]])])
  IN  below

TokenAt(t, i) ==
  IF t[i] = "blank" THEN <<>>
  ELSE IF t[i] \in {"open", "close"} THEN <<BraceToken(t[i])>> ELSE <<StringToken(t, i)>>

TokensUpTo(t, p) == Joined([i \in 1..p |-> TokenAt(t, i)])

(* The tree of a well-formed text holds every string of the text once, in  *)
(* its order and in its block, save a last key that has no value.          *)
TreeIsText ==
  Accepted /\ WellFormed(text) =>
    LET tree == TreeTokens(text, nodes)[Root]
        all  == TokensUpTo(text, Len(text))
    IN  \/ tree = all
        \/ /\ StringsSinceBrace(text, Len(text) + 1) % 2 = 1
           /\ tree = Front(all)

(* What BuildData writes fits into the buffer, which was sized while       *)
(* parsing (KeyValue.h:187), strings of blocks and of dropped keys         *)
(* included.                                                               *)
BufferFits == written <= bufferSize

(* The parse ends, with an answer. *)
Answered == <>(code # NoCode)

(* Strings are read through a reference to the position, "Otherwise, the   *)
(* parse loop would get stuck!" (26).  A round of the loop that reads      *)
(* neither a key nor a value leaves the position, and all that the next    *)
(* round looks at, as it was.                                              *)
EveryRoundMoves ==
  \A n \in DOMAIN nodes : \A i \in DOMAIN nodes[n].kids :
    LET pair == nodes[nodes[n].kids[i]] IN
    pair.block \/ pair.key # NoString \/ pair.value # NoString

-------------------------------------------------------------------------------
(* What ToString prints, and what ToStringLength counts for it.  A tab is   *)
(* four characters; sizeof counts its terminator, too, and no space is     *)
(* counted behind the key of a block.  As a fault: a tab is counted as it  *)
(* is printed.                                                             *)
PrintedTab == 4
CountedAsPrinted == PrintedTab
CountedTab == PrintedTab + 1

PrintLayout == [tab |-> PrintedTab, key |-> 3, value |-> 3, brace |-> 3]
CountLayout == [tab |-> CountedTab, key |-> 2, value |-> 4, brace |-> 3]

PrintedBelow(n) == Sizes(text, nodes, PrintLayout)[n][0]
CountedBelow(n) == Sizes(text, nodes, CountLayout)[n][0]

(* The blocks of the root that have nothing in them. *)
EmptyAtRoot ==
  {i \in DOMAIN nodes[Root].kids :
     LET kid == nodes[nodes[Root].kids[i]] IN kid.block /\ kid.kids = <<>>}

(* The comment on what ToString allocates says: "Length of all kvs + 1 for *)
(* the null terminator" (746).  It does not hold of the code: for an empty *)
(* block of the root one character less is counted than is printed, and    *)
(* the text can lose its end.  It holds of every text without such a       *)
(* block: below the root the tabs of the braces are counted longer than    *)
(* they are printed, and that is enough for all the blocks there.          *)
PrintFits ==
  Accepted /\ EmptyAtRoot = {} => PrintedBelow(Root) <= CountedBelow(Root)

-------------------------------------------------------------------------------
(* What every step keeps, and what the properties above follow from.  The blocks
   that are still read are nested, and none of them is linked yet; a node is newer
   than the block it lies in. *)
Parsing == pc \in {"key", "value"}

TreeGrows ==
  /\ frames[1].node = Root
  /\ \A f \in DOMAIN frames : \A g \in 1..(f - 1) : frames[g].node < frames[f].node
  /\ \A m \in DOMAIN nodes : \A i \in DOMAIN nodes[m].kids :
       /\ nodes[m].kids[i] \in (m + 1)..Len(nodes)
       /\ \A f \in DOMAIN frames : nodes[m].kids[i] # frames[f].node

(* What has been read of the text is in place, and the calls are as many as there are
   braces open, unless the text's end has begun to close blocks. *)
PlaceKnown ==
  /\ Parsing =>
       /\ \A i \in 1..(str - 1) : InPlace(text, i)
       /\ Len(frames) - 1 <= Depth(text, str - 1)
       /\ ~AtEnd(str) => Len(frames) - 1 = Depth(text, str - 1)
       /\ EndsBlank(text) => ~AtEnd(str)
       /\ \/ Char(str) = "slash"
          \/ StringsSinceBrace(text, str) % 2 = (IF pc = "key" THEN 0 ELSE 1)
  /\ pc = "build" \/ Accepted => (EndsBlank(text) => WellFormed(text))
  /\ pc = "answered" /\ code # NoError => ~WellFormed(text)

(* The buffer is as large as what is linked below the blocks that are still read, the
   keys of these blocks and a key without a value. *)
OpenSize(f) ==
  Sizes(text, nodes, CopyLayout)[frames[f].node][f - 1]
    + IF f = 1 THEN 0 ELSE SizeOf(frames[f].key)

BufferCounted ==
  /\ Parsing => bufferSize = Total([f \in DOMAIN frames |-> OpenSize(f)])
                               + IF pc = "value" THEN SizeOf(key) ELSE 0
  /\ pc = "build" => BytesBelow(Root) <= bufferSize
  /\ written <= bufferSize

(* The blocks that are still read, one behind the other, hold what has been read of a
   well-formed text. *)
OpenTokens(f) ==
  (IF f = 1 THEN <<>> ELSE Opening(text, frames[f].key))
    \o TreeTokens(text, nodes)[frames[f].node]

TokensKept ==
  WellFormed(text) =>
    /\ Parsing => Joined([f \in DOMAIN frames |-> OpenTokens(f)])
                    \o (IF pc = "value" THEN <<StringToken(text, key)>> ELSE <<>>)
                  = TokensUpTo(text, str - 1)
    /\ pc = "build" \/ Accepted =>
         \/ TreeTokens(text, nodes)[Root] = TokensUpTo(text, Len(text))
         \/ /\ StringsSinceBrace(text, Len(text) + 1) % 2 = 1
            /\ TreeTokens(text, nodes)[Root] = Front(TokensUpTo(text, Len(text)))

ParserInv ==
  /\ ParserTypeOK
  /\ TreeGrows
  /\ PlaceKnown
  /\ BufferCounted
  /\ TokensKept
===============================================================================
