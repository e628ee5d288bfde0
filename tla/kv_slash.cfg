SPECIFICATION ParserSpec
CONSTANTS
  WordLength = 2
  QuotedLength = 0
  MaxNodes = 6
  Texts <- SlashTexts
INVARIANT EveryRoundMoves
