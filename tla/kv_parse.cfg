SPECIFICATION ParserSpec
CONSTANTS
  WordLength = 2
  QuotedLength = 0
  MaxNodes = 6
  Texts <- MCTexts
INVARIANT ParserTypeOK
INVARIANT Decides
INVARIANT TreeIsText
INVARIANT BufferFits
INVARIANT PrintFits
INVARIANT ParserInv
PROPERTY Answered
