CONSTANTS
  NUM_CHARS = 3
  TOKEN_BUF_SIZE = 2
  ARGS_BUF_SIZE = 2
  MaxChars = 11
  NULL = NULL
  TypedLines <- AllLines
SPECIFICATION ParserSpec
INVARIANTS InBounds ParsedAsMeant
