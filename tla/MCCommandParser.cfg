SPECIFICATION ParserSpec
CONSTANTS
  Words = {w1, w2}
  MaxTokens = 5
  NoFile = NoFile
INVARIANT ParsesGrammar
\* get_command returns once.
CHECK_DEADLOCK FALSE
