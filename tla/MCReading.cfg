\* Texts of lines so short that both stacks stay small.
SPECIFICATION Spec
CONSTANTS
  Lexemes = {"%TAG", "---", "...", "[", "]", "{", "}", ",", "-", "?", ":", "&",
             "!x!", "*", "a", "|", "end"}
  MaxColumn = 2
  MaxFlow = 1
  KeyLength = 2
  MaxDepth = 3
CHECK_DEADLOCK FALSE
INVARIANTS KeysPointAtTheirTokens BlocksAgree ParserDetectsIt MarksMatch HandlesOfTheDocument
PROPERTY WellNested
