\* Layouts, nodes with properties, documents with directives, canonical output.
SPECIFICATION TripSpec
CONSTANTS
  Lexemes = {}
  MaxColumn = 0
  MaxFlow = 9
  KeyLength = 48
  MaxDepth = 9
  BestIndent = 2
  BestWidth = 5
  KeyLimit = 6
  Analysis <- Scalars
  Cases <- MCCases
INVARIANTS ReadsBack Separate NothingStale
