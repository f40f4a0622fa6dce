\* Streams given a byte, two or three at a time, and scalars.
SPECIFICATION TextSpec
CONSTANTS
  Chars <- MCChars
  Width <- MCWidth
  Sizes = {1, 2, 3}
  MaxLength = 3
  MaxAhead = 2
  Settings <- MCSettings
  BestIndent = 2
  Column = 3
CHECK_DEADLOCK FALSE
INVARIANTS PlainReadsBack QuotedReadsBack BlockReadsBack PlacesAreRight
PROPERTIES ReturnsTheText CallsReturn
