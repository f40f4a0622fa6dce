------------------------------- MODULE MCText -------------------------------
(* The two models at the level of characters, in one run: what the reader    *)
(* reads, files in pieces, and scalars as the emitter writes them and the    *)
(* scanner reads them.  A behaviour is of one or the other.                  *)
EXTENDS Reader

CONSTANTS Settings, BestIndent, Column   \* see ScalarText
VARIABLE setting                         \* "stream", or the setting of a scalar

S == INSTANCE ScalarText

MCWidth == [a |-> 1, e |-> 2, CR |-> 1, LF |-> 1, x |-> 1, BOM |-> 3]
MCChars == DOMAIN MCWidth

\* Short texts of many kinds of characters, and longer ones of few: with lines
\* that are broken, and in a collection.
Kinds == {"a", " ", "LF", "#", ":", "-", ",", "'", "quote", "slash", "x"}
Layout == {"a", " ", "LF"}
MCSettings ==
  [chars |-> [chars |-> Kinds, length |-> 4, parent |-> 0, width |-> 5],
   lines |-> [chars |-> Layout, length |-> 8, parent |-> 0, width |-> 5],
   nested |-> [chars |-> Layout, length |-> 8, parent |-> 2, width |-> 20]]

NoStream ==
  /\ cut = FALSE /\ input = "none" /\ stream = <<>> /\ eof = FALSE /\ raw_buffer = <<>>
  /\ buffer = <<>> /\ pointer = 0 /\ index = 0 /\ line = 0 /\ column = 0
  /\ stream_pointer = 0 /\ call = Idle /\ got = <<>>
  /\ error = [what |-> "no stream", at |-> 0]

TextInit ==
  \/ Init /\ setting = "stream"
  \/ setting \in DOMAIN Settings /\ text = <<>> /\ NoStream

TypeCharacter ==
  /\ setting # "stream" /\ S!Type
  /\ UNCHANGED <<cut, input, stream, eof, raw_buffer, buffer, pointer, markVars,
                 stream_pointer, call, got, error>>
ReaderStep == Next /\ UNCHANGED setting

TextNext == TypeCharacter \/ ReaderStep
TextSpec ==
  TextInit /\ [][TextNext]_<<vars, setting>> /\ WF_vars(Detect \/ Update \/ Return)

\* What is written plain, quoted or as a block is read back.
PlainReadsBack == setting # "stream" => S!PlainReadsBack
QuotedReadsBack == setting # "stream" => S!QuotedReadsBack
BlockReadsBack == setting # "stream" => S!BlockReadsBack
=============================================================================
