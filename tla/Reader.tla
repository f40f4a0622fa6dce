------------------------------- MODULE Reader -------------------------------
(***************************************************************************)
(* reader.py: characters out of a file that is read in pieces, out of a    *)
(* str, or out of a unicode object.  A byte is <<c, i>>, the i-th of       *)
(* character c.  The scanner peeks, takes a prefix or goes forward, never  *)
(* past the NUL at the end.                                                *)
(***************************************************************************)
EXTENDS Integers, SequencesExt, FiniteSetsExt

CONSTANTS
  Chars,       \* LF, CR, x (not printable), BOM, and others
  Width,       \* bytes that a character takes
  Sizes,       \* how much a read() may return; update_raw() asks for 1024
  MaxLength,   \* bound: characters of a stream
  MaxAhead     \* bound: how far the scanner looks or goes at a time

ASSUME ReaderAssumption ==
  /\ Width \in [Chars -> 1..4] /\ {MaxLength, MaxAhead} \subseteq Nat
  /\ Sizes # {} /\ Sizes \subseteq Nat \ {0}
  /\ "NUL" \notin Chars

VARIABLES
  text,            \* the characters of the input
  cut,             \* it ends in the middle of one more character
  input,           \* "file", "str" or "unicode"
  stream,          \* the bytes that are left
  eof, raw_buffer, buffer, pointer, index, line, column, stream_pointer,
  call,            \* the call in progress: what, how long, how many characters it needs
  got,             \* what it returned
  error            \* what was raised, and where

sourceVars == <<text, cut, input>>
markVars == <<index, line, column>>
vars == <<sourceVars, stream, eof, raw_buffer, buffer, pointer, markVars, stream_pointer,
          call, got, error>>

Bytes(c) == [i \in 1..Width[c] |-> <<c, i>>]
Encoded(s) == FlattenSeq([i \in DOMAIN s |-> Bytes(s[i])])
NoError == [what |-> "none", at |-> 0]
Idle == [what |-> "none", length |-> 0, need |-> 0]
None == <<<<"None", 0>>>>   \* raw_buffer once all is decoded
Broken == CHOOSE c \in Chars : Width[c] > 1

UnPrintable(s) == SelectInSeq(s, LAMBDA c : c = "x")

\* The kinds of input.  The first two are decoded, from determine_encoding() on.
AllBytes == Encoded(text) \o (IF cut THEN Front(Bytes(Broken)) ELSE <<>>)
ToDecode ==
  /\ call = [what |-> "determine_encoding", length |-> 0, need |-> 1]
  /\ buffer = <<>> /\ error = NoError

FromFile ==
  input = "file" /\ stream = AllBytes /\ eof = FALSE /\ raw_buffer = <<>> /\ ToDecode
FromStr ==
  input = "str" /\ stream = <<>> /\ eof = TRUE /\ raw_buffer = AllBytes /\ ToDecode
FromUnicode ==
  /\ input = "unicode" /\ ~cut /\ stream = <<>> /\ eof = TRUE /\ raw_buffer = None
  /\ call = Idle
  /\ IF UnPrintable(text) = 0 THEN buffer = Append(text, "NUL") /\ error = NoError
     ELSE buffer = <<>> /\ error = [what |-> "special characters are not allowed",
                                   at |-> UnPrintable(text) - 1]

Init ==
  /\ \E n \in 0..MaxLength : text \in [1..n -> Chars]
  /\ cut \in BOOLEAN /\ (cut => \E c \in Chars : Width[c] > 1)
  /\ pointer = 0 /\ index = 0 /\ line = 0 /\ column = 0 /\ stream_pointer = 0 /\ got = <<>>
  /\ FromFile \/ FromStr \/ FromUnicode
-----------------------------------------------------------------------------
\* Calls.

Busy == call # Idle
\* Mutant of DropRead: what was read stays.
DropNothing == buffer' = buffer /\ pointer' = 0

\* update() drops what was read.
DropRead == buffer' = SubSeq(buffer, pointer + 1, Len(buffer)) /\ pointer' = 0

Call(what, k, test, need) ==
  /\ ~Busy /\ error = NoError
  /\ call' = [what |-> what, length |-> k, need |-> IF test THEN need ELSE 0]
  /\ IF test /\ raw_buffer # None THEN DropRead ELSE UNCHANGED <<buffer, pointer>>
  /\ got' = <<>>
  /\ UNCHANGED <<sourceVars, stream, eof, raw_buffer, markVars, stream_pointer, error>>

\* As the scanner calls them.
peek(k) == index + k <= Len(text) /\ Call("peek", k, pointer + k >= Len(buffer), k + 1)
prefix(k) == Call("prefix", k, pointer + k >= Len(buffer), k)

forward(k) ==
  index + k <= Len(text) /\ k > 0 /\ Call("forward", k, pointer + k + 1 >= Len(buffer), k + 1)

\* update(), one round at a time; the first rounds find out the encoding.
Short == Busy /\ error = NoError /\ raw_buffer # None /\ Len(buffer) < call.need
Detecting == call.what = "determine_encoding" /\ ~eof /\ Len(raw_buffer) < 2 /\ buffer = <<>>

\* The file has n bytes for this read(), or what is left.
Given(n) == Min({n, Len(stream)})
piece(n) == SubSeq(stream, 1, Given(n))

\* Mutant of update_raw: an empty piece is like any other.
update_raw_blind(n) ==
  /\ stream' = SubSeq(stream, Given(n) + 1, Len(stream))
  /\ stream_pointer' = stream_pointer + Given(n)
  /\ eof' = eof

update_raw(n) ==
  /\ stream' = SubSeq(stream, Given(n) + 1, Len(stream))
  /\ stream_pointer' = stream_pointer + Given(n)
  /\ eof' = (eof \/ stream = <<>>)

\* What the codec makes of bytes: the characters that are complete.
Ends(raw) == {i \in DOMAIN raw : raw[i][2] = Width[raw[i][1]]}
Converted(raw) == IF Ends(raw) = {} THEN 0 ELSE CHOOSE i \in Ends(raw) : \A j \in Ends(raw) : j <= i
Decoded(raw) ==
  LET whole[i \in 0..Len(raw)] ==
        IF i = 0 THEN <<>>
        ELSE IF i \in Ends(raw) THEN Append(whole[i - 1], raw[i][1]) ELSE whole[i - 1] IN
  whole[Len(raw)]

Detect ==
  /\ Short /\ Detecting
  /\ \E n \in Sizes : update_raw(n) /\ raw_buffer' = raw_buffer \o piece(n)
  /\ UNCHANGED <<sourceVars, buffer, pointer, markVars, call, got, error>>

\* Mutant of Position: the characters in the buffer are not counted.
PositionUnbuffered(s) == index + UnPrintable(s) - 1

Position(s) == index + Len(buffer) - pointer + UnPrintable(s) - 1

\* The byte of the input after those of raw that are converted.
BytePosition(raw) ==
  (IF input = "file" THEN stream_pointer' - Len(raw) ELSE 0) + Converted(raw)

\* A round that may read n bytes.
Round(n) ==
  LET raw == IF eof THEN raw_buffer ELSE raw_buffer \o piece(n)
      last == eof'
      data == Decoded(raw)
      left == SubSeq(raw, Converted(raw) + 1, Len(raw)) IN
  /\ IF eof THEN UNCHANGED <<stream, eof, stream_pointer>> ELSE update_raw(n)
  /\ IF last /\ left # <<>>
     THEN /\ error' = [what |-> "decode", at |-> BytePosition(raw)]
          /\ raw_buffer' = raw /\ UNCHANGED buffer
     ELSE IF UnPrintable(data) # 0
     THEN /\ error' = [what |-> "special characters are not allowed", at |-> Position(data)]
          /\ raw_buffer' = raw /\ UNCHANGED buffer
     ELSE /\ buffer' = buffer \o data \o (IF last THEN <<"NUL">> ELSE <<>>)
          /\ raw_buffer' = IF last THEN None ELSE left
          /\ UNCHANGED error
  /\ UNCHANGED <<sourceVars, pointer, markVars, call, got>>

Update == Short /\ ~Detecting /\ \E n \in Sizes : Round(n)

\* The lines and columns of the characters that forward() passes.
Breaks(i) == buffer[i] = "LF" \/ (buffer[i] = "CR" /\ buffer[i + 1] # "LF")
After(m, i) ==
  IF Breaks(i) THEN [line |-> m.line + 1, column |-> 0]
  ELSE IF buffer[i] = "BOM" THEN m ELSE [m EXCEPT !.column = @ + 1]
Passed(k) ==
  LET at[j \in 0..k] ==
        IF j = 0 THEN [line |-> line, column |-> column] ELSE After(at[j - 1], pointer + j) IN
  at[k]

Return ==
  /\ Busy /\ error = NoError /\ ~Short
  /\ call' = Idle
  /\ IF call.what = "forward"
     THEN /\ pointer' = pointer + call.length /\ index' = index + call.length
          /\ line' = Passed(call.length).line /\ column' = Passed(call.length).column
     ELSE UNCHANGED <<pointer, markVars>>
  /\ got' = CASE call.what = "peek" -> <<buffer[pointer + call.length + 1]>>
              [] call.what = "prefix" -> SubSeq(buffer, pointer + 1, Min({pointer + call.length, Len(buffer)}))
              [] OTHER -> <<>>
  /\ UNCHANGED <<sourceVars, stream, eof, raw_buffer, buffer, stream_pointer, error>>

Next ==
  \/ \E k \in 0..MaxAhead : peek(k) \/ prefix(k) \/ forward(k)
  \/ Detect \/ Update \/ Return

\* A call comes back.
Spec == Init /\ [][Next]_vars /\ WF_vars(Detect \/ Update \/ Return)
-----------------------------------------------------------------------------
Whole == Append(text, "NUL")
Rest(k) == SubSeq(Whole, index + 1, Min({index + k, Len(Whole)}))

\* The scanner sees the text, whatever the pieces of each read() were.
ReturnsTheText ==
  [][Return =>
       /\ call.what = "peek" => got' = <<Whole[index + call.length + 1]>>
       /\ call.what = "prefix" => got' = Rest(call.length)]_vars

LineEnds(n) == {i \in 1..n : text[i] = "LF" \/ (text[i] = "CR" /\ Whole[i + 1] # "LF")}
\* Lines and columns are those of the text: a CR and an LF are one break, also where
\* a piece ends between them.  An error names the first character that is not
\* printable, or the first byte of the character that is cut.
PlacesAreRight ==
  /\ line = Cardinality(LineEnds(index))
  /\ column = Cardinality({i \in 1..index : text[i] # "BOM" /\ \A j \in i..index : j \notin LineEnds(index)})
  /\ error.what = "special characters are not allowed" =>
       text[error.at + 1] = "x" /\ \A i \in 1..error.at : text[i] # "x"
  /\ error.what = "decode" => cut /\ error.at = Len(Encoded(text))

\* A call returns or raises, at the end of the stream too.
CallsReturn == Busy ~> (~Busy \/ error # NoError)
=============================================================================
