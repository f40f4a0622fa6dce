------------------------------ MODULE ScalarText ------------------------------
(***************************************************************************)
(* Scalars, character by character: what analyze_scalar() of emitter.py    *)
(* allows, how the writers write, and what the scan_* functions of         *)
(* scanner.py read.  A text grows by a character at a time; the invariants *)
(* are about all ways to write it.                                         *)
(* LF: a line break, x: a character that is not printable, quote: a double *)
(* one, slash: a backslash.  An escape sequence is one character here:     *)
(* esc_ and what it stands for.                                            *)
(***************************************************************************)
EXTENDS Integers, SequencesExt, FiniteSetsExt

CONSTANTS
  Settings,    \* name -> what texts are made of, how long they may be, the indentation
               \* of the collection that the scalar is in (0 for a root), best_width
  BestIndent,
  Column       \* where the scalar begins, or its header does

VARIABLES text, setting

Parent == Settings[setting].parent
BestWidth == Settings[setting].width
White == {" ", "LF"}
Length == Len(text)
\* self.indent of the emitter in expect_scalar().
Indent == Parent + BestIndent
At(s, i) == IF i \in DOMAIN s THEN s[i] ELSE "NUL"
-----------------------------------------------------------------------------
\* analyze_scalar()

followed(s, i) == At(s, i + 1) \in White \cup {"NUL"}
preceded(i) == i = 1 \/ text[i - 1] \in White
Indicators == {"#", ",", "[", "]", "{", "}", "&", "*", "!", "|", ">", "'", "quote", "%", "@"}

document_marker == Length >= 3 /\ \A i \in 1..3 : text[i] = "-"
block_indicators ==
  \/ document_marker
  \/ text[1] \in Indicators
  \/ text[1] \in {"-", "?", ":"} /\ followed(text, 1)
  \/ \E i \in 2..Length : \/ text[i] = ":" /\ followed(text, i)
                          \/ text[i] = "#" /\ preceded(i)
flow_indicators ==
  \/ block_indicators
  \/ text[1] \in {"?", ":"}
  \/ \E i \in 2..Length : text[i] \in {",", "?", "[", "]", "{", "}", ":"}

line_breaks == "LF" \in Range(text)
special_characters == "x" \in Range(text)
Pair(a, b) == \E i \in 1..(Length - 1) : text[i] = a /\ text[i + 1] = b
break_space == Pair("LF", " ")
space_break == Pair(" ", "LF")
Borders == {text[1], text[Length]}

\* Mutant of allow_block_plain: spaces at the end.
allow_plain_spaces == ~line_breaks /\ ~special_characters /\ ~block_indicators

allow_block_plain ==
  text = <<>> \/ (White \cap Borders = {} /\ ~line_breaks /\ ~special_characters
                    /\ ~block_indicators)
allow_flow_plain == text # <<>> /\ allow_block_plain /\ ~flow_indicators
allow_single_quoted == text = <<>> \/ (~special_characters /\ ~break_space /\ ~space_break)
allow_block ==
  text # <<>> /\ text[Length] # " " /\ ~space_break /\ ~special_characters
-----------------------------------------------------------------------------
\* Writers.

Pen(column, indention) ==
  [out |-> <<>>, column |-> column, whitespace |-> indention, indention |-> indention]
write(p, s) == [p EXCEPT !.out = @ \o s, !.column = @ + Len(s)]
write_line_break(p) ==
  [p EXCEPT !.out = Append(@, "LF"), !.column = 0, !.whitespace = TRUE, !.indention = TRUE]
write_indent(p) ==
  LET line == IF ~p.indention \/ p.column > Indent \/ (p.column = Indent /\ ~p.whitespace)
              THEN write_line_break(p) ELSE p IN
  IF line.column >= Indent THEN line
  ELSE [write(line, [i \in 1..(Indent - line.column) |-> " "]) EXCEPT !.whitespace = TRUE]
WriteBreaks(p, n) == FoldLeft(LAMBDA q, i : write_line_break(q), p, [i \in 1..n |-> i])

\* The chunks that the writers and scanners take at a time: runs of spaces, of
\* breaks, and of others, or as kinds tells them apart.
Runs(s, kinds) ==
  FoldLeft(LAMBDA runs, i :
             IF runs # <<>> /\ Last(runs).kind = kinds[i]
             THEN Append(Front(runs), [Last(runs) EXCEPT !.chars = Append(@, s[i])])
             ELSE Append(runs, [kind |-> kinds[i], chars |-> <<s[i]>>, first |-> runs = <<>>]),
           <<>>, [i \in DOMAIN s |-> i])
SpaceBreak(s) == [i \in DOMAIN s |-> IF s[i] \in White THEN s[i] ELSE "other"]
Break(s) == [i \in DOMAIN s |-> IF s[i] = "LF" THEN "LF" ELSE "other"]

\* A single space, where a line that is too long may be broken.
Folds(p, r, split) == Len(r.chars) = 1 /\ p.column > BestWidth /\ split

write_plain(split) ==
  LET step(p, r) ==
        IF r.kind = " " /\ Folds(p, r, split)
        THEN [write_indent(p) EXCEPT !.whitespace = FALSE, !.indention = FALSE]
        ELSE write(p, r.chars) IN
  FoldLeft(step, Pen(Column, FALSE), Runs(text, SpaceBreak(text))).out

DoubleQuotes(s) == FlattenSeq([i \in DOMAIN s |-> IF s[i] = "'" THEN <<"'", "'">> ELSE <<s[i]>>])

\* Mutant of SingleStep: one break for one.
SingleStepFlat(p, r, end, split) ==
  IF r.kind = "LF" THEN write_indent(WriteBreaks(p, Len(r.chars)))
  ELSE IF r.kind = " " /\ Folds(p, r, split) /\ ~r.first /\ ~end THEN write_indent(p)
  ELSE write(p, DoubleQuotes(r.chars))

SingleStep(p, r, end, split) ==
  IF r.kind = "LF" THEN write_indent(WriteBreaks(p, Len(r.chars) + 1))
  ELSE IF r.kind = " " /\ Folds(p, r, split) /\ ~r.first /\ ~end THEN write_indent(p)
  ELSE write(p, DoubleQuotes(r.chars))

write_single_quoted(split) ==
  LET runs == Runs(text, SpaceBreak(text))
      step(p, i) == SingleStep(p, runs[i], i = Len(runs), split) IN
  FoldLeft(step, Pen(Column + 1, FALSE), [i \in DOMAIN runs |-> i]).out

Escape == [c \in {"quote", "slash", "LF", "x"} |->
  CASE c = "quote" -> "esc_quote" [] c = "slash" -> "esc_slash" [] c = "LF" -> "esc_LF"
    [] c = "x" -> "esc_x"]
EscapeWidth(c) == IF c = "x" THEN 4 ELSE 2

\* One round of the loop of write_double_quoted(); q.start: what is not written
\* yet begins there.  The text is written when an escape comes, or a line ends.
Escaping(q, i) ==
  LET c == At(text, i) IN
  IF c \notin DOMAIN Escape \cup {"NUL"} THEN q
  ELSE LET p == write(q.pen, SubSeq(text, q.start, i - 1)) IN
       IF c = "NUL" THEN [pen |-> p, start |-> i]
       ELSE [pen |-> [write(p, <<Escape[c]>>) EXCEPT !.column = @ + EscapeWidth(c) - 1],
             start |-> i + 1]
Splitting(q, i, split) ==
  LET from == IF q.start < i THEN i ELSE q.start
      p == [write_indent(write(q.pen, Append(SubSeq(text, q.start, i - 1), "slash")))
              EXCEPT !.whitespace = FALSE, !.indention = FALSE] IN
  IF 1 < i /\ i < Length /\ (text[i] = " " \/ q.start >= i)
       /\ q.pen.column + (i - q.start) > BestWidth /\ split
  THEN [pen |-> IF text[from] = " " THEN write(p, <<"slash">>) ELSE p, start |-> from]
  ELSE q

write_double_quoted(split) ==
  LET step(q, i) == Splitting(Escaping(q, i), i, split) IN
  FoldLeft(step, [pen |-> Pen(Column + 1, FALSE), start |-> 1],
           [i \in 1..(Length + 1) |-> i]).pen.out

\* determine_block_hints()
Hinted == text[1] \in White
\* Mutant of Chomping: a break alone is no break to keep.
ChompingAlone ==
  IF text[Length] # "LF" THEN "strip"
  ELSE IF Length > 1 /\ text[Length - 1] = "LF" THEN "keep" ELSE "clip"

Chomping ==
  IF text[Length] # "LF" THEN "strip"
  ELSE IF Length = 1 \/ text[Length - 1] = "LF" THEN "keep" ELSE "clip"

\* A block begins on a line of its own.
BlockPen == [Pen(0, TRUE) EXCEPT !.out = <<>>]
EndLine(p) == IF text[Length] = "LF" THEN p ELSE write_line_break(p)

write_literal ==
  LET step(p, r) ==
        IF r.kind = "LF" THEN WriteBreaks(p, Len(r.chars))
        ELSE [write_indent(p) EXCEPT !.out = @ \o r.chars] IN
  EndLine(FoldLeft(step, BlockPen, Runs(text, Break(text)))).out

\* Lines that begin with a space keep their breaks; all others lose one.
FoldedStep(p, r, before, after) ==
  IF r.kind = "LF"
  THEN LET extra == before # " " /\ after \notin {" ", "NUL"}
           q == WriteBreaks(p, Len(r.chars) + (IF extra THEN 1 ELSE 0)) IN
       IF after = "NUL" THEN q ELSE write_indent(q)
  ELSE IF r.kind = " " /\ Len(r.chars) = 1 /\ p.column > BestWidth THEN write_indent(p)
  ELSE write(p, r.chars)

write_folded ==
  LET runs == Runs(text, SpaceBreak(text))
      Starts == {i \in DOMAIN runs : i = 1 \/ runs[i - 1].kind = "LF"}
      \* the first character of the line before break i; a break that comes
      \* first is as after a space
      before(i) == IF i = 1 THEN " " ELSE runs[Max({j \in Starts : j < i})].chars[1]
      after(i) == IF i = Len(runs) THEN "NUL" ELSE runs[i + 1].chars[1]
      step(p, i) == FoldedStep(p, runs[i], before(i), after(i)) IN
  EndLine(FoldLeft(step, IF runs[1].kind = "LF" THEN BlockPen ELSE write_indent(BlockPen),
                   [i \in DOMAIN runs |-> i])).out
-----------------------------------------------------------------------------
\* Scanners.

\* scan_flow_scalar_spaces() and scan_plain_spaces(): a run of spaces and breaks;
\* a break that is escaped is no space.
Folded(run) ==
  LET spaces == SelectSeq(run, LAMBDA c : c = " ")
      breaks == SelectSeq(run, LAMBDA c : c = "LF")
      lead == SubSeq(run, 1, SelectInSeq(run, LAMBDA c : c # " ") - 1) IN
  IF breaks = <<>> THEN spaces
  ELSE IF "slash" \in Range(run) THEN lead \o Tail(breaks)
  ELSE IF Len(breaks) = 1 THEN <<" ">> ELSE Tail(breaks)

Unescaped(c) ==
  CASE c = "esc_quote" -> "quote" [] c = "esc_slash" -> "slash" [] c = "esc_LF" -> "LF"
    [] c = "esc_x" -> "x" [] c = "esc_space" -> " " [] OTHER -> c
\* A backslash and a space are an escape, and no white space; a backslash and a
\* break are white space.
JoinEscapes(s) ==
  FoldLeft(LAMBDA t, c : IF t # <<>> /\ Last(t) = "slash" /\ c = " "
                         THEN Append(Front(t), "esc_space") ELSE Append(t, c), <<>>, s)
FlowKind(s, white) == [i \in DOMAIN s |-> IF s[i] \in white THEN "white" ELSE "other"]

\* What is between double quotes; two quotes in single ones are one.
scan_double(s) ==
  LET joined == JoinEscapes(s)
      runs == Runs(joined, FlowKind(joined, White \cup {"slash"}))
      value(r) == IF r.kind = "white" THEN Folded(r.chars)
                  ELSE [i \in DOMAIN r.chars |-> Unescaped(r.chars[i])] IN
  FlattenSeq([i \in DOMAIN runs |-> value(runs[i])])
scan_single(s) ==
  LET single(chars) ==
        FoldLeft(LAMBDA t, c : IF t.odd /\ c = "'" THEN [t EXCEPT !.odd = FALSE]
                               ELSE [out |-> Append(t.out, c), odd |-> c = "'"],
                 [out |-> <<>>, odd |-> FALSE], chars).out
      runs == Runs(s, FlowKind(s, White))
      value(r) == IF r.kind = "other" THEN single(r.chars) ELSE Folded(r.chars) IN
  FlattenSeq([i \in DOMAIN runs |-> value(runs[i])])

\* check_plain() and scan_plain(): where a plain scalar ends.
check_plain(s, flow) ==
  \/ At(s, 1) \notin White \cup Indicators \cup {"NUL", "-", "?", ":"}
  \/ ~followed(s, 1) /\ (s[1] = "-" \/ (~flow /\ s[1] \in {"?", ":"}))
Stops(s, i, flow) ==
  \/ s[i] = "#" /\ (i = 1 \/ s[i - 1] \in White)
  \/ IF flow THEN s[i] \in {",", ":", "?", "[", "]", "{", "}"} ELSE s[i] = ":" /\ followed(s, i)
scan_plain(s, flow) ==
  LET end == IF check_plain(s, flow) THEN SelectInSeq([i \in DOMAIN s |-> i],
                                                     LAMBDA i : Stops(s, i, flow)) ELSE 1
      scalar == IF end = 0 THEN s ELSE SubSeq(s, 1, end - 1)
      runs == Runs(scalar, FlowKind(scalar, White))
      value(r) == IF r.kind = "other" THEN r.chars ELSE Folded(r.chars) IN
  FlattenSeq([i \in DOMAIN runs |-> value(runs[i])])

\* Lines of a block scalar: how many spaces they begin with, and what follows.
Lines(s) ==
  FoldLeft(LAMBDA lines, c :
             IF c = "LF" THEN Append(lines, <<>>)
             ELSE Append(Front(lines), Append(Last(lines), c)), <<<<>>>>, s)
Spaces(line) ==
  LET i == SelectInSeq(line, LAMBDA c : c # " ") IN IF i = 0 THEN Len(line) ELSE i - 1
Stripped(line, n) == SubSeq(line, n + 1, Len(line))

\* scan_block_scalar().  The last line belongs to what
\* comes after the scalar.
scan_block_scalar(s, folded) ==
  LET lines == Front(Lines(s))
      first == SelectInSeq(lines, LAMBDA l : Spaces(l) < Len(l))
      blank == IF first = 0 THEN lines ELSE SubSeq(lines, 1, first)
      indent == IF Hinted THEN Parent + BestIndent
                ELSE Max({Parent + 1} \cup {Spaces(blank[i]) : i \in DOMAIN blank})
      content == [i \in DOMAIN lines |-> Stripped(lines[i], indent)]
      full == {i \in DOMAIN lines : content[i] # <<>>}
      lead(i) == content[i] # <<>> /\ content[i][1] # " "
      next(i) == Min({j \in full : j > i})
      \* the break after line i, and those of the blank lines before the next
      after(i) ==
        LET end == IF \E j \in full : j > i THEN next(i) ELSE Len(lines) + 1
            breaks == [k \in 1..(end - i - 1) |-> "LF"] IN
        IF end \in full
        THEN (IF folded /\ lead(i) /\ lead(end)
              THEN IF breaks = <<>> THEN <<" ">> ELSE <<>> ELSE <<"LF">>) \o breaks
        ELSE CASE Chomping = "strip" -> <<>> [] Chomping = "clip" -> <<"LF">>
               [] Chomping = "keep" -> <<"LF">> \o breaks
      start == IF full # {} THEN Min(full) - 1
               ELSE IF Chomping = "keep" THEN Len(lines) ELSE 0 IN
  [k \in 1..start |-> "LF"]
    \o FlattenSeq([i \in DOMAIN lines |->
                     IF i \in full THEN content[i] \o after(i) ELSE <<>>])
-----------------------------------------------------------------------------
Type ==
  /\ Length < Settings[setting].length
  /\ \E c \in Settings[setting].chars : text' = Append(text, c)
  /\ UNCHANGED setting

\* A plain scalar is written only if the scanner reads it back: at the start of
\* a line or not, broken into lines or as a simple key, whatever it begins
\* with or looks like.
PlainReadsBack ==
  text # <<>> => \A split \in BOOLEAN :
    /\ allow_block_plain => scan_plain(write_plain(split), FALSE) = text
    /\ allow_flow_plain => scan_plain(write_plain(split), TRUE) = text

\* Quoted scalars come back with all their spaces and breaks.
QuotedReadsBack ==
  \A split \in BOOLEAN :
    /\ allow_single_quoted => scan_single(write_single_quoted(split)) = text
    /\ scan_double(write_double_quoted(split)) = text

\* So do block scalars, in a collection and at the root of a document, with the
\* hints that the header has; folded ones as long as none of their lines is
\* longer than best_width, where write_folded() would break it.
NoLongLines == Indent + Length <= BestWidth
BlockReadsBack ==
  allow_block =>
    /\ scan_block_scalar(write_literal, FALSE) = text
    /\ NoLongLines => scan_block_scalar(write_folded, TRUE) = text
=============================================================================
