------------------------------- MODULE Emitter -------------------------------
(***************************************************************************)
(* emitter.py: from events to text, lexeme by lexeme.  The source's state  *)
(* functions keep their names, without `expect_'.  An event is handled in  *)
(* one step, once enough events after it are known; `out' is what has been *)
(* written, where the writer stands, and what was prepared for the node in *)
(* hand.  A text is known by its length: anchors, tags and scalars are     *)
(* their lengths, 0 for none.  The tags of a TAG directive are written as  *)
(* the version of a YAML directive is, and are left out.                   *)
(***************************************************************************)
EXTENDS Integers, SequencesExt

CONSTANTS
  BestIndent, BestWidth,
  KeyLimit,    \* 128 in the source: a simple key is shorter
  Analysis     \* analyze_scalar() of the scalars: value -> record

VARIABLES
  canonical,       \* an option of the emitter; it never changes
  events,          \* the queue
  state, states,   \* the function to call next, and those after it
  indents,         \* self.indents with self.indent as its last element; -1: None
  flow_level,
  out

Unprepared == [anchor |-> 0, tag |-> 0, analysis |-> "None", style |-> "None"]
EmitterInit ==
  /\ events = <<>> /\ state = "stream_start" /\ states = <<>>
  /\ indents = <<-1>> /\ flow_level = 0
  /\ out = [text |-> <<>>, column |-> 0, nl |-> FALSE,
            whitespace |-> TRUE, indention |-> TRUE, open_ended |-> FALSE,
            prepared |-> Unprepared]
-----------------------------------------------------------------------------
\* Events wait for those after them.

StartsLevel == {"DocumentStart", "SequenceStart", "MappingStart"}
EndsLevel == {"DocumentEnd", "SequenceEnd", "MappingEnd"}
Awaited == [DocumentStart |-> 1, SequenceStart |-> 2, MappingStart |-> 3]

\* What the first event starts is over before the i-th one ends.
Level(i) ==
  FoldLeft(LAMBDA level, e : IF e.type = "StreamEnd" THEN -1
                             ELSE IF e.type \in StartsLevel THEN level + 1
                             ELSE IF e.type \in EndsLevel THEN level - 1 ELSE level,
           0, SubSeq(events, 2, i))
need_events(count) ==
  Len(events) < count + 1 /\ \A i \in 2..Len(events) : Level(i) >= 0

need_more_events ==
  events # <<>> => events[1].type \in StartsLevel /\ need_events(Awaited[events[1].type])

event == Head(events)
\* check_empty_sequence(), check_empty_mapping() and check_empty_document().
CheckEmpty(end) == Len(events) > 1 /\ events[2].type = end
check_empty_sequence == event.type = "SequenceStart" /\ CheckEmpty("SequenceEnd")
check_empty_mapping == event.type = "MappingStart" /\ CheckEmpty("MappingEnd")
check_empty_document ==
  CheckEmpty("Scalar") /\ events[2].anchor = 0 /\ events[2].tag = 0
    /\ Analysis[events[2].value].empty
-----------------------------------------------------------------------------
\* Writers.  A lexeme is as the scanner will see it; `indent' is where its
\* lines after the first begin, `hint' whether a block scalar says so.

write_line_break(o) ==
  [o EXCEPT !.whitespace = TRUE, !.indention = TRUE, !.nl = TRUE, !.column = 0]

Put(o, ch, col, lines, end, ind, hint) ==
  [o EXCEPT !.nl = FALSE, !.column = end,
            !.text = Append(@, [ch |-> ch, nl |-> o.nl, column |-> col, lines |-> lines,
                                end |-> end, indent |-> ind, hint |-> hint])]

WriteWith(o, ch, length, need_whitespace, whitespace, indention) ==
  LET col == IF o.whitespace \/ ~need_whitespace THEN o.column ELSE o.column + 1 IN
  [Put(o, ch, col, "same", col + length, 0, FALSE) EXCEPT
     !.whitespace = whitespace, !.indention = @ /\ indention, !.open_ended = FALSE]
write_indicator(o, ch) == WriteWith(o, ch, Len(ch), TRUE, FALSE, FALSE)
WriteClose(o, ch) == WriteWith(o, ch, 1, FALSE, FALSE, FALSE)
WriteOpen(o, ch) == WriteWith(o, ch, 1, TRUE, TRUE, FALSE)
WriteItem(o, ch) == WriteWith(o, ch, 1, TRUE, FALSE, TRUE)

write_indent(o, ind) ==
  LET at == IF ind = -1 THEN 0 ELSE ind
      line == IF ~o.indention \/ o.column > at \/ (o.column = at /\ ~o.whitespace)
              THEN write_line_break(o) ELSE o IN
  IF line.column < at THEN [line EXCEPT !.column = at, !.whitespace = TRUE] ELSE line

indent == Last(indents)
\* Mutant of increase_indent: a scalar is not indented.
increase_indent_once(flow, indentless) ==
  Append(indents, IF indent = -1 THEN 0 ELSE IF flow \/ indentless THEN indent
                  ELSE indent + BestIndent)

increase_indent(flow, indentless) ==
  Append(indents, IF indent = -1 THEN IF flow THEN BestIndent ELSE 0
                  ELSE IF indentless THEN indent ELSE indent + BestIndent)
-----------------------------------------------------------------------------
\* Anchors, tags and scalars.

\* What check_simple_key() prepares.
Checked(o) ==
  [o EXCEPT !.prepared.anchor = event.anchor, !.prepared.tag = event.tag,
            !.prepared.analysis = IF event.type = "Scalar" THEN event.value ELSE "None"]
\* Mutant of check_simple_key: keys of any length.
check_any_simple_key ==
  \/ event.type = "Alias"
  \/ /\ event.type = "Scalar"
     /\ ~Analysis[event.value].empty /\ ~Analysis[event.value].multiline
  \/ check_empty_sequence \/ check_empty_mapping

check_simple_key ==
  /\ event.anchor + event.tag
       + (IF event.type = "Scalar" THEN Analysis[event.value].length ELSE 0) < KeyLimit
  /\ \/ event.type = "Alias"
     \/ /\ event.type = "Scalar"
        /\ ~Analysis[event.value].empty /\ ~Analysis[event.value].multiline
     \/ check_empty_sequence \/ check_empty_mapping

\* `&' or `*' and the name.
process_anchor(o, ch) ==
  LET length == IF o.prepared.anchor = 0 THEN event.anchor ELSE o.prepared.anchor IN
  IF event.anchor = 0 THEN [o EXCEPT !.prepared.anchor = 0]
  ELSE [WriteWith(o, ch, 1 + length, TRUE, FALSE, FALSE) EXCEPT !.prepared.anchor = 0]

choose_scalar_style(ctx) ==
  LET a == Analysis[event.value]
      style == event.style
      simple == ctx = "simple_key" IN
  IF style = "double" \/ canonical THEN "double"
  ELSE IF /\ style = "" /\ event.implicit[1]
          /\ ~(simple /\ (a.empty \/ a.multiline))
          /\ IF flow_level > 0 THEN a.flow_plain ELSE a.block_plain THEN ""
  ELSE IF style = "block" /\ flow_level = 0 /\ ~simple /\ a.block THEN "block"
  ELSE IF style \in {"", "single"} /\ a.single /\ ~(simple /\ a.multiline) THEN "single"
  ELSE "double"

Styled(o, ctx) ==
  [o EXCEPT !.prepared.style =
     IF event.type = "Scalar" /\ @ = "None" THEN choose_scalar_style(ctx) ELSE @]

\* A tag that the reader would guess is not written.  `!' says: a string.
TagHidden(o) ==
  /\ ~canonical \/ event.tag = 0
  /\ IF event.type # "Scalar" \/ o.prepared.style = "" THEN event.implicit[1]
     ELSE event.implicit[2]
NoTag(o) == event.tag = 0 /\ ~TagHidden(o) /\ ~(event.type = "Scalar" /\ event.implicit[1])
TagLength(o) ==
  IF event.tag = 0 THEN 1 ELSE IF o.prepared.tag = 0 THEN event.tag ELSE o.prepared.tag

\* Mutant of process_tag: a hidden tag stays prepared.
process_tag_keeping(o) ==
  IF TagHidden(o) THEN o
  ELSE [WriteWith(o, "!", TagLength(o), TRUE, FALSE, FALSE) EXCEPT !.prepared.tag = 0]

process_tag(o) ==
  IF TagHidden(o) THEN [o EXCEPT !.prepared.tag = 0]
  ELSE [WriteWith(o, "!", TagLength(o), TRUE, FALSE, FALSE) EXCEPT !.prepared.tag = 0]

\* A scalar with a space has it before its last character; the line is broken
\* there if it is too long by then.
Broken(a, col, ctx) ==
  a.space /\ ctx # "simple_key" /\ col + a.length - 2 > BestWidth

write_plain(o, a, ctx, ind) ==
  LET opened == [o EXCEPT !.open_ended = @ \/ ctx = "root"]
      col == IF o.whitespace THEN o.column ELSE o.column + 1
      broken == Broken(a, col, ctx) IN
  IF a.empty THEN opened
  ELSE [Put(opened, "a", col, IF broken THEN "across" ELSE "same",
            IF broken THEN ind + 1 ELSE col + a.length, ind, FALSE)
          EXCEPT !.whitespace = FALSE, !.indention = FALSE]

\* Line breaks are written as such in single quotes, and escaped in double ones.
WriteQuoted(o, a, ctx, ind, double) ==
  LET col == IF o.whitespace THEN o.column ELSE o.column + 1
      across == Broken(a, col + 1, ctx) \/ (a.multiline /\ ~double)
      end == IF ~across THEN col + a.length + 2 + (IF double THEN a.escapes ELSE 0)
             ELSE ind + (IF double THEN 4 ELSE 2) IN
  [Put(o, "q", col, IF across THEN "across" ELSE "same", end, ind, FALSE) EXCEPT
     !.whitespace = FALSE, !.indention = FALSE, !.open_ended = FALSE]

\* write_literal() and write_folded(), with determine_block_hints().
WriteBlock(o, a, ind) ==
  LET col == IF o.whitespace THEN o.column ELSE o.column + 1 IN
  [write_line_break(Put(o, "|", col, "past", 0, ind, a.leading)) EXCEPT
     !.open_ended = a.keep]

process_scalar(o, ctx, ind) ==
  LET a == Analysis[IF o.prepared.analysis = "None" THEN event.value ELSE o.prepared.analysis]
      style == o.prepared.style IN
  [ CASE style = "" -> write_plain(o, a, ctx, ind)
      [] style = "block" -> WriteBlock(o, a, ind)
      [] style \in {"single", "double"} -> WriteQuoted(o, a, ctx, ind, style = "double")
    EXCEPT !.prepared.analysis = "None", !.prepared.style = "None"]
-----------------------------------------------------------------------------
\* Nodes.

Leave == UNCHANGED <<indents, flow_level>>
Raise == state' = "raised" /\ UNCHANGED <<states, indents, flow_level, out>>

expect_alias(o, then) ==
  /\ event.type = "Alias"
  /\ IF event.anchor = 0 THEN Raise
     ELSE out' = process_anchor(o, "*") /\ state' = then /\ Leave /\ UNCHANGED states

expect_scalar(o, ctx, then) ==
  /\ event.type = "Scalar"
  /\ out' = process_scalar(o, ctx, Last(increase_indent(TRUE, FALSE)))
  /\ state' = then /\ Leave /\ UNCHANGED states

InFlow == flow_level > 0 \/ canonical \/ event.flow_style
IsSequence == event.type = "SequenceStart"

\* `[', `{'
ExpectFlow(o, then) ==
  /\ \/ IsSequence /\ (InFlow \/ check_empty_sequence)
        /\ out' = WriteOpen(o, "[") /\ state' = "first_flow_sequence_item"
     \/ event.type = "MappingStart" /\ (InFlow \/ check_empty_mapping)
        /\ out' = WriteOpen(o, "{") /\ state' = "first_flow_mapping_key"
  /\ flow_level' = flow_level + 1
  /\ indents' = increase_indent(TRUE, FALSE)
  /\ states' = Append(states, then)

\* The dashes of a sequence that is a value may be where the mapping's keys are.
ExpectBlock(o, ctx, then) ==
  /\ ~InFlow
  /\ \/ IsSequence /\ ~check_empty_sequence
        /\ indents' = increase_indent(FALSE, ctx = "mapping" /\ ~o.indention)
        /\ state' = "first_block_sequence_item"
     \/ event.type = "MappingStart" /\ ~check_empty_mapping
        /\ indents' = increase_indent(FALSE, FALSE) /\ state' = "first_block_mapping_key"
  /\ out' = o /\ states' = Append(states, then) /\ UNCHANGED flow_level

\* expect_node(), after `self.states.append(then)'; ctx is what the node is of.
expect_node(o, ctx, then) ==
  \/ expect_alias(o, then)
  \/ /\ event.type \in {"Scalar", "SequenceStart", "MappingStart"}
     /\ LET p == process_anchor(Styled(o, ctx), "&")
            q == process_tag(p) IN
        IF NoTag(p) THEN Raise
        ELSE expect_scalar(q, ctx, then) \/ ExpectFlow(q, then) \/ ExpectBlock(q, ctx, then)
  \/ /\ event.type \notin {"Alias", "Scalar", "SequenceStart", "MappingStart"}
     /\ Raise

\* A key is `simple', or the `?' of q comes before it.
KeyNode(o, q, simple_value, value) ==
  IF ~canonical /\ check_simple_key
  THEN expect_node(Checked(o), "simple_key", simple_value)
  ELSE expect_node(IF canonical THEN q ELSE Checked(q), "mapping", value)

\* The end of a collection.
EndsIt(type, o) ==
  /\ event.type = type
  /\ indents' = Front(indents) /\ state' = Last(states) /\ states' = Front(states)
  /\ out' = o
-----------------------------------------------------------------------------
\* Streams and documents.

Next(s) == state' = s /\ UNCHANGED <<states, indents, flow_level>>

stream_start ==
  /\ state = "stream_start" /\ event.type = "StreamStart"
  /\ Next("first_document_start") /\ UNCHANGED out

CloseOpenEnded(o) == IF o.open_ended THEN write_indent(write_indicator(o, "..."), indent) ELSE o
DocumentStates == {"first_document_start", "document_start"}

\* A directive has the line break after it.
write_version_directive(o) ==
  [write_line_break(Put(o, "%YAML", o.column, "past", 0, 0, FALSE)) EXCEPT !.nl = FALSE]

document_start ==
  LET o1 == IF event.version THEN CloseOpenEnded(out) ELSE out
      o2 == IF event.version THEN write_version_directive(o1) ELSE o1
      implicit == /\ state = "first_document_start"
                  /\ ~event.explicit /\ ~canonical /\ ~event.version /\ ~check_empty_document
      o3 == write_indicator(write_indent(o2, indent), "---") IN
  /\ state \in DocumentStates /\ event.type = "DocumentStart"
  /\ out' = IF implicit THEN o2 ELSE IF canonical THEN write_indent(o3, indent) ELSE o3
  /\ Next("document_root")

StreamEnd ==
  /\ state \in DocumentStates /\ event.type = "StreamEnd"
  /\ LET o == CloseOpenEnded(out) IN out' = Put(o, "end", o.column, "same", o.column, 0, FALSE)
  /\ Next("nothing")

document_root ==
  /\ state = "document_root"
  /\ expect_node(out, "root", "document_end")

document_end ==
  /\ state = "document_end" /\ event.type = "DocumentEnd"
  /\ LET o == write_indent(out, indent) IN
     out' = IF event.explicit THEN write_indent(write_indicator(o, "..."), indent) ELSE o
  /\ Next("document_start")

Unexpected ==
  /\ \/ state = "stream_start" /\ event.type # "StreamStart"
     \/ state \in DocumentStates /\ event.type \notin {"DocumentStart", "StreamEnd"}
     \/ state = "document_end" /\ event.type # "DocumentEnd"
     \/ state = "nothing"
  /\ Raise
-----------------------------------------------------------------------------
\* Collections.

BreakLong(o) == IF canonical \/ o.column > BestWidth THEN write_indent(o, indent) ELSE o
Comma(o, first) == IF first THEN o ELSE WriteClose(o, ",")
\* A canonical collection has a comma after its last item, and `]' on a line
\* of its own.
CloseFlow(o, ch, first) ==
  WriteClose(IF canonical /\ ~first
             THEN write_indent(WriteClose(o, ","), Last(Front(indents))) ELSE o, ch)

flow_sequence_item ==
  LET first == state = "first_flow_sequence_item" IN
  /\ first \/ state = "flow_sequence_item"
  /\ \/ EndsIt("SequenceEnd", CloseFlow(out, "]", first)) /\ flow_level' = flow_level - 1
     \/ /\ event.type # "SequenceEnd"
        /\ expect_node(BreakLong(Comma(out, first)), "sequence", "flow_sequence_item")

flow_mapping_key ==
  LET first == state = "first_flow_mapping_key"
      key == BreakLong(Comma(out, first)) IN
  /\ first \/ state = "flow_mapping_key"
  /\ \/ EndsIt("MappingEnd", CloseFlow(out, "}", first)) /\ flow_level' = flow_level - 1
     \/ /\ event.type # "MappingEnd"
        /\ KeyNode(key, write_indicator(key, "?"), "flow_mapping_simple_value",
                   "flow_mapping_value")

SimpleValue ==
  \/ /\ state = "flow_mapping_simple_value"
     /\ expect_node(WriteClose(out, ":"), "mapping", "flow_mapping_key")
  \/ /\ state = "block_mapping_simple_value"
     /\ expect_node(WriteClose(out, ":"), "mapping", "block_mapping_key")

flow_mapping_value ==
  /\ state = "flow_mapping_value"
  /\ expect_node(write_indicator(BreakLong(out), ":"), "mapping", "flow_mapping_key")

block_sequence_item ==
  LET first == state = "first_block_sequence_item" IN
  /\ first \/ state = "block_sequence_item"
  /\ \/ ~first /\ EndsIt("SequenceEnd", out) /\ UNCHANGED flow_level
     \/ /\ first \/ event.type # "SequenceEnd"
        /\ expect_node(WriteItem(write_indent(out, indent), "-"),
                       "sequence", "block_sequence_item")

block_mapping_key ==
  LET first == state = "first_block_mapping_key"
      key == write_indent(out, indent) IN
  /\ first \/ state = "block_mapping_key"
  /\ \/ ~first /\ EndsIt("MappingEnd", out) /\ UNCHANGED flow_level
     \/ /\ first \/ event.type # "MappingEnd"
        /\ KeyNode(key, WriteItem(key, "?"), "block_mapping_simple_value",
                   "block_mapping_value")

block_mapping_value ==
  /\ state = "block_mapping_value"
  /\ expect_node(WriteItem(write_indent(out, indent), ":"), "mapping", "block_mapping_key")

\* emit(): one round of its loop.
Handle ==
  /\ ~need_more_events /\ state # "raised"
  /\ \/ stream_start \/ document_start \/ StreamEnd \/ document_root \/ document_end
     \/ flow_sequence_item \/ flow_mapping_key \/ SimpleValue \/ flow_mapping_value
     \/ block_sequence_item \/ block_mapping_key \/ block_mapping_value \/ Unexpected
  /\ events' = Tail(events)
-----------------------------------------------------------------------------
\* Nothing that was prepared for one event is left for the next.
NothingStale == state # "raised" => out.prepared = Unprepared
=============================================================================
