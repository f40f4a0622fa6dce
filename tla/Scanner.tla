------------------------------ MODULE Scanner ------------------------------
(***************************************************************************)
(* scanner.py: from text to tokens.  The text is seen lexeme by lexeme,    *)
(* with the columns, lines and line breaks that the scanner looks at.      *)
(* A simple key is known by its `:' only, which may come many tokens       *)
(* later: the scanner remembers where keys may have begun and inserts      *)
(* KEY and BLOCK-MAPPING-START into the queue afterwards.                  *)
(***************************************************************************)
EXTENDS Integers, SequencesExt, FiniteSetsExt, Functions

CONSTANTS
  Lexemes,     \* the lexemes that a text is made of, by their first characters
  MaxColumn,   \* bound: columns
  MaxFlow,     \* bound: nested flow collections
  KeyLength    \* a simple key is no longer; 1024 in the source

\* What may begin a simple key, and the token it is.  a: a plain scalar,
\* q: a quoted one, !: a tag, !x!: one with a handle of its own.
KeyStarts ==
  [s \in {"*", "&", "!", "!x!", "q", "a", "[", "{"} |->
    CASE s = "*" -> "Alias" [] s = "&" -> "Anchor"
      [] s = "!" -> "Tag" [] s = "!x!" -> "NamedTag"
      [] s \in {"q", "a"} -> "Scalar"
      [] s = "[" -> "FlowSequenceStart" [] s = "{" -> "FlowMappingStart"]
FlowEnds == [s \in {"]", "}"} |-> IF s = "]" THEN "FlowSequenceEnd" ELSE "FlowMappingEnd"]
\* Lexemes of the first column.
Markers ==
  [s \in {"%YAML", "%TAG", "---", "..."} |->
    CASE s = "%YAML" -> "YAML" [] s = "%TAG" -> "TAG" [] s = "---" -> "DocumentStart" [] s = "..." -> "DocumentEnd"]

Percent == {"%YAML", "%TAG"}

\* |: a block scalar, @: what can start no token, end: the end of the text.
AllLexemes ==
  DOMAIN KeyStarts \cup DOMAIN FlowEnds \cup DOMAIN Markers
    \cup {",", "-", "?", ":", "|", "@", "end"}

ASSUME ScannerAssumption ==
  Lexemes \subseteq AllLexemes /\ {MaxColumn, MaxFlow, KeyLength} \subseteq Nat

VARIABLES
  column, last,        \* where the scanner is, and after which lexeme
  flow_level,
  tokens,              \* the queue; a token has a type and a column
  indents,             \* self.indents with self.indent as its last element
  allow_simple_key,
  possible_simple_keys,  \* level -> key; its number counts from the head of the
                         \* queue, here: whether it is on the current line
  done,
  failed               \* "", or why a ScannerError or AssertionError was raised

place == <<column, last>>
scannerVars == <<place, flow_level, tokens, indents, allow_simple_key,
                 possible_simple_keys, done, failed>>

Token(type, col) == [type |-> type, column |-> col]

ScannerInit ==
  /\ column = 0 /\ last = "none"
  /\ flow_level = 0 /\ indents = <<-1>> /\ allow_simple_key = TRUE
  /\ tokens = <<Token("StreamStart", 0)>>
  /\ possible_simple_keys = <<>>
  /\ done = FALSE /\ failed = ""

InBlock == flow_level = 0
-----------------------------------------------------------------------------
\* Simple keys.

Without(keys, levels) == Restrict(keys, DOMAIN keys \ levels)

\* The keys that the scanner has passed by at column col.
Obsolete(keys, col) ==
  {l \in DOMAIN keys : ~keys[l].here \/ col - keys[l].column > KeyLength}
stale_possible_simple_keys(keys, col) == Without(keys, Obsolete(keys, col))
Required(keys, levels) == \E l \in levels \cap DOMAIN keys : keys[l].required

next_possible_simple_key(keys) == Min({keys[l].number : l \in DOMAIN keys})

\* Mutant of need_more_tokens: only an empty queue is filled.
need_more_tokens_late == ~done /\ tokens = <<>>

\* The first token may be a key.
need_more_tokens ==
  /\ ~done
  /\ \/ tokens = <<>>
     \/ LET keys == stale_possible_simple_keys(possible_simple_keys, column) IN
        keys # <<>> /\ next_possible_simple_key(keys) = 0

Raise(why) ==
  /\ failed' = why
  /\ UNCHANGED <<place, flow_level, tokens, indents, allow_simple_key,
                 possible_simple_keys, done>>

\* need_more_tokens() finds a required key that cannot be one any more.
StaleKey ==
  /\ failed = "" /\ ~done /\ tokens # <<>>
  /\ Required(possible_simple_keys, Obsolete(possible_simple_keys, column))
  /\ Raise("no value")

\* get_token().  Numbers of keys count from the head of the queue.
Taken ==
  /\ failed = "" /\ ~need_more_tokens /\ tokens # <<>>
  /\ done \/ ~Required(possible_simple_keys, Obsolete(possible_simple_keys, column))
  /\ LET keys == IF done THEN possible_simple_keys
                 ELSE stale_possible_simple_keys(possible_simple_keys, column) IN
     possible_simple_keys' = [l \in DOMAIN keys |-> [keys[l] EXCEPT !.number = @ - 1]]
  /\ tokens' = Tail(tokens)
  /\ UNCHANGED <<place, flow_level, indents, allow_simple_key, done, failed>>
-----------------------------------------------------------------------------
\* The beginning of fetch_more_tokens(): what is before lexeme x of the text.
\* x.nl: a line break comes before it, x.column: where it begins, x.lines: it
\* ends on the "same" line, "across" lines, or "past" the end of a line,
\* x.end: the column after it.

Passed(x) == IF x.nl THEN DOMAIN possible_simple_keys
             ELSE Obsolete(possible_simple_keys, x.column)
Keys(x) == Without(possible_simple_keys, Passed(x))

Allowed(x) == allow_simple_key \/ (InBlock /\ x.nl)

\* unwind_indent() in flow context does nothing.
unwind_indent(col) ==
  IF InBlock THEN SubSeq(indents, 1, Max({i \in DOMAIN indents : indents[i] <= col}))
             ELSE indents
Indents(x) ==
  unwind_indent(IF x.ch \in DOMAIN Markers \cup {"end"} THEN -1 ELSE x.column)
Ended(x) == Len(indents) - Len(Indents(x))
Queue(x) == tokens \o [i \in 1..Ended(x) |-> Token("BlockEnd", x.column)]

add_indent(ind, col) == IF Last(ind) < col THEN Append(ind, col) ELSE ind

\* The end of a fetcher: what it leaves.
Leave(x, queue, ind, keys, allow, flow) ==
  /\ tokens' = queue /\ indents' = ind /\ allow_simple_key' = allow /\ flow_level' = flow
  /\ possible_simple_keys' =
       IF x.lines = "same" THEN keys
       ELSE [l \in DOMAIN keys |-> [keys[l] EXCEPT !.here = FALSE]]
  /\ column' = x.end /\ last' = (IF x.lines = "past" THEN "none" ELSE x.ch) /\ done' = (x.ch = "end")
  /\ UNCHANGED failed

\* remove_possible_simple_key(), in all fetchers but those of key starts.
Dropped(x) == Without(Keys(x), {flow_level})
CanDrop(x) == ~Required(Keys(x), {flow_level})

\* ALIAS, ANCHOR, TAG, flow scalars, plain scalars, `[' and `{'.
FetchKeyStart(x) ==
  LET opens == x.ch \in {"[", "{"}
      required == InBlock /\ Last(Indents(x)) = x.column
      key == [number |-> Len(Queue(x)), required |-> required,
              column |-> x.column, here |-> TRUE]
      saved == [l \in DOMAIN Keys(x) \cup {flow_level} |->
                  IF l = flow_level THEN key ELSE Keys(x)[l]]
      keys == IF Allowed(x) THEN saved ELSE Keys(x) IN
  /\ x.ch \in DOMAIN KeyStarts
  /\ IF required /\ ~Allowed(x) THEN Raise("assert")
     ELSE IF Allowed(x) /\ ~CanDrop(x) THEN Raise("no value")
     ELSE Leave(x, Append(Queue(x), Token(KeyStarts[x.ch], x.column)), Indents(x), keys,
                opens \/ x.lines = "past", IF opens THEN flow_level + 1 ELSE flow_level)

\* Mutant of FetchFlowEnd: the level stays.
FetchFlowEndStaying(x) ==
  /\ x.ch \in DOMAIN FlowEnds
  /\ Leave(x, Append(Queue(x), Token(FlowEnds[x.ch], x.column)), Indents(x), Dropped(x),
           FALSE, flow_level)

FetchFlowEnd(x) ==
  /\ x.ch \in DOMAIN FlowEnds
  /\ IF CanDrop(x)
     THEN Leave(x, Append(Queue(x), Token(FlowEnds[x.ch], x.column)), Indents(x), Dropped(x),
                FALSE, flow_level - 1)
     ELSE Raise("no value")

FetchFlowEntry(x) ==
  /\ x.ch = ","
  /\ IF CanDrop(x)
     THEN Leave(x, Append(Queue(x), Token("FlowEntry", x.column)), Indents(x), Dropped(x),
                TRUE, flow_level)
     ELSE Raise("no value")

\* `-' and `?', and a `:' that no simple key comes before, may begin a block
\* collection where a simple key might begin.
BlockStart == [s \in {"-", "?", ":"} |-> IF s = "-" THEN "BlockSequenceStart" ELSE "BlockMappingStart"]
BlockToken == [s \in {"-", "?", ":"} |->
  CASE s = "-" -> "BlockEntry" [] s = "?" -> "Key" [] s = ":" -> "Value"]

FetchIndicator(x) ==
  LET ind == IF InBlock THEN add_indent(Indents(x), x.column) ELSE Indents(x)
      start == IF ind = Indents(x) THEN <<>> ELSE <<Token(BlockStart[x.ch], x.column)>> IN
  /\ x.ch \in {"-", "?"} \/ (x.ch = ":" /\ flow_level \notin DOMAIN Keys(x))
  /\ IF InBlock /\ ~Allowed(x) THEN Raise("not allowed here")
     ELSE IF ~CanDrop(x) THEN Raise("no value")
     ELSE Leave(x, Queue(x) \o start \o <<Token(BlockToken[x.ch], x.column)>>, ind, Dropped(x),
                InBlock \/ x.ch = "-", flow_level)

\* `:' after a simple key: KEY, and BLOCK-MAPPING-START if the key begins a
\* mapping, are inserted where the key began.
FetchValue(x) ==
  LET key == Keys(x)[flow_level]
      ind == IF InBlock THEN add_indent(Indents(x), key.column) ELSE Indents(x)
      start == IF ind = Indents(x) THEN <<>> ELSE <<Token("BlockMappingStart", key.column)>> IN
  /\ x.ch = ":" /\ flow_level \in DOMAIN Keys(x)
  /\ Leave(x, SubSeq(Queue(x), 1, key.number) \o start \o <<Token("Key", key.column)>>
                \o SubSeq(Queue(x), key.number + 1, Len(Queue(x)))
                \o <<Token("Value", x.column)>>,
           ind, Dropped(x), FALSE, flow_level)

FetchBlockScalar(x) ==
  /\ x.ch = "|" /\ InBlock
  /\ IF CanDrop(x)
     THEN Leave(x, Append(Queue(x), Token("Scalar", x.column)), Indents(x), Dropped(x),
                TRUE, flow_level)
     ELSE Raise("no value")

\* Directives and document markers end all block collections.
FetchMarker(x) ==
  /\ x.ch \in DOMAIN Markers /\ x.column = 0
  /\ IF CanDrop(x)
     THEN Leave(x, Append(Queue(x), Token(Markers[x.ch], 0)), Indents(x), Dropped(x),
                FALSE, flow_level)
     ELSE Raise("no value")

FetchStreamEnd(x) ==
  /\ x.ch = "end"
  /\ IF CanDrop(x)
     THEN Leave(x, Append(Queue(x), Token("StreamEnd", x.column)), Indents(x), <<>>,
                FALSE, flow_level)
     ELSE Raise("no value")

CannotStart(x) ==
  /\ x.ch = "@" \/ (x.ch = "|" /\ ~InBlock) \/ (x.ch \in Percent /\ x.column > 0)
  /\ Raise("cannot start a token")

Fetch(x) ==
  /\ failed = "" /\ need_more_tokens
  /\ IF Required(possible_simple_keys, Passed(x)) THEN Raise("no value")
     ELSE \/ FetchKeyStart(x) \/ FetchFlowEnd(x) \/ FetchFlowEntry(x) \/ FetchIndicator(x)
          \/ FetchValue(x) \/ FetchBlockScalar(x) \/ FetchMarker(x) \/ FetchStreamEnd(x)
          \/ CannotStart(x)
-----------------------------------------------------------------------------
\* The texts: what may come next where the scanner is.

\* Lexemes that a space must follow, what else may follow an anchor or alias,
\* and what may follow a plain scalar on its line without being part of it.
Spaced == {"-", "?", ":", "*", "&", "!", "!x!", "---", "..."}
AfterAnchor == {"?", ":", ",", "]", "}", "@", "end"}
AfterPlain == IF InBlock THEN {":", "end"} ELSE {",", ":", "?", "[", "]", "{", "}", "end"}

\* Scalars may extend over lines.  A plain one takes the line breaks after it;
\* so does a block scalar.  A directive takes the one that ends its line, after
\* which no simple key is allowed as it is after other lines.
Extents(ch, col) ==
  {[lines |-> "same", end |-> col + (IF ch \in DOMAIN Markers THEN 3 ELSE 1)] :
     s \in {ch} \ ({"|"} \cup Percent)}
    \cup [lines : {"across"}, end : IF ch \in {"a", "q"} THEN 1..MaxColumn ELSE {}]
    \cup [lines : {"past"}, end : CASE ch \in {"a", "|"} -> 0..MaxColumn
                                   [] ch \in Percent -> {0}
                                   [] OTHER -> {}]

Lexeme(ch, nl, col, extent) ==
  [ch |-> ch, nl |-> nl, column |-> col, lines |-> extent.lines, end |-> extent.end]

MayFollow(ch, nl, col) ==
  /\ ~nl => /\ col >= column
            /\ last \in Spaced =>
                 col > column \/ ch = "end" \/ (last \in {"*", "&"} /\ ch \in AfterAnchor)
            /\ last = "a" => ch \in AfterPlain
  /\ ch \in {"---", "..."} => col = 0
  /\ ch \in {"[", "{"} => flow_level < MaxFlow
  /\ ch \in {"]", "}"} => flow_level >= 0

FetchAny ==
  \E ch \in Lexemes, nl \in BOOLEAN, col \in 0..MaxColumn :
    /\ MayFollow(ch, nl, col)
    /\ \E extent \in Extents(ch, col) : Fetch(Lexeme(ch, nl, col, extent))
-----------------------------------------------------------------------------
\* The number of a possible key is that of the token it was saved for, which
\* is still in the queue: KEY goes before that token, whatever came between.
KeysPointAtTheirTokens ==
  failed = "" => \A l \in DOMAIN possible_simple_keys :
    LET key == possible_simple_keys[l] IN
    /\ key.number + 1 \in DOMAIN tokens
    /\ tokens[key.number + 1].column = key.column
    /\ tokens[key.number + 1].type \in Range(KeyStarts)
=============================================================================
