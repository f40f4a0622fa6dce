------------------------------ MODULE Reading ------------------------------
(***************************************************************************)
(* Scanner and parser together: the parser calls check_token, peek_token   *)
(* and get_token, which scan only as much text as they need.  Each trusts  *)
(* the other: the scanner lets errors pass that the parser is to detect,   *)
(* and the parser takes block structure from the tokens the scanner        *)
(* invents.                                                                *)
(***************************************************************************)
EXTENDS Scanner, Parser

VARIABLE lenient   \* history: what the scanner has let pass

vars == <<scannerVars, parserVars, lenient>>

Init == ScannerInit /\ ParserInit /\ lenient = {}

\* A state function looks for the next token.
Asking == tok = "none" /\ current_event = "none" /\ state # "None"

\* A token is in the parser's hands once it is looked at: nothing goes before
\* it any more.
Peek ==
  /\ Asking
  /\ Taken
  /\ tok' = Head(tokens).type
  /\ UNCHANGED <<stack, node, tags, current_event, lenient>>

\* `[' and `{' too few, `-' in a flow collection, `:' without a key.
LetsPass ==
  IF failed' # "" THEN {}
  ELSE {s \in {"end", "entry", "value"} :
          CASE s = "end" -> flow_level' < 0
            [] s = "entry" -> last' = "-" /\ ~InBlock
            [] s = "value" -> /\ Len(tokens') > 1 /\ Last(tokens').type = "Value"
                              /\ Last(Front(tokens')).type = "BlockMappingStart"}

ScanMore ==
  /\ Asking
  /\ FetchAny \/ StaleKey
  /\ lenient' = lenient \cup LetsPass
  /\ UNCHANGED parserVars

ParserStep == (Parse \/ get_event) /\ UNCHANGED <<scannerVars, lenient>>

Next == Peek \/ ScanMore \/ ParserStep

Spec == Init /\ [][Next]_vars
-----------------------------------------------------------------------------
InHand == tokens \o (IF tok \in Tokens THEN <<Token(tok, 0)>> ELSE <<>>)
IsStart(t) == t.type \in {"BlockSequenceStart", "BlockMappingStart"}
IsEnd(t) == t.type = "BlockEnd"
IsBlock(s) == s \in {"block_sequence_entry", "block_mapping_key", "block_mapping_value"}

\* The parser's stack has the blocks that the scanner has indented, but for
\* those whose tokens are still on the way.
BlocksAgree ==
  failed = "" /\ tok # "raised" =>
    Cardinality({i \in DOMAIN Frames : IsBlock(Frames[i])})
        + Cardinality({i \in DOMAIN InHand : IsStart(InHand[i])})
        - Cardinality({i \in DOMAIN InHand : IsEnd(InHand[i])})
      = Len(indents) - 1

\* `It's an error for the block entry to occur in the flow context, but we let
\* the parser detect this.'  `It will be detected as an error later by the
\* parser.'  And nobody checks in the scanner that a flow collection that ends
\* had begun, or is closed at the end.  The second is said of a `:' without a key,
\* which the grammar at the top of parser.py allows in a block mapping: the
\* property is what the scanner says, and what parse_block_mapping_key does.
ParserDetectsIt ==
  state = "None" => lenient = {} /\ flow_level = 0 /\ tokens = <<>>
=============================================================================
