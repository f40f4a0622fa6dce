------------------------------ MODULE RoundTrip ------------------------------
(***************************************************************************)
(* What the emitter writes is read by scanner and parser while it is       *)
(* written.  All three are deterministic, so the order of their steps does *)
(* not matter: the reader goes first, then the emitter, and the next event *)
(* is given when both wait.                                                *)
(***************************************************************************)
EXTENDS Reading

CONSTANTS
  BestIndent, BestWidth, KeyLimit, Analysis,   \* see Emitter
  Cases      \* name -> the events that may be given, a bound of what is open at
             \* a time, and whether the emitter writes canonical YAML

\* As Emitter.__init__() makes them.  An AliasEvent has no tag;
\* the parser and the serializer give it an anchor.
ASSUME RoundTripAssumption ==
  /\ BestIndent \in 2..9 /\ BestWidth > 2 * BestIndent /\ KeyLimit \in Nat
  /\ \A c \in DOMAIN Cases : \A e \in Cases[c].inputs : e.type = "Alias" => e.tag = 0 /\ e.anchor > 0

VARIABLES
  case,                                              \* the one of Cases at hand
  open,                                              \* see EventStream
  events, e_state, e_states, e_indents, e_flow_level, out,   \* the emitter
  given,   \* the events given that the reader has not returned yet
  shown    \* the properties of the event that the reader returns

E == INSTANCE Emitter WITH
       canonical <- Cases[case].canonical, state <- e_state, states <- e_states, indents <- e_indents, flow_level <- e_flow_level
Source == INSTANCE EventStream WITH event <- "none"

emitterVars == <<events, e_state, e_states, e_indents, e_flow_level, out>>
readerVars == <<scannerVars, parserVars, lenient, shown>>
tripVars == <<readerVars, open, emitterVars, given, case>>

TripInit ==
  /\ Init /\ E!EmitterInit
  /\ case \in DOMAIN Cases /\ open = <<>> /\ given = <<>> /\ shown = {}
-----------------------------------------------------------------------------
\* The text ahead of the scanner.  A scalar that ends at a line break ends
\* where the next lexeme begins, and is scanned no sooner than that is known.
EndsAtBreak(x) == x.ch \in {"a", "|"} /\ x.lines # "across"
ReadyToScan == out.text # <<>> /\ (EndsAtBreak(Head(out.text)) => Len(out.text) > 1)
NextLexeme ==
  LET x == Head(out.text) IN
  IF EndsAtBreak(x) /\ out.text[2].nl
  THEN [x EXCEPT !.lines = "past", !.end = out.text[2].column] ELSE x

ReaderBusy ==
  /\ failed = "" /\ tok # "raised" /\ given # <<>>
  /\ \/ current_event # "none" \/ tok \in Tokens
     \/ Asking /\ (~need_more_tokens \/ ReadyToScan)

ScanText ==
  /\ Asking /\ ReadyToScan
  /\ Fetch(NextLexeme)
  /\ lenient' = lenient \cup LetsPass
  /\ out' = [out EXCEPT !.text = Tail(@)]
  /\ UNCHANGED <<parserVars, shown, open, events, e_state, e_states, e_indents,
                 e_flow_level, given, case>>

\* prepare_version() writes versions that the parser takes.
ParseToken ==
  /\ Parse /\ (tok = "YAML" /\ directives = {} => tok' # "raised")
  /\ shown' = IF current_event' = "none" THEN {} ELSE props
  /\ UNCHANGED <<scannerVars, lenient, open, emitterVars, given, case>>

TakeEvent ==
  /\ get_event
  /\ given' = Tail(given) /\ shown' = {}
  /\ UNCHANGED <<scannerVars, lenient, open, emitterVars, case>>

Read ==
  /\ ReaderBusy
  /\ \/ (Peek \/ (Asking /\ StaleKey /\ UNCHANGED <<parserVars, lenient>>))
          /\ UNCHANGED <<shown, open, emitterVars, given, case>>
     \/ ScanText \/ ParseToken \/ TakeEvent

Emit ==
  /\ ~ReaderBusy
  /\ E!Handle
  /\ UNCHANGED <<readerVars, open, given, case>>

Give ==
  /\ ~ReaderBusy /\ E!need_more_events
  /\ \E e \in Cases[case].inputs :
       /\ Source!Opening(e.type) /\ Len(open') <= Cases[case].open
       /\ events' = Append(events, e)
       /\ given' = Append(given, [type |-> e.type, anchor |-> e.anchor > 0,
                                  implicit |-> TRUE \in Range(e.implicit)])
  /\ UNCHANGED <<readerVars, e_state, e_states, e_indents, e_flow_level, out, case>>

\* Nothing is left to do once the end of the stream was read.
Done ==
  /\ open = <<"ended">> /\ given = <<>> /\ state = "None" /\ current_event = "none"
  /\ UNCHANGED tripVars

TripNext == Read \/ Emit \/ Give \/ Done
TripSpec == TripInit /\ [][TripNext]_tripVars
-----------------------------------------------------------------------------
\* The emitter finds every event where it expects it, so it has waited for
\* enough of them.  What it writes is a YAML stream, also where the scanner would
\* let errors pass, and says what it was to say: the reader returns the events
\* given, with the same anchors, and with tags but for those that it would guess.
ReadsBack ==
  /\ e_state # "raised" /\ failed = "" /\ tok # "raised" /\ lenient = {}
  /\ current_event # "none" =>
       /\ given # <<>> /\ Head(given).type = current_event
       /\ current_event \in {"Scalar", "SequenceStart", "MappingStart"} =>
            /\ "Anchor" \in shown <=> Head(given).anchor
            /\ "Tag" \notin shown => Head(given).implicit

\* Lexemes are told from each other.  The lines of a plain scalar and of a block
\* scalar are indented further than the collection they are in, for the
\* scanner as well as for the emitter, and what comes after them is not; an
\* indentation hint counts from the scanner's indentation.
Separate ==
  ReadyToScan /\ failed = "" /\ Asking /\ need_more_tokens =>
    LET x == NextLexeme
        inner == Last(Indents(x)) + 1 IN
    /\ MayFollow(x.ch, x.nl, x.column)
    /\ InBlock /\ (x.ch = "|" \/ (x.ch = "a" /\ x.lines = "across")) => x.indent >= inner
    /\ x.hint => x.indent = Max({inner, 1}) + BestIndent - 1
    /\ EndsAtBreak(x) /\ x.lines = "past" /\ InBlock =>
         out.text[2].column < (IF x.ch = "|" THEN x.indent ELSE inner)
         \/ (out.text[2].column = 0 /\ out.text[2].ch \in {"---", "...", "end"})

\* What was prepared for one node is not left for the next.
NothingStale == E!NothingStale
=============================================================================
