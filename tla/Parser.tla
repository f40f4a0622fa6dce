------------------------------- MODULE Parser -------------------------------
(***************************************************************************)
(* parser.py: a pushdown automaton over tokens.  The source's state        *)
(* functions keep their names, without `parse_'.  A step is what a state   *)
(* function does with the one token it looks at; `pos' says how far the    *)
(* function has come when it has taken a token and looks at the next:      *)
(*   call   at its beginning                                               *)
(*   entry  flow collections: no comma is missing                          *)
(*   item   the `-', `?' or `:' of an item was taken                       *)
(*   node   in parse_node()                                                *)
(* Left out: marks as positions, and what scalars say.                     *)
(***************************************************************************)
EXTENDS Naturals, SequencesExt

CONSTANT MaxDepth   \* bound: length of the stack of states
ASSUME ParserAssumption == MaxDepth \in Nat

\* A NamedTag has a handle that only a TAG directive defines.
Directives == {"YAML", "TAG", "reserved"}
Properties == {"Anchor", "Tag", "NamedTag"}
Tokens ==
  {"StreamStart", "StreamEnd", "DocumentStart", "DocumentEnd", "BlockSequenceStart",
   "BlockMappingStart", "BlockEnd", "FlowSequenceStart", "FlowMappingStart",
   "FlowSequenceEnd", "FlowMappingEnd", "BlockEntry", "FlowEntry", "Key", "Value",
   "Alias", "Scalar"} \cup Directives \cup Properties

VARIABLES
  state, states, pos,   \* the function to call next, and those after it
  marks,                \* how many start marks of collections are kept
  kind, props,          \* parse_node(): its arguments, the properties taken
  tag_handles,          \* whether the handle of NamedTags is defined
  directives,           \* process_directives(): those it has seen
  tok,                  \* what peek_token() returns; "none" once it is
                        \* taken, "raised" when the parser has raised an error
  current_event,        \* the event that get_event() has not taken yet
  declared              \* history: this document has a TAG directive

stack == <<state, states, pos, marks>>
node == <<kind, props>>
tags == <<tag_handles, directives, declared>>
parserVars == <<stack, node, tags, tok, current_event>>

ParserInit ==
  /\ state = "stream_start" /\ states = <<>> /\ pos = "call" /\ marks = 0
  /\ kind = "block" /\ props = {}
  /\ tag_handles = FALSE /\ directives = {} /\ declared = FALSE
  /\ tok = "none" /\ current_event = "none"
-----------------------------------------------------------------------------
\* self.state() is called when the last event was taken; it looks at a token.
Called == current_event = "none" /\ tok \in Tokens
At(s, p) == state = s /\ pos = p /\ Called

\* The token is taken or only looked at; an event is returned or not.
Take == tok' = "none" /\ UNCHANGED current_event
TakeFor(e) == tok' = "none" /\ current_event' = e
Look == UNCHANGED <<tok, current_event>>
LookFor(e) == UNCHANGED tok /\ current_event' = e

Goto(s, p) == state' = s /\ pos' = p /\ UNCHANGED <<states, marks>>
Pop == state' = Last(states) /\ states' = Front(states) /\ pos' = "call" /\ UNCHANGED marks
PopCollection ==
  state' = Last(states) /\ states' = Front(states) /\ pos' = "call" /\ marks' = marks - 1
Refuse == tok' = "raised" /\ UNCHANGED <<stack, current_event>>

\* parse_node(), after `self.states.append(then)'.
Node(k, then) ==
  /\ Len(states) < MaxDepth
  /\ states' = Append(states, then) /\ pos' = "node"
  /\ kind' = k /\ props' = {}
  /\ UNCHANGED <<state, marks>>
-----------------------------------------------------------------------------
\* Streams and documents.

StreamStart ==
  /\ At("stream_start", "call")
  /\ TakeFor("StreamStart") /\ Goto("implicit_document_start", "call")
  /\ UNCHANGED <<node, tags>>

ImplicitDocumentStart ==
  /\ At("implicit_document_start", "call")
  /\ IF tok \in Directives \cup {"DocumentStart", "StreamEnd"}
     THEN Look /\ Goto("document_start", "call") /\ UNCHANGED <<node, tags>>
     ELSE /\ LookFor("DocumentStart")
          /\ states' = Append(states, "document_end")
          /\ state' = "block_node"
          /\ tag_handles' = FALSE
          /\ UNCHANGED <<pos, marks, node, directives, declared>>

\* Mutant of ProcessDirectives: the handles of the document before stay.
ProcessDirectivesKeeping ==
  /\ At("document_start", "call") /\ tok \notin {"DocumentEnd", "StreamEnd"}
  /\ Look /\ Goto("document_start", "item")
  /\ directives' = {}
  /\ UNCHANGED <<node, tag_handles, declared>>

ProcessDirectives ==
  /\ At("document_start", "call") /\ tok \notin {"DocumentEnd", "StreamEnd"}
  /\ Look /\ Goto("document_start", "item")
  /\ directives' = {} /\ tag_handles' = FALSE
  /\ UNCHANGED <<node, declared>>

\* A second YAML directive, or a second definition of a handle, is an error;
\* so is a version other than 1.*.
Directive ==
  /\ At("document_start", "item") /\ tok \in Directives
  /\ \/ /\ tok = "reserved" \/ tok \notin directives
        /\ directives' = directives \cup {tok}
        /\ tag_handles' = (tag_handles \/ tok = "TAG")
        /\ declared' = (declared \/ tok = "TAG")
        /\ Take /\ UNCHANGED stack
     \/ /\ tok = "YAML" \/ tok \in directives
        /\ Refuse /\ UNCHANGED tags
  /\ UNCHANGED node

ExplicitDocumentStart ==
  /\ At("document_start", "item") /\ tok \notin Directives
  /\ IF tok = "DocumentStart"
     THEN /\ TakeFor("DocumentStart")
          /\ states' = Append(states, "document_end")
          /\ state' = "document_content" /\ pos' = "call" /\ UNCHANGED marks
     ELSE Refuse
  /\ directives' = {}
  /\ UNCHANGED <<node, tag_handles, declared>>

ExtraDocumentEnd ==
  /\ At("document_start", "call") /\ tok = "DocumentEnd"
  /\ Take
  /\ UNCHANGED <<stack, node, tags>>

StreamEnd ==
  /\ At("document_start", "call") /\ tok = "StreamEnd"
  /\ TakeFor("StreamEnd") /\ Goto("None", "call")
  /\ UNCHANGED <<node, tags>>

DocumentEnd ==
  /\ At("document_end", "call")
  /\ IF tok = "DocumentEnd" THEN TakeFor("DocumentEnd") ELSE LookFor("DocumentEnd")
  /\ Goto("document_start", "call")
  /\ declared' = FALSE
  /\ UNCHANGED <<node, tag_handles, directives>>

Root ==
  /\ At("block_node", "call") \/ At("document_content", "call")
  /\ IF state = "document_content"
          /\ tok \in Directives \cup {"DocumentStart", "DocumentEnd", "StreamEnd"}
     THEN LookFor("Scalar") /\ Pop /\ UNCHANGED node
     ELSE Look /\ Goto(state, "node") /\ kind' = "block" /\ props' = {}
  /\ UNCHANGED tags
-----------------------------------------------------------------------------
\* parse_node(): kind is "block", "flow", or "indentless" for a block node or
\* an indentless sequence.

InNode == pos = "node" /\ Called

\* An anchor and a tag, in either order.
Property ==
  /\ InNode /\ tok \in Properties
  /\ IF tok = "Anchor" THEN "Anchor" \notin props ELSE props \cap {"Tag", "NamedTag"} = {}
  /\ props' = props \cup {tok}
  /\ Take
  /\ UNCHANGED <<stack, kind, tags>>

\* No (further) property.
ContentComes ==
  /\ InNode
  /\ \/ tok \notin Properties
     \/ tok = "Anchor" /\ "Anchor" \in props
     \/ tok # "Anchor" /\ props \cap {"Tag", "NamedTag"} # {}

NodeDone == kind' = "block" /\ props' = {}
HandleKnown == "NamedTag" \in props => tag_handles

Alias ==
  /\ InNode /\ tok = "Alias" /\ props = {}
  /\ TakeFor("Alias") /\ Pop
  /\ NodeDone /\ UNCHANGED tags

\* The states that the start of a collection leads to.
FirstStates ==
  [FlowSequenceStart |-> "flow_sequence_first_entry",
   FlowMappingStart |-> "flow_mapping_first_key",
   BlockSequenceStart |-> "block_sequence_first_entry",
   BlockMappingStart |-> "block_mapping_first_key"]
StartEvent(t) ==
  IF t \in {"FlowMappingStart", "BlockMappingStart"} THEN "MappingStart" ELSE "SequenceStart"

\* Block collections may not start in flow context.
Contents ==
  {"Scalar", "FlowSequenceStart", "FlowMappingStart"}
    \cup (IF kind = "flow" THEN {} ELSE {"BlockSequenceStart", "BlockMappingStart"})
    \cup (IF kind = "indentless" THEN {"BlockEntry"} ELSE {})

Collection ==
  /\ ContentComes /\ HandleKnown /\ tok \in Contents \ {"Scalar"}
  /\ LookFor(StartEvent(tok))
  /\ Goto(IF tok = "BlockEntry" THEN "indentless_sequence_entry" ELSE FirstStates[tok], "call")
  /\ NodeDone /\ UNCHANGED tags

Scalar ==
  /\ ContentComes /\ HandleKnown /\ tok = "Scalar"
  /\ TakeFor("Scalar") /\ Pop
  /\ NodeDone /\ UNCHANGED tags

\* No content: properties alone are an empty scalar.
NoContent ==
  /\ ContentComes /\ tok \notin Contents
  /\ tok = "Alias" => props # {}
  /\ IF props # {} /\ HandleKnown THEN LookFor("Scalar") /\ Pop ELSE Refuse
  /\ NodeDone /\ UNCHANGED tags

UnknownHandle ==
  /\ ContentComes /\ ~HandleKnown /\ tok \in Contents
  /\ Refuse
  /\ UNCHANGED <<node, tags>>
-----------------------------------------------------------------------------
\* Collections.  Items[s]: the indicator that function s takes, the tokens
\* after it that mean an empty node, the function after the node, and the
\* argument of parse_node().
Items ==
  LET item(on, empty, then, k) == [on |-> on, empty |-> empty, then |-> then, kind |-> k] IN
  [block_sequence_entry |->
     item("BlockEntry", {"BlockEntry", "BlockEnd"}, "block_sequence_entry", "block"),
   indentless_sequence_entry |->
     item("BlockEntry", {"BlockEntry", "Key", "Value", "BlockEnd"},
          "indentless_sequence_entry", "block"),
   block_mapping_key |->
     item("Key", {"Key", "Value", "BlockEnd"}, "block_mapping_value", "indentless"),
   block_mapping_value |->
     item("Value", {"Key", "Value", "BlockEnd"}, "block_mapping_key", "indentless"),
   flow_mapping_key |->
     item("Key", {"Value", "FlowEntry", "FlowMappingEnd"}, "flow_mapping_value", "flow"),
   flow_mapping_value |->
     item("Value", {"FlowEntry", "FlowMappingEnd"}, "flow_mapping_key", "flow"),
   flow_sequence_entry_mapping_key |->
     item("Key", {"Value", "FlowEntry", "FlowSequenceEnd"},
          "flow_sequence_entry_mapping_value", "flow"),
   flow_sequence_entry_mapping_value |->
     item("Value", {"FlowEntry", "FlowSequenceEnd"},
          "flow_sequence_entry_mapping_end", "flow")]

\* Functions with items of their own, at the place where they look for one.
FlowEntries == {"flow_sequence_entry", "flow_mapping_key"}
ItemComes == state \in DOMAIN Items /\ At(state, IF state \in FlowEntries THEN "entry" ELSE "call")

\* The first call for a collection takes its start token.
FirstEntry ==
  [block_sequence_first_entry |-> "block_sequence_entry",
   block_mapping_first_key |-> "block_mapping_key",
   flow_sequence_first_entry |-> "flow_sequence_entry",
   flow_mapping_first_key |-> "flow_mapping_key"]
First ==
  /\ state \in DOMAIN FirstEntry /\ At(state, "call")
  /\ Take
  /\ state' = FirstEntry[state] /\ marks' = marks + 1 /\ UNCHANGED states
  /\ pos' = IF FirstEntry[state] \in FlowEntries THEN "entry" ELSE "call"
  /\ UNCHANGED <<node, tags>>

Item ==
  /\ ItemComes /\ tok = Items[state].on
  /\ Take /\ Goto(state, "item")
  /\ UNCHANGED <<node, tags>>

ItemNode ==
  LET item == Items[state] IN
  /\ state \in DOMAIN Items /\ At(state, "item")
  /\ IF tok \in item.empty
     THEN LookFor("Scalar") /\ Goto(item.then, "call") /\ UNCHANGED node
     ELSE Look /\ Node(item.kind, item.then)
  /\ UNCHANGED tags

\* Mutants of NoItem: the missing node has no event; the state stays.
NoItemSilently ==
  /\ state \in {"block_mapping_value", "flow_mapping_value"} /\ ItemComes /\ tok # "Value"
  /\ Look /\ Goto(Items[state].then, "call")
  /\ UNCHANGED <<node, tags>>

\* A key without `:', an entry of a flow mapping without a value, and the end
\* of a pair in a flow sequence need no token.
NoItem ==
  /\ \/ /\ state \in DOMAIN Items /\ Items[state].on = "Value" /\ ItemComes /\ tok # "Value"
        /\ LookFor("Scalar") /\ Goto(Items[state].then, "call")
     \/ /\ At("flow_mapping_empty_value", "call")
        /\ LookFor("Scalar") /\ Goto("flow_mapping_key", "call")
     \/ /\ At("flow_sequence_entry_mapping_end", "call")
        /\ LookFor("MappingEnd") /\ Goto("flow_sequence_entry", "call")
  /\ UNCHANGED <<node, tags>>

\* Flow collections: a comma before every entry but the first.
Comma ==
  /\ state \in FlowEntries /\ At(state, "call") /\ tok = "FlowEntry"
  /\ Take /\ Goto(state, "entry")
  /\ UNCHANGED <<node, tags>>

\* What ends the collection of function s; nothing ends an indentless one but
\* a token that is not `-'.
EndTokens ==
  [block_sequence_entry |-> "BlockEnd", block_mapping_key |-> "BlockEnd",
   flow_sequence_entry |-> "FlowSequenceEnd", flow_mapping_key |-> "FlowMappingEnd"]
EndEvent(s) ==
  IF s \in {"block_mapping_key", "flow_mapping_key"} THEN "MappingEnd" ELSE "SequenceEnd"

\* An entry of a flow collection that is no item.
FlowEntryNode ==
  /\ state \in FlowEntries /\ At(state, "entry")
  /\ tok # EndTokens[state]
  /\ \/ /\ state = "flow_sequence_entry" /\ tok = "Key"
        /\ LookFor("MappingStart") /\ Goto("flow_sequence_entry_mapping_key", "call")
        /\ UNCHANGED node
     \/ /\ state = "flow_sequence_entry" /\ tok # "Key"
        /\ Look /\ Node("flow", "flow_sequence_entry")
     \/ /\ state = "flow_mapping_key" /\ tok # "Key"
        /\ Look /\ Node("flow", "flow_mapping_empty_value")
  /\ UNCHANGED tags

\* Mutants of End: the mark of an indentless sequence is dropped, too; the token
\* after it is taken.
EndEach ==
  /\ pos \in {"call", "entry"} /\ Called
  /\ \/ state \in DOMAIN EndTokens /\ tok = EndTokens[state] /\ TakeFor(EndEvent(state))
     \/ state = "indentless_sequence_entry" /\ tok # "BlockEntry" /\ LookFor("SequenceEnd")
  /\ PopCollection
  /\ UNCHANGED <<node, tags>>

EndTaking ==
  /\ pos \in {"call", "entry"} /\ Called
  /\ \/ /\ state \in DOMAIN EndTokens /\ tok = EndTokens[state]
        /\ TakeFor(EndEvent(state)) /\ PopCollection
     \/ /\ state = "indentless_sequence_entry" /\ tok # "BlockEntry"
        /\ TakeFor("SequenceEnd") /\ Pop
  /\ UNCHANGED <<node, tags>>

End ==
  /\ pos \in {"call", "entry"} /\ Called
  /\ \/ /\ state \in DOMAIN EndTokens /\ tok = EndTokens[state]
        /\ TakeFor(EndEvent(state)) /\ PopCollection
     \/ /\ state = "indentless_sequence_entry" /\ tok # "BlockEntry"
        /\ LookFor("SequenceEnd") /\ Pop
  /\ UNCHANGED <<node, tags>>

\* expected <block end>, expected ',' or ']'
NotInCollection ==
  /\ state \in DOMAIN EndTokens /\ At(state, "call")
  /\ tok \notin {EndTokens[state], IF state \in FlowEntries THEN "FlowEntry" ELSE Items[state].on}
  /\ Refuse
  /\ UNCHANGED <<node, tags>>

get_event ==
  /\ current_event # "none" /\ current_event' = "none"
  /\ UNCHANGED <<stack, node, tags, tok>>

Parse ==
  \/ StreamStart \/ ImplicitDocumentStart \/ ProcessDirectives \/ Directive
  \/ ExplicitDocumentStart \/ ExtraDocumentEnd \/ StreamEnd \/ DocumentEnd \/ Root
  \/ Property \/ Alias \/ Collection \/ Scalar \/ NoContent \/ UnknownHandle
  \/ First \/ Item \/ ItemNode \/ NoItem \/ Comma \/ FlowEntryNode \/ End
  \/ NotInCollection
-----------------------------------------------------------------------------
\* Which event stream this is.  Opens[s]: what function s finds open, besides
\* what the functions below it do.
Opens ==
  [block_node |-> <<"doc">>, document_content |-> <<"doc">>, document_end |-> <<"done">>,
   block_sequence_first_entry |-> <<"seq">>, block_sequence_entry |-> <<"seq">>,
   indentless_sequence_entry |-> <<"seq">>,
   flow_sequence_first_entry |-> <<"seq">>, flow_sequence_entry |-> <<"seq">>,
   block_mapping_first_key |-> <<"key">>, block_mapping_key |-> <<"key">>,
   flow_mapping_first_key |-> <<"key">>, flow_mapping_key |-> <<"key">>,
   block_mapping_value |-> <<"value">>, flow_mapping_value |-> <<"value">>,
   flow_mapping_empty_value |-> <<"value">>,
   flow_sequence_entry_mapping_key |-> <<"seq", "key">>,
   flow_sequence_entry_mapping_value |-> <<"seq", "value">>,
   flow_sequence_entry_mapping_end |-> <<"seq", "key">>]

\* A node is to come: the function after it does not count yet.
Pending == pos = "node" \/ state \in {"block_node", "document_content"}
Open ==
  IF state = "stream_start" THEN <<>>
  ELSE IF state = "None" THEN <<"ended">>
  ELSE LET frames == Append(IF Pending THEN Front(states) ELSE states, state) IN
       <<"stream">> \o FlattenSeq([i \in DOMAIN frames |->
                        IF frames[i] \in DOMAIN Opens THEN Opens[frames[i]] ELSE <<>>])

Stream == INSTANCE EventStream WITH open <- Open, event <- current_event

\* Whatever tokens come: documents have one root, nodes are well nested, every
\* key has a value, and nothing comes after the end of the stream.
WellNested == Stream!EventSpec

\* The two stacks agree: an error message finds marks[-1], and the assertions
\* at the end of the stream, that both stacks are empty, hold.
Marked(s) ==
  s \in DOMAIN Opens /\ s \notin {"block_node", "document_content", "document_end",
     "indentless_sequence_entry"} \cup DOMAIN FirstEntry
Frames == IF Pending THEN states ELSE Append(states, state)
MarksMatch ==
  /\ marks = Cardinality({i \in DOMAIN Frames : Marked(Frames[i])})
  /\ state = "None" => states = <<>>

\* A tag finds the handles that the directives of its document declare, and
\* none that an earlier document did.
HandlesOfTheDocument == pos = "node" => tag_handles = declared
=============================================================================
