----------------------------- MODULE MCRoundTrip -----------------------------
(* Events as the parser and as the serializer give them.                     *)
EXTENDS RoundTrip

\* Scalars, as analyze_scalar() sees them.
Word == [length |-> 1, empty |-> FALSE, multiline |-> FALSE, flow_plain |-> TRUE,
         block_plain |-> TRUE, single |-> TRUE, block |-> TRUE,
         space |-> FALSE, escapes |-> 0, leading |-> FALSE, keep |-> FALSE]
Empty == [Word EXCEPT !.length = 0, !.empty = TRUE, !.flow_plain = FALSE, !.block = FALSE]
Long == [Word EXCEPT !.length = 50]
Words == [Word EXCEPT !.length = 4, !.space = TRUE]
Lines == [Word EXCEPT !.length = 3, !.multiline = TRUE, !.flow_plain = FALSE,
                      !.block_plain = FALSE, !.leading = TRUE, !.keep = TRUE]
Special == [Word EXCEPT !.length = 2, !.escapes = 10, !.flow_plain = FALSE,
                        !.block_plain = FALSE, !.single = FALSE, !.block = FALSE]
Scalars ==
  [empty |-> Empty, word |-> Word, long |-> Long, words |-> Words, lines |-> Lines,
   special |-> Special]

E0 == [type |-> "Scalar", anchor |-> 0, tag |-> 0, implicit |-> <<TRUE, FALSE>>,
       value |-> "word", style |-> "", flow_style |-> FALSE,
       explicit |-> FALSE, version |-> FALSE]
Event(t) == [E0 EXCEPT !.type = t]
With(e, value, style, implicit) ==
  [e EXCEPT !.value = value, !.style = style, !.implicit = implicit]

Marks == {Event(t) : t \in {"StreamStart", "StreamEnd", "SequenceEnd", "MappingEnd"}}
Documents == {Event("DocumentStart"), Event("DocumentEnd")}
Collections ==
  {[Event(t) EXCEPT !.flow_style = f] : t \in {"SequenceStart", "MappingStart"}, f \in BOOLEAN}

\* Layout: all nestings of collections, of words and empty scalars.
LayoutEvents ==
  Marks \cup Documents \cup Collections
    \cup {With(E0, v, "", <<TRUE, FALSE>>) : v \in {"word", "empty"}}

\* Nodes as the serializer gives them: a tag always, implicit or not in either
\* style; anchors.  
Tagged(e, implicit) == [e EXCEPT !.tag = 2, !.implicit = implicit]
NodeEvents ==
  Marks \cup Documents
    \cup {Tagged([e EXCEPT !.anchor = IF i THEN 0 ELSE 1], <<i, FALSE>>) :
             e \in Collections, i \in BOOLEAN}
    \cup {[Event("Alias") EXCEPT !.anchor = 1]}
    \cup {Tagged(With(E0, v, "", <<>>), <<TRUE, TRUE>>) : v \in DOMAIN Scalars \ {"empty"}}
    \cup {Tagged(With(E0, v, "block", <<>>), <<FALSE, TRUE>>) : v \in {"words", "lines"}}
    \cup {Tagged(With(E0, v, "", <<>>), <<FALSE, FALSE>>) : v \in {"empty", "words"}}
    \cup {Tagged(With(E0, "lines", "single", <<>>), <<FALSE, TRUE>>)}

\* Documents as the parser gives them: explicit or not, with directives.
DocumentEvents ==
  Marks \cup Collections
    \cup {[e EXCEPT !.explicit = x, !.version = v] :
             e \in Documents, x \in BOOLEAN, v \in BOOLEAN}
    \cup {With(E0, v, "", <<TRUE, FALSE>>) : v \in {"word", "empty"}}
    \cup {With(E0, "lines", "block", <<FALSE, TRUE>>)}
    \cup {With([E0 EXCEPT !.tag = 2], "empty", "", <<FALSE, FALSE>>)}
    \cup {With([E0 EXCEPT !.anchor = 1], "word", "", <<TRUE, FALSE>>)}

CaseOf(inputs, max, canonical) ==
  [inputs |-> inputs, open |-> max, canonical |-> canonical]
MCCases ==
  [layout |-> CaseOf(LayoutEvents, 5, FALSE), nodes |-> CaseOf(NodeEvents, 3, FALSE),
   documents |-> CaseOf(DocumentEvents, 3, FALSE), canonical |-> CaseOf(DocumentEvents, 3, TRUE)]
=============================================================================
