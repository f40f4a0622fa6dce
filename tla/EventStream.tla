----------------------------- MODULE EventStream -----------------------------
(***************************************************************************)
(* The streams of YAML events that parser and serializer produce, and      *)
(* that composer and emitter take: documents with one root each, nodes     *)
(* well nested, a value for every key, nothing after the end.              *)
(***************************************************************************)
EXTENDS Naturals, SequencesExt

VARIABLES
  open,    \* what is open, outermost first; the names say what comes next
  event    \* the event that waits to be taken, "none" if there is none

eventVars == <<open, event>>

\* What the next node makes of the innermost open thing.
After == [doc |-> "done", seq |-> "seq", key |-> "value", value |-> "key"]
Leaves == {"Scalar", "Alias"}
Events == Leaves \cup {"StreamStart", "StreamEnd", "DocumentStart", "DocumentEnd",
                       "SequenceStart", "SequenceEnd", "MappingStart", "MappingEnd"}

EventInit == open = <<>> /\ event = "none"

\* What event e makes of the open things.
NodeComes == open # <<>> /\ Last(open) \in DOMAIN After
WithNode == Append(Front(open), After[Last(open)])

Opening(e) ==
  \/ e = "StreamStart" /\ open = <<>> /\ open' = <<"stream">>
  \/ e = "DocumentStart" /\ open = <<"stream">> /\ open' = <<"stream", "doc">>
  \/ e = "DocumentEnd" /\ open = <<"stream", "done">> /\ open' = <<"stream">>
  \/ e = "StreamEnd" /\ open = <<"stream">> /\ open' = <<"ended">>
  \/ e \in Leaves /\ NodeComes /\ open' = WithNode
  \/ e = "SequenceStart" /\ NodeComes /\ open' = Append(WithNode, "seq")
  \/ e = "MappingStart" /\ NodeComes /\ open' = Append(WithNode, "key")
  \/ e = "SequenceEnd" /\ open # <<>> /\ Last(open) = "seq" /\ open' = Front(open)
  \/ e = "MappingEnd" /\ open # <<>> /\ Last(open) = "key" /\ open' = Front(open)

Produce(e) == event = "none" /\ event' = e /\ Opening(e)
Consume == event # "none" /\ event' = "none" /\ UNCHANGED open

EventNext == Consume \/ \E e \in Events : Produce(e)

EventSpec == EventInit /\ [][EventNext]_eventVars
=============================================================================
