---------------------------- MODULE ReadingProofs ----------------------------
(***************************************************************************)
(* Theorems about Reading, the scanner and the parser on any text: the     *)
(* stack of marks, tag handles, the numbers of simple keys, the blocks     *)
(* that the two of them count, and the errors that one leaves to the other.*)
(***************************************************************************)
EXTENDS Reading, FiniteSetTheorems, SequenceTheorems, WellFoundedInduction, TLAPS

-----------------------------------------------------------------------------
\* How many elements of a sequence are in a set.

Count(s, M) == Cardinality({i \in DOMAIN s : s[i] \in M})

LEMMA CountType ==
  ASSUME NEW T, NEW s \in Seq(T), NEW M
  PROVE  IsFiniteSet({i \in DOMAIN s : s[i] \in M}) /\ Count(s, M) \in Nat
<1>1. DOMAIN s = 1..Len(s) /\ Len(s) \in Nat
  OBVIOUS
<1>2. IsFiniteSet(DOMAIN s)
  BY <1>1, FS_Interval
<1>3. IsFiniteSet({i \in DOMAIN s : s[i] \in M})
  BY <1>2, FS_Subset
<1> QED BY <1>3, FS_CardinalityType DEF Count

LEMMA CountConcat ==
  ASSUME NEW T, NEW s \in Seq(T), NEW t \in Seq(T), NEW M
  PROVE  s \o t \in Seq(T) /\ Count(s \o t, M) = Count(s, M) + Count(t, M)
<1> DEFINE r == s \o t
           A == {i \in DOMAIN s : s[i] \in M}
           B == {i \in DOMAIN t : t[i] \in M}
           C == {i \in DOMAIN r : r[i] \in M /\ i > Len(s)}
           f == [i \in B |-> i + Len(s)]
<1>1. /\ r \in Seq(T) /\ Len(r) = Len(s) + Len(t) /\ Len(s) \in Nat /\ Len(t) \in Nat
      /\ DOMAIN s = 1..Len(s) /\ DOMAIN t = 1..Len(t) /\ DOMAIN r = 1..(Len(s) + Len(t))
      /\ \A i \in DOMAIN s : r[i] = s[i]
      /\ \A i \in DOMAIN r : i > Len(s) => i - Len(s) \in DOMAIN t /\ r[i] = t[i - Len(s)]
      /\ \A i \in DOMAIN t : i + Len(s) \in DOMAIN r /\ r[i + Len(s)] = t[i]
  OBVIOUS
<1>2. IsFiniteSet(A) /\ IsFiniteSet(B)
  BY CountType
<1> HIDE DEF r
<1>3. f \in [B -> C]
  BY <1>1
<1>4. \A i, j \in B : f[i] = f[j] => i = j
  BY <1>1
<1>5. \A k \in C : \E i \in B : f[i] = k
  <2> SUFFICES ASSUME NEW k \in C PROVE \E i \in B : f[i] = k
    OBVIOUS
  <2>1. k - Len(s) \in B /\ f[k - Len(s)] = k
    BY <1>1
  <2> QED BY <2>1
<1>6. ExistsBijection(B, C)
  <2> HIDE DEF f, B, C
  <2>1. f \in Bijection(B, C)
    BY <1>3, <1>4, <1>5 DEF Bijection, Injection, Surjection, IsInjective
  <2> QED BY <2>1 DEF ExistsBijection
<1>7. IsFiniteSet(C) /\ Cardinality(C) = Cardinality(B)
  BY <1>2, <1>6, FS_Bijection
<1>8. {i \in DOMAIN r : r[i] \in M} = A \cup C /\ A \cap C = {}
  BY <1>1
<1> HIDE DEF A, B, C
<1>9. Cardinality(A \cup C) = Cardinality(A) + Cardinality(C) - Cardinality(A \cap C)
  BY <1>2, <1>7, FS_Union
<1>10. Cardinality(A \cup C) = Cardinality(A) + Cardinality(C)
  <2>1. Cardinality(A) \in Nat /\ Cardinality(C) \in Nat
    BY <1>2, <1>7, FS_CardinalityType
  <2>2. Cardinality(A \cap C) = 0
    BY <1>8, FS_EmptySet
  <2> QED BY <1>9, <2>1, <2>2
<1> QED BY <1>1, <1>7, <1>8, <1>10 DEF Count, A, B, r

LEMMA CountOne ==
  ASSUME NEW e, NEW M
  PROVE  Count(<<e>>, M) = IF e \in M THEN 1 ELSE 0
<1> DEFINE A == {i \in DOMAIN <<e>> : <<e>>[i] \in M}
<1>1. A = IF e \in M THEN {1} ELSE {}
  OBVIOUS
<1> HIDE DEF A
<1>2. Cardinality(A) = IF e \in M THEN 1 ELSE 0
  BY <1>1, FS_Singleton, FS_EmptySet
<1> QED BY <1>2 DEF Count, A

LEMMA CountAppend ==
  ASSUME NEW T, NEW s \in Seq(T), NEW e \in T, NEW M
  PROVE  /\ Append(s, e) \in Seq(T)
         /\ Count(Append(s, e), M) = Count(s, M) + (IF e \in M THEN 1 ELSE 0)
<1> DEFINE one == <<e>>
<1>1. Append(s, e) = s \o one /\ one \in Seq(T)
  OBVIOUS
<1>2. Count(one, M) = IF e \in M THEN 1 ELSE 0
  BY CountOne
<1> HIDE DEF one
<1>3. s \o one \in Seq(T) /\ Count(s \o one, M) = Count(s, M) + Count(one, M)
  BY <1>1, CountConcat
<1> QED BY <1>1, <1>2, <1>3

LEMMA CountEmpty ==
  ASSUME NEW M
  PROVE  Count(<<>>, M) = 0
<1>1. {i \in DOMAIN <<>> : <<>>[i] \in M} = {}
  OBVIOUS
<1> QED BY <1>1, FS_EmptySet DEF Count

\* The last element, and those before it.
LEMMA FrontLast ==
  ASSUME NEW T, NEW s \in Seq(T), s # <<>>
  PROVE  /\ Front(s) \in Seq(T) /\ Last(s) \in T
         /\ s = Append(Front(s), Last(s))
         /\ Len(Front(s)) = Len(s) - 1 /\ Last(s) = s[Len(s)]
         /\ \A i \in DOMAIN Front(s) : i \in DOMAIN s /\ i < Len(s) /\ Front(s)[i] = s[i]
         /\ \A i \in DOMAIN s : i < Len(s) => i \in DOMAIN Front(s)
<1>1. Len(s) \in Nat /\ Len(s) > 0
  OBVIOUS
<1>2. Front(s) = SubSeq(s, 1, Len(s) - 1) /\ Last(s) = s[Len(s)]
  BY DEF Front, Last
<1>3. /\ Front(s) \in Seq(T) /\ Len(Front(s)) = Len(s) - 1
      /\ \A i \in 1..(Len(s) - 1) : Front(s)[i] = s[i]
  <2> DEFINE n == Len(s) - 1
  <2>1. n \in Nat /\ \A i \in 1..n : s[i] \in T
    BY <1>1
  <2> HIDE DEF n
  <2>2. /\ SubSeq(s, 1, n) \in Seq(T) /\ Len(SubSeq(s, 1, n)) = n
        /\ \A i \in 1..n : SubSeq(s, 1, n)[i] = s[i]
    BY <2>1, SubSeqProperties
  <2> QED BY <1>2, <2>2 DEF n
<1>4. s = Append(Front(s), Last(s))
  <2>1. /\ Append(Front(s), Last(s)) \in Seq(T) /\ Len(Append(Front(s), Last(s))) = Len(s)
        /\ \A i \in 1..Len(s) : Append(Front(s), Last(s))[i] = s[i]
    BY <1>1, <1>2, <1>3, AppendProperties
  <2> QED BY <2>1, SeqEqual
<1> QED BY <1>1, <1>2, <1>3, <1>4
-----------------------------------------------------------------------------
\* The functions of the parser: outside of documents, at the root of one, at the
\* start of a collection, and in one.

Outside == {"stream_start", "implicit_document_start", "document_start", "document_end", "None"}
Roots == {"block_node", "document_content"}
Firsts == {"block_sequence_first_entry", "block_mapping_first_key",
           "flow_sequence_first_entry", "flow_mapping_first_key"}
BlockStates == {"block_sequence_entry", "block_mapping_key", "block_mapping_value"}
FlowStates ==
  {"flow_sequence_entry", "flow_mapping_key", "flow_mapping_value", "flow_mapping_empty_value",
   "flow_sequence_entry_mapping_key", "flow_sequence_entry_mapping_value",
   "flow_sequence_entry_mapping_end"}
MarkedStates == BlockStates \cup FlowStates
Inner == MarkedStates \cup {"indentless_sequence_entry"}

\* document_end is at the bottom of the stack, under functions of collections.
StackOK ==
  /\ state \in Outside \cup Roots \cup Firsts \cup Inner
  /\ states \in Seq(Inner \cup {"document_end"})
  /\ pos \in {"call", "entry", "item", "node"}
  /\ state \in Outside => states = <<>> /\ pos \in {"call", "item"}
  /\ state \notin Outside => states # <<>>
  /\ state \in Firsts => pos = "call"
  /\ \A i \in DOMAIN states : states[i] = "document_end" <=> i = 1

\* How many of the functions to be called are in M.
Depth(M) == Count(states, M) + (IF ~Pending /\ state \in M THEN 1 ELSE 0)

\* What a step does to the functions of collections.
Levels == {MarkedStates, BlockStates, FlowStates}
SameDepth == StackOK' /\ marks' = marks /\ \A M \in Levels : Depth(M)' = Depth(M)

LEMMA StateTables ==
  /\ DOMAIN FirstEntry = Firsts /\ \A s \in Firsts : FirstEntry[s] \in Inner
  /\ \A s \in {"FlowSequenceStart", "FlowMappingStart", "BlockSequenceStart", "BlockMappingStart"} :
       FirstStates[s] \in Firsts
  /\ DOMAIN EndTokens = {"block_sequence_entry", "block_mapping_key", "flow_sequence_entry",
                         "flow_mapping_key"}
  /\ FlowEntries \subseteq FlowStates
BY DEF FirstEntry, Firsts, Inner, MarkedStates, BlockStates, FlowStates, FirstStates, EndTokens,
       FlowEntries

LEMMA ItemTable ==
  /\ DOMAIN Items \subseteq Inner
  /\ \A s \in DOMAIN Items :
       Items[s].then \in Inner /\ \A M \in Levels : s \in M <=> Items[s].then \in M
<1>1. DOMAIN Items = {"block_sequence_entry", "indentless_sequence_entry", "block_mapping_key",
        "block_mapping_value", "flow_mapping_key", "flow_mapping_value",
        "flow_sequence_entry_mapping_key", "flow_sequence_entry_mapping_value"}
  BY DEF Items
<1>2. /\ Items["block_sequence_entry"].then = "block_sequence_entry"
      /\ Items["indentless_sequence_entry"].then = "indentless_sequence_entry"
      /\ Items["block_mapping_key"].then = "block_mapping_value"
      /\ Items["block_mapping_value"].then = "block_mapping_key"
      /\ Items["flow_mapping_key"].then = "flow_mapping_value"
      /\ Items["flow_mapping_value"].then = "flow_mapping_key"
      /\ Items["flow_sequence_entry_mapping_key"].then = "flow_sequence_entry_mapping_value"
      /\ Items["flow_sequence_entry_mapping_value"].then = "flow_sequence_entry_mapping_end"
  BY DEF Items
<1> QED BY <1>1, <1>2 DEF Levels, Inner, MarkedStates, BlockStates, FlowStates

LEMMA LevelsAreInner ==
  /\ \A M \in Levels : M \subseteq Inner /\ "indentless_sequence_entry" \notin M
  /\ Inner \cap (Outside \cup Roots \cup Firsts) = {}
  /\ Roots \cap Outside = {} /\ Firsts \cap (Outside \cup Roots) = {}
BY DEF Levels, Inner, MarkedStates, BlockStates, FlowStates, Outside, Roots, Firsts

\* Marks and blocks are counted by frames: those are the functions to be called.
LEMMA FramesAreCounted ==
  ASSUME StackOK, NEW M \in Levels
  PROVE  Cardinality({i \in DOMAIN Frames : Frames[i] \in M}) = Depth(M)
<1> DEFINE T == Outside \cup Roots \cup Firsts \cup Inner
<1>1. states \in Seq(T) /\ state \in T
  <2>1. Inner \cup {"document_end"} \subseteq T
    BY DEF Outside
  <2> QED BY <2>1, SeqMonotonic DEF StackOK
<1> HIDE DEF T
<1>2. Count(Append(states, state), M) = Count(states, M) + (IF state \in M THEN 1 ELSE 0)
  BY <1>1, CountAppend
<1>3. Count(states, M) \in Nat
  BY <1>1, CountType
<1>4. Count(Frames, M) = Depth(M)
  <2>1. CASE Pending
    BY <1>3, <2>1 DEF Frames, Depth
  <2>2. CASE ~Pending
    BY <1>2, <1>3, <2>2 DEF Frames, Depth
  <2> QED BY <2>1, <2>2
<1> QED BY <1>4 DEF Count

LEMMA Marks ==
  ASSUME StackOK
  PROVE  /\ marks = Depth(MarkedStates) => MarksMatch
         /\ Depth(MarkedStates) \in Nat
<1>1. \A s : Marked(s) <=> s \in MarkedStates
  <2>1. DOMAIN Opens =
          Roots \cup Firsts \cup {"document_end", "indentless_sequence_entry"}
            \cup BlockStates \cup FlowStates
    BY DEF Opens, Roots, Firsts, BlockStates, FlowStates
  <2> QED BY <2>1, StateTables DEF Marked, MarkedStates, BlockStates, FlowStates, Firsts, Roots
<1>2. {i \in DOMAIN Frames : Marked(Frames[i])} = {i \in DOMAIN Frames : Frames[i] \in MarkedStates}
  BY <1>1
<1>3. Cardinality({i \in DOMAIN Frames : Marked(Frames[i])}) = Depth(MarkedStates)
  BY <1>2, FramesAreCounted DEF Levels
<1>4. state = "None" => states = <<>>
  BY DEF StackOK, Outside
<1>5. Depth(MarkedStates) \in Nat
  <2>1. Count(states, MarkedStates) \in Nat
    BY CountType DEF StackOK
  <2> QED BY <2>1 DEF Depth
<1> QED BY <1>3, <1>4, <1>5 DEF MarksMatch

\* Back to the function on top of the stack.
LEMMA Popped ==
  ASSUME StackOK, state \notin Outside, state' = Last(states), states' = Front(states), pos' = "call"
  PROVE  StackOK' /\ \A M \in Levels : Depth(M)' = Count(states, M)
<1>1. /\ states' \in Seq(Inner \cup {"document_end"}) /\ state' \in Inner \cup {"document_end"}
      /\ states = Append(states', state') /\ Len(states') = Len(states) - 1
      /\ state' = states[Len(states)] /\ Len(states) \in Nat /\ Len(states) > 0
      /\ \A i \in DOMAIN states' : i \in DOMAIN states /\ i < Len(states) /\ states'[i] = states[i]
  BY FrontLast DEF StackOK
<1>2. state' = "document_end" <=> Len(states) = 1
  BY <1>1 DEF StackOK
<1>3. states' = <<>> <=> Len(states) = 1
  BY <1>1
<1>4. state' \in Outside <=> state' = "document_end"
  BY <1>1, LevelsAreInner DEF Outside
<1>5. StackOK'
  BY <1>1, <1>2, <1>3, <1>4, LevelsAreInner DEF StackOK, Outside
<1>6. ASSUME NEW M \in Levels
      PROVE  Depth(M)' = Count(states, M)
  <2>1. Count(Append(states', state'), M) = Count(states', M) + (IF state' \in M THEN 1 ELSE 0)
    <3> DEFINE below == states'
               top == state'
    <3>1. below \in Seq(Inner \cup {"document_end"}) /\ top \in Inner \cup {"document_end"}
      BY <1>1
    <3> HIDE DEF below, top
    <3>2. Count(Append(below, top), M) = Count(below, M) + (IF top \in M THEN 1 ELSE 0)
      BY <3>1, CountAppend
    <3> QED BY <3>2 DEF below, top
  <2>2. ~Pending'
    BY <1>1, LevelsAreInner DEF Pending, Outside, Roots
  <2>3. Count(states', M) \in Nat
    BY <1>1, CountType
  <2> QED BY <1>1, <2>1, <2>2, <2>3 DEF Depth
<1> QED BY <1>5, <1>6

\* A node in a collection comes first.
LEMMA Pushed ==
  ASSUME StackOK, state \in Inner, NEW then \in Inner, states' = Append(states, then),
         state' = state, pos' = "node"
  PROVE  StackOK' /\ \A M \in Levels : Depth(M)' = Count(states, M) + (IF then \in M THEN 1 ELSE 0)
<1>1. states \in Seq(Inner \cup {"document_end"}) /\ then \in Inner \cup {"document_end"}
  BY DEF StackOK
<1>2. then # "document_end" /\ state \notin Outside /\ state \notin Firsts
  BY LevelsAreInner DEF Outside
<1>3. /\ states' \in Seq(Inner \cup {"document_end"}) /\ states' # <<>>
      /\ \A i \in DOMAIN states' : \/ i \in DOMAIN states /\ states'[i] = states[i]
                                   \/ i = Len(states) + 1 /\ states'[i] = then
      /\ Len(states) \in Nat /\ Len(states) > 0
  BY <1>1, <1>2 DEF StackOK
<1>4. StackOK'
  BY <1>2, <1>3 DEF StackOK
<1>5. ASSUME NEW M \in Levels
      PROVE  Depth(M)' = Count(states, M) + (IF then \in M THEN 1 ELSE 0)
  <2>1. Count(states', M) = Count(states, M) + (IF then \in M THEN 1 ELSE 0)
    BY <1>1, CountAppend
  <2>2. Pending' /\ Count(states, M) \in Nat
    BY <1>1, CountType DEF Pending
  <2> QED BY <2>1, <2>2 DEF Depth
<1> QED BY <1>4, <1>5

LEMMA DepthType ==
  ASSUME StackOK, NEW M \in Levels
  PROVE  Depth(M) \in Nat /\ Count(states, M) \in Nat
<1>1. Count(states, M) \in Nat
  BY CountType DEF StackOK
<1> QED BY <1>1 DEF Depth

\* Another function, or further in it.
LEMMA Stayed ==
  ASSUME StackOK, states' = states, marks' = marks, state \notin Outside,
         state' \in Roots \cup Firsts \cup Inner, pos' \in {"call", "entry", "item", "node"},
         state' \in Firsts => pos' = "call",
         \A M \in Levels : (~Pending /\ state \in M) <=> (~Pending /\ state \in M)'
  PROVE  SameDepth
<1>1. state' \notin Outside
  BY LevelsAreInner
<1>2. StackOK'
  BY <1>1 DEF StackOK
<1>3. ASSUME NEW M \in Levels
      PROVE  Depth(M)' = Depth(M)
  BY <1>3 DEF Depth
<1> QED BY <1>2, <1>3 DEF SameDepth

LEMMA StayedOutside ==
  ASSUME StackOK, states' = states, marks' = marks, state \in Outside, state' \in Outside,
         pos' \in {"call", "item"}
  PROVE  SameDepth
<1>1. StackOK'
  BY LevelsAreInner DEF StackOK
<1>2. ASSUME NEW M \in Levels
      PROVE  Depth(M)' = Depth(M)
  <2>1. state \notin M /\ state' \notin M
    BY LevelsAreInner
  <2> QED BY <2>1 DEF Depth
<1> QED BY <1>1, <1>2 DEF SameDepth

\* A function of the documents calls that of a root.
LEMMA DocumentStarted ==
  ASSUME StackOK, state \in Outside, state' \in Roots, states' = Append(states, "document_end"),
         pos' = "call", marks' = marks
  PROVE  SameDepth
<1>1. states = <<>>
  BY DEF StackOK
<1>2. /\ states' \in Seq(Inner \cup {"document_end"}) /\ states' # <<>>
      /\ \A i \in DOMAIN states' : i = 1 /\ states'[i] = "document_end"
  BY <1>1
<1>3. StackOK'
  BY <1>2, LevelsAreInner DEF StackOK
<1>4. ASSUME NEW M \in Levels
      PROVE  Depth(M)' = Depth(M)
  <2>1. state \notin M /\ state' \notin M /\ "document_end" \notin M
    BY LevelsAreInner DEF Outside
  <2>2. Count(<<>>, M) = 0 /\ Count(<<"document_end">>, M) = 0
    BY <2>1, CountEmpty, CountOne
  <2>3. states' = <<"document_end">>
    BY <1>1
  <2> QED BY <1>1, <2>1, <2>2, <2>3 DEF Depth
<1> QED BY <1>3, <1>4 DEF SameDepth

\* What else a step does: a collection starts, or ends.
StartsCollection ==
  /\ StackOK' /\ state \in Firsts /\ state' = FirstEntry[state] /\ marks' = marks + 1
  /\ tok' = "none" /\ pos' # "node"
  /\ \A M \in Levels : Depth(M)' = Depth(M) + (IF FirstEntry[state] \in M THEN 1 ELSE 0)
EndsCollection ==
  /\ StackOK' /\ state \in DOMAIN EndTokens /\ marks' = marks - 1
  /\ tok = EndTokens[state] /\ tok' = "none"
  /\ \A M \in Levels : Depth(M)' = Depth(M) - (IF state \in M THEN 1 ELSE 0)

LEMMA DocumentSteps ==
  ASSUME StackOK,
         \/ StreamStart \/ ImplicitDocumentStart \/ ProcessDirectives \/ Directive
         \/ ExplicitDocumentStart \/ ExtraDocumentEnd \/ StreamEnd \/ DocumentEnd \/ Root
  PROVE  SameDepth
<1>1. CASE StreamStart \/ ProcessDirectives \/ StreamEnd \/ DocumentEnd
  <2>1. state \in Outside /\ state' \in Outside /\ pos' \in {"call", "item"}
        /\ states' = states /\ marks' = marks
    BY <1>1 DEF StreamStart, ProcessDirectives, StreamEnd, DocumentEnd, At, Goto, Outside
  <2> QED BY <2>1, StayedOutside
<1>2. CASE Directive \/ ExtraDocumentEnd
  <2>1. state \in Outside /\ state' = state /\ pos' = pos /\ states' = states /\ marks' = marks
    BY <1>2 DEF Directive, ExtraDocumentEnd, Refuse, At, stack, Outside
  <2>2. pos' \in {"call", "item"}
    BY <1>2, <2>1 DEF Directive, ExtraDocumentEnd, At
  <2> QED BY <2>1, <2>2, StayedOutside
<1>3. CASE ImplicitDocumentStart
  <2>1. state \in Outside /\ pos = "call"
    BY <1>3 DEF ImplicitDocumentStart, At, Outside
  <2>2. \/ state' = "document_start" /\ pos' = "call" /\ states' = states /\ marks' = marks
        \/ /\ state' = "block_node" /\ states' = Append(states, "document_end")
           /\ pos' = "call" /\ marks' = marks
    BY <1>3, <2>1 DEF ImplicitDocumentStart, Goto
  <2> QED BY <2>1, <2>2, StayedOutside, DocumentStarted DEF Outside, Roots
<1>4. CASE ExplicitDocumentStart
  <2>1. state \in Outside /\ pos = "item"
    BY <1>4 DEF ExplicitDocumentStart, At, Outside
  <2>2. \/ state' = state /\ pos' = "item" /\ states' = states /\ marks' = marks
        \/ /\ state' = "document_content" /\ states' = Append(states, "document_end")
           /\ pos' = "call" /\ marks' = marks
    BY <1>4, <2>1 DEF ExplicitDocumentStart, Refuse, stack
  <2> QED BY <2>1, <2>2, StayedOutside, DocumentStarted DEF Outside, Roots
<1>5. CASE Root
  <2>1. state \in Roots /\ state \notin Outside /\ Pending /\ pos = "call"
    BY <1>5, LevelsAreInner DEF Root, At, Pending, Roots
  <2>2. CASE Pop
    <3>1. StackOK' /\ \A M \in Levels : Depth(M)' = Count(states, M)
      BY <2>1, <2>2, Popped DEF Pop
    <3>2. marks' = marks
      BY <2>2 DEF Pop
    <3>3. \A M \in Levels : Depth(M) = Count(states, M)
      BY <2>1, DepthType DEF Depth
    <3> QED BY <3>1, <3>2, <3>3 DEF SameDepth
  <2>3. CASE Goto(state, "node")
    <3>1. state' = state /\ pos' = "node" /\ states' = states /\ marks' = marks
      BY <2>3 DEF Goto
    <3>2. Pending' /\ state' \notin Firsts
      BY <2>1, <3>1, LevelsAreInner DEF Pending
    <3> QED BY <2>1, <3>1, <3>2, Stayed
  <2> QED BY <1>5, <2>2, <2>3 DEF Root
<1> QED BY <1>1, <1>2, <1>3, <1>4, <1>5

LEMMA NodeSteps ==
  ASSUME StackOK,
         Property \/ Alias \/ Collection \/ Scalar \/ NoContent \/ UnknownHandle
  PROVE  SameDepth
<1>1. pos = "node" /\ Pending /\ state \notin Outside /\ state \notin Firsts
  <2>1. pos = "node"
    BY DEF Property, Alias, Collection, Scalar, NoContent, UnknownHandle, ContentComes, InNode
  <2> QED BY <2>1 DEF StackOK, Pending
<1>2. CASE Pop
  <2>1. StackOK' /\ \A M \in Levels : Depth(M)' = Count(states, M)
    BY <1>1, <1>2, Popped DEF Pop
  <2>2. \A M \in Levels : Depth(M) = Count(states, M)
    BY <1>1, DepthType DEF Depth
  <2>3. marks' = marks
    BY <1>2 DEF Pop
  <2> QED BY <2>1, <2>2, <2>3 DEF SameDepth
<1>3. CASE UNCHANGED stack
  <2>1. state' = state /\ pos' = pos /\ states' = states /\ marks' = marks
    BY <1>3 DEF stack
  <2>2. Pending' /\ state' \in Roots \cup Firsts \cup Inner /\ pos' \in {"call", "entry", "item", "node"}
    BY <1>1, <2>1 DEF Pending, StackOK
  <2> QED BY <1>1, <2>1, <2>2, Stayed
<1>4. CASE Collection
  <2>1. tok \in {"BlockEntry", "FlowSequenceStart", "FlowMappingStart", "BlockSequenceStart",
                 "BlockMappingStart"}
    BY <1>4 DEF Collection, Contents
  <2>2. state' \in Firsts \cup {"indentless_sequence_entry"} /\ pos' = "call"
        /\ states' = states /\ marks' = marks
    <3>1. CASE tok = "BlockEntry"
      BY <1>4, <3>1 DEF Collection, Goto
    <3>2. CASE tok # "BlockEntry"
      BY <1>4, <2>1, <3>2, StateTables DEF Collection, Goto
    <3> QED BY <3>1, <3>2
  <2>3. state' \in Firsts \cup Inner
    BY <2>2 DEF Inner
  <2>4. \A M \in Levels : state' \notin M
    BY <2>2, LevelsAreInner
  <2> QED BY <1>1, <2>2, <2>3, <2>4, Stayed
<1> QED
  BY <1>2, <1>3, <1>4 DEF Property, Alias, Scalar, NoContent, UnknownHandle, Refuse

\* The next function of an item is as deep as the function of the item.
LEMMA ItemSteps ==
  ASSUME StackOK, Item \/ ItemNode \/ NoItem \/ Comma \/ FlowEntryNode \/ NotInCollection
  PROVE  SameDepth
<1>1. state \in Inner /\ pos # "node" /\ ~Pending /\ state \notin Outside
  <2>1. state \in DOMAIN Items \cup DOMAIN EndTokens \cup FlowEntries
               \cup {"flow_mapping_empty_value", "flow_sequence_entry_mapping_end"}
    BY DEF Item, ItemNode, NoItem, Comma, FlowEntryNode, NotInCollection, ItemComes, At
  <2>2. state \in Inner
    BY <2>1, StateTables, ItemTable DEF Inner, MarkedStates, BlockStates, FlowStates
  <2>3. pos # "node"
    BY DEF Item, ItemNode, NoItem, Comma, FlowEntryNode, NotInCollection, ItemComes, At
  <2> QED BY <2>2, <2>3, LevelsAreInner DEF Pending, Roots
<1>2. CASE NotInCollection \/ Item \/ Comma
  <2>1. /\ state' = state /\ pos' \in {"call", "entry", "item", "node"} /\ pos' # "node"
        /\ states' = states /\ marks' = marks
    <3>1. CASE NotInCollection
      BY <1>1, <3>1 DEF NotInCollection, Refuse, stack, StackOK
    <3>2. CASE Item \/ Comma
      BY <3>2 DEF Item, Comma, Goto
    <3> QED BY <1>2, <3>1, <3>2
  <2>2. ~Pending' /\ state' \notin Firsts
    BY <1>1, <2>1, LevelsAreInner DEF Pending
  <2> QED BY <1>1, <2>1, <2>2, Stayed
<1>3. ASSUME NEW then \in Inner, \A M \in Levels : state \in M <=> then \in M,
             state' = then, pos' = "call", states' = states, marks' = marks
      PROVE  SameDepth
  <2>1. ~Pending'
    BY <1>3, LevelsAreInner DEF Pending, Roots
  <2>2. state' \in Roots \cup Firsts \cup Inner /\ pos' \in {"call", "entry", "item", "node"}
    BY <1>3
  <2> QED BY <1>1, <1>3, <2>1, <2>2, Stayed
<1>4. ASSUME NEW then \in Inner, \A M \in Levels : state \in M <=> then \in M, NEW k, Node(k, then)
      PROVE  SameDepth
  <2>1. /\ states' = Append(states, then) /\ state' = state /\ pos' = "node" /\ marks' = marks
    BY <1>4 DEF Node
  <2>2. /\ StackOK'
        /\ \A M \in Levels : Depth(M)' = Count(states, M) + (IF then \in M THEN 1 ELSE 0)
    BY <1>1, <2>1, Pushed
  <2>3. \A M \in Levels : Depth(M) = Count(states, M) + (IF state \in M THEN 1 ELSE 0)
    BY <1>1 DEF Depth
  <2> QED BY <1>4, <2>1, <2>2, <2>3 DEF SameDepth
<1>5. CASE ItemNode
  <2>1. state \in DOMAIN Items
    BY <1>5 DEF ItemNode
  <2>2. Items[state].then \in Inner
        /\ \A M \in Levels : state \in M <=> Items[state].then \in M
    BY <2>1, ItemTable
  <2>3. \/ /\ state' = Items[state].then /\ pos' = "call" /\ states' = states /\ marks' = marks
        \/ Node(Items[state].kind, Items[state].then)
    BY <1>5 DEF ItemNode, Goto
  <2> QED BY <1>3, <1>4, <2>2, <2>3
<1>6. CASE NoItem
  <2>1. PICK then : /\ state' = then /\ pos' = "call" /\ states' = states /\ marks' = marks
                    /\ \/ state \in DOMAIN Items /\ then = Items[state].then
                       \/ state = "flow_mapping_empty_value" /\ then = "flow_mapping_key"
                       \/ /\ state = "flow_sequence_entry_mapping_end"
                          /\ then = "flow_sequence_entry"
    BY <1>6 DEF NoItem, At, Goto
  <2>2. then \in Inner /\ \A M \in Levels : state \in M <=> then \in M
    <3>1. CASE state \in DOMAIN Items /\ then = Items[state].then
      BY <3>1, ItemTable
    <3>2. CASE state \in FlowStates /\ then \in FlowStates
      BY <3>2 DEF Levels, Inner, MarkedStates, BlockStates, FlowStates
    <3> QED BY <2>1, <3>1, <3>2 DEF FlowStates
  <2> QED BY <1>3, <2>1, <2>2
<1>7. CASE FlowEntryNode
  <2>1. PICK then \in {"flow_sequence_entry_mapping_key", "flow_sequence_entry",
                       "flow_mapping_empty_value"} :
          /\ state \in FlowEntries
          /\ \/ state' = then /\ pos' = "call" /\ states' = states /\ marks' = marks
             \/ Node("flow", then)
    BY <1>7 DEF FlowEntryNode, Goto
  <2>2. then \in Inner /\ \A M \in Levels : state \in M <=> then \in M
    BY <2>1, StateTables DEF Levels, Inner, MarkedStates, BlockStates, FlowStates
  <2> QED BY <1>3, <1>4, <2>1, <2>2
<1> QED BY <1>2, <1>5, <1>6, <1>7

LEMMA FirstStep ==
  ASSUME StackOK, First
  PROVE  StartsCollection
<1>1. /\ state \in Firsts /\ pos = "call" /\ state' = FirstEntry[state] /\ states' = states
      /\ marks' = marks + 1 /\ pos' \in {"entry", "call"} /\ tok' = "none"
  BY StateTables DEF First, At, Take
<1>2. state' \in Inner /\ ~Pending /\ state \notin Outside
  BY <1>1, StateTables, LevelsAreInner DEF Pending, Roots
<1>3. ~Pending' /\ state' \notin Outside /\ state' \notin Firsts
  BY <1>1, <1>2, LevelsAreInner DEF Pending, Roots
<1>4. StackOK'
  BY <1>1, <1>2, <1>3 DEF StackOK
<1>5. ASSUME NEW M \in Levels
      PROVE  Depth(M)' = Depth(M) + (IF FirstEntry[state] \in M THEN 1 ELSE 0)
  <2>1. state \notin M
    BY <1>1, LevelsAreInner
  <2>2. Count(states, M) \in Nat
    BY DepthType
  <2> QED BY <1>1, <1>2, <1>3, <2>1, <2>2 DEF Depth
<1> QED BY <1>1, <1>4, <1>5 DEF StartsCollection

LEMMA EndStep ==
  ASSUME StackOK, End
  PROVE  (SameDepth /\ UNCHANGED tok) \/ EndsCollection
<1>1. state \in Inner /\ ~Pending /\ state \notin Outside
  <2>1. state \in DOMAIN EndTokens \cup {"indentless_sequence_entry"} /\ pos # "node"
    BY DEF End
  <2>2. state \in Inner
    BY <2>1, StateTables DEF Inner, MarkedStates, BlockStates, FlowStates
  <2> QED BY <2>1, <2>2, LevelsAreInner DEF Pending, Roots
<1>2. /\ state' = Last(states) /\ states' = Front(states) /\ pos' = "call"
      /\ \/ /\ state \in DOMAIN EndTokens /\ tok = EndTokens[state] /\ tok' = "none"
            /\ marks' = marks - 1
         \/ state = "indentless_sequence_entry" /\ marks' = marks /\ tok' = tok
  BY DEF End, Pop, PopCollection, TakeFor, LookFor
<1>3. StackOK' /\ \A M \in Levels : Depth(M)' = Count(states, M)
  BY <1>1, <1>2, Popped
<1>4. \A M \in Levels : Depth(M)' = Depth(M) - (IF state \in M THEN 1 ELSE 0)
  <2> SUFFICES ASSUME NEW M \in Levels
               PROVE  Depth(M)' = Depth(M) - (IF state \in M THEN 1 ELSE 0)
    OBVIOUS
  <2>1. Depth(M) = Count(states, M) + (IF state \in M THEN 1 ELSE 0) /\ Count(states, M) \in Nat
    BY <1>1, DepthType DEF Depth
  <2> QED BY <1>3, <2>1
<1>5. CASE state = "indentless_sequence_entry" /\ marks' = marks /\ tok' = tok
  <2>1. \A M \in Levels : state \notin M /\ Depth(M) \in Nat
    BY <1>5, LevelsAreInner, DepthType
  <2> QED BY <1>3, <1>4, <1>5, <2>1 DEF SameDepth
<1> QED BY <1>2, <1>3, <1>4, <1>5 DEF EndsCollection

LEMMA ParserSteps ==
  ASSUME StackOK, Parse \/ get_event
  PROVE  SameDepth \/ StartsCollection \/ EndsCollection
<1>1. CASE get_event
  <2>1. states' = states /\ marks' = marks /\ state' = state /\ pos' = pos
    BY <1>1 DEF get_event, stack
  <2>2. StackOK'
    BY <2>1 DEF StackOK
  <2>3. \A M \in Levels : Depth(M)' = Depth(M)
    BY <2>1 DEF Depth, Pending
  <2> QED BY <2>1, <2>2, <2>3 DEF SameDepth
<1> QED BY <1>1, DocumentSteps, NodeSteps, ItemSteps, FirstStep, EndStep DEF Parse

\* Scanning and peeking leave the parser's stack alone.
LEMMA ScannerLeavesTheStack ==
  ASSUME StackOK, Peek \/ ScanMore \/ UNCHANGED vars
  PROVE  SameDepth
<1>1. states' = states /\ marks' = marks /\ state' = state /\ pos' = pos
  BY DEF Peek, ScanMore, stack, parserVars, vars
<1>2. StackOK'
  BY <1>1 DEF StackOK
<1>3. \A M \in Levels : Depth(M)' = Depth(M)
  BY <1>1 DEF Depth, Pending
<1> QED BY <1>1, <1>2, <1>3 DEF SameDepth

-----------------------------------------------------------------------------
\* Every function in the stack of a collection with a start mark has one.
MarkInv == StackOK /\ marks = Depth(MarkedStates)

LEMMA MarkInvInit == Init => MarkInv
<1> SUFFICES ASSUME Init PROVE MarkInv
  OBVIOUS
<1>1. state = "stream_start" /\ states = <<>> /\ pos = "call" /\ marks = 0
  BY DEF Init, ParserInit
<1>2. StackOK
  BY <1>1, LevelsAreInner DEF StackOK, Outside
<1>3. Depth(MarkedStates) = 0
  <2>1. state \notin MarkedStates
    BY <1>1, LevelsAreInner DEF Levels, Outside
  <2> QED BY <1>1, <2>1, CountEmpty DEF Depth
<1> QED BY <1>1, <1>2, <1>3 DEF MarkInv

LEMMA MarkInvStep == MarkInv /\ [Next]_vars => MarkInv'
<1> SUFFICES ASSUME MarkInv, [Next]_vars PROVE MarkInv'
  OBVIOUS
<1>1. StackOK /\ marks = Depth(MarkedStates) /\ Depth(MarkedStates) \in Nat /\ MarkedStates \in Levels
  BY DepthType DEF MarkInv, Levels
<1>2. SameDepth \/ StartsCollection \/ EndsCollection
  BY <1>1, ParserSteps, ScannerLeavesTheStack DEF Next, ParserStep
<1>3. CASE SameDepth
  BY <1>1, <1>3 DEF SameDepth, MarkInv
<1>4. CASE StartsCollection
  <2>1. FirstEntry[state] \in MarkedStates
    BY <1>4 DEF StartsCollection, FirstEntry, Firsts, MarkedStates, BlockStates, FlowStates
  <2> QED BY <1>1, <1>4, <2>1 DEF StartsCollection, MarkInv
<1>5. CASE EndsCollection
  <2>1. state \in MarkedStates
    BY <1>5, StateTables DEF EndsCollection, MarkedStates, BlockStates, FlowStates
  <2> QED BY <1>1, <1>5, <2>1 DEF EndsCollection, MarkInv
<1> QED BY <1>2, <1>3, <1>4, <1>5

\* Parser.marks and Parser.states stay together on every text, so that an
\* error message always finds the mark it names and the parser's assertions
\* at the end of the stream hold.
THEOREM MarksAreKept == Spec => []MarksMatch
<1>1. MarkInv => MarksMatch
  BY Marks DEF MarkInv
<1> QED BY <1>1, MarkInvInit, MarkInvStep, PTL DEF Spec

-----------------------------------------------------------------------------
\* In a document, and once its directives are being read, the handles are those
\* that it declares; between documents nothing is declared.
Before == {"stream_start", "implicit_document_start"}
HandleInv ==
  /\ StackOK
  /\ tag_handles \in BOOLEAN /\ declared \in BOOLEAN
  /\ (state \in Before \/ (state = "document_start" /\ pos = "call")) => declared = FALSE
  /\ (state \notin Outside \/ state = "document_end" \/ (state = "document_start" /\ pos # "call"))
       => tag_handles = declared

LEMMA OutsideSteps ==
  ASSUME StackOK, state \in Outside, Parse
  PROVE  \/ StreamStart \/ ImplicitDocumentStart \/ ProcessDirectives \/ Directive
         \/ ExplicitDocumentStart \/ ExtraDocumentEnd \/ StreamEnd \/ DocumentEnd
<1>1. pos \in {"call", "item"} /\ state \notin Inner \cup Roots \cup Firsts
  BY LevelsAreInner DEF StackOK
<1>2. state \notin Roots => ~Root
  BY DEF Root, At, Roots
<1>3. pos # "node" => ~(Property \/ Alias \/ Collection \/ Scalar \/ NoContent \/ UnknownHandle)
  BY DEF Property, Alias, Collection, Scalar, NoContent, UnknownHandle, ContentComes, InNode
<1>4. state \notin Firsts => ~First
  BY StateTables DEF First
<1>5. state \notin Inner =>
        ~(Item \/ ItemNode \/ NoItem \/ Comma \/ FlowEntryNode \/ End \/ NotInCollection)
  BY ItemTable, StateTables
     DEF Item, ItemNode, NoItem, Comma, FlowEntryNode, End, NotInCollection, ItemComes, At,
         Inner, MarkedStates, BlockStates, FlowStates
<1> QED BY <1>1, <1>2, <1>3, <1>4, <1>5 DEF Parse

\* Nothing in a document touches its handles, or leaves it but to its end.
LEMMA DocumentKeepsHandles ==
  ASSUME StackOK, state \notin Outside, Parse
  PROVE  UNCHANGED tags /\ (state' \notin Outside \/ state' = "document_end")
<1>1. state \notin {"stream_start", "implicit_document_start", "document_start", "document_end"}
  BY DEF Outside
<1>2. \/ Root \/ Property \/ Alias \/ Collection \/ Scalar \/ NoContent \/ UnknownHandle
      \/ First \/ Item \/ ItemNode \/ NoItem \/ Comma \/ FlowEntryNode \/ End \/ NotInCollection
  BY <1>1 DEF Parse, StreamStart, ImplicitDocumentStart, ProcessDirectives, Directive,
              ExplicitDocumentStart, ExtraDocumentEnd, StreamEnd, DocumentEnd, At
<1>3. UNCHANGED tags
  BY <1>2 DEF Root, Property, Alias, Collection, Scalar, NoContent, UnknownHandle, First, Item,
              ItemNode, NoItem, Comma, FlowEntryNode, End, NotInCollection
<1>4. CASE state' = Last(states)
  <2>1. state' \in Inner \cup {"document_end"}
    BY <1>4, FrontLast DEF StackOK
  <2> QED BY <1>3, <2>1, LevelsAreInner
<1>5. CASE state' \in Firsts \cup Inner \/ state' = state
  BY <1>3, <1>5, LevelsAreInner
<1>6. state' = Last(states) \/ state' \in Firsts \cup Inner \/ state' = state
  <2>1. CASE Root \/ Property \/ Alias \/ Scalar \/ NoContent \/ UnknownHandle
    BY <2>1 DEF Root, Property, Alias, Scalar, NoContent, UnknownHandle, Pop, Goto, Refuse, stack
  <2>2. CASE Item \/ Comma \/ NotInCollection \/ End
    BY <2>2 DEF Item, Comma, NotInCollection, End, Pop, PopCollection, Goto, Refuse, stack
  <2>3. CASE Collection
    <3>1. tok \in {"BlockEntry", "FlowSequenceStart", "FlowMappingStart", "BlockSequenceStart",
                   "BlockMappingStart"}
      BY <2>3 DEF Collection, Contents
    <3>2. tok # "BlockEntry" => FirstStates[tok] \in Firsts
      BY <3>1, StateTables
    <3> QED BY <2>3, <3>2 DEF Collection, Goto, Inner
  <2>4. CASE First
    BY <2>4, StateTables DEF First
  <2>5. CASE ItemNode \/ NoItem
    <3>1. state \in DOMAIN Items => Items[state].then \in Inner
      BY ItemTable
    <3> QED BY <2>5, <3>1 DEF ItemNode, NoItem, Goto, Node, Inner, MarkedStates, FlowStates
  <2>6. CASE FlowEntryNode
    BY <2>6 DEF FlowEntryNode, Goto, Node, Inner, MarkedStates, FlowStates
  <2> QED BY <1>2, <2>1, <2>2, <2>3, <2>4, <2>5, <2>6
<1> QED BY <1>4, <1>5, <1>6

LEMMA HandleInvInit == Init => HandleInv
<1> SUFFICES ASSUME Init PROVE HandleInv
  OBVIOUS
<1>1. StackOK
  BY MarkInvInit DEF MarkInv
<1>2. state = "stream_start" /\ tag_handles = FALSE /\ declared = FALSE
  BY DEF Init, ParserInit
<1> QED BY <1>1, <1>2 DEF HandleInv, Outside, Before

LEMMA HandleInvStep == HandleInv /\ [Next]_vars => HandleInv'
<1> SUFFICES ASSUME HandleInv, [Next]_vars PROVE HandleInv'
  OBVIOUS
<1>1. StackOK /\ StackOK'
  BY ParserSteps, ScannerLeavesTheStack
     DEF Next, ParserStep, HandleInv, SameDepth, StartsCollection, EndsCollection
<1>2. CASE Peek \/ ScanMore \/ get_event \/ UNCHANGED vars
  <2>1. state' = state /\ pos' = pos /\ tag_handles' = tag_handles /\ declared' = declared
    BY <1>2 DEF Peek, ScanMore, get_event, stack, tags, parserVars, vars
  <2> QED BY <1>1, <2>1 DEF HandleInv
<1>3. CASE Parse /\ state \notin Outside
  <2>1. tag_handles' = tag_handles /\ declared' = declared
    BY <1>1, <1>3, DocumentKeepsHandles DEF tags
  <2>2. state' \notin Outside \/ state' = "document_end"
    BY <1>1, <1>3, DocumentKeepsHandles
  <2>3. state' \notin Before /\ state' # "document_start"
    BY <2>2 DEF Outside, Before
  <2> QED BY <1>1, <1>3, <2>1, <2>2, <2>3 DEF HandleInv
<1>4. CASE Parse /\ state \in Outside
  <2>1. \/ StreamStart \/ ImplicitDocumentStart \/ ProcessDirectives \/ Directive
        \/ ExplicitDocumentStart \/ ExtraDocumentEnd \/ StreamEnd \/ DocumentEnd
    BY <1>1, <1>4, OutsideSteps
  <2>2. CASE StreamStart
    <3>1. declared = FALSE
      BY <2>2 DEF HandleInv, StreamStart, At, Before
    <3>2. state' = "implicit_document_start" /\ tag_handles' = tag_handles /\ declared' = declared
      BY <2>2 DEF StreamStart, Goto, tags
    <3> QED BY <1>1, <3>1, <3>2 DEF HandleInv, Outside, Before
  <2>3. CASE ImplicitDocumentStart
    <3>1. declared = FALSE /\ declared' = FALSE
      BY <2>3 DEF HandleInv, ImplicitDocumentStart, At, Before, tags
    <3>2. \/ state' = "document_start" /\ pos' = "call" /\ tag_handles' = tag_handles
          \/ state' = "block_node" /\ tag_handles' = FALSE
      BY <2>3 DEF ImplicitDocumentStart, Goto, tags
    <3> QED BY <1>1, <3>1, <3>2 DEF HandleInv, Outside, Before
  <2>4. CASE ProcessDirectives
    <3>1. declared = FALSE /\ declared' = FALSE
      BY <2>4 DEF HandleInv, ProcessDirectives, At
    <3>2. state' = "document_start" /\ pos' = "item" /\ tag_handles' = FALSE
      BY <2>4 DEF ProcessDirectives, Goto
    <3> QED BY <1>1, <3>1, <3>2 DEF HandleInv, Outside, Before
  <2>5. CASE Directive
    <3>1. tag_handles = declared /\ state = "document_start" /\ pos = "item"
      BY <2>5 DEF HandleInv, Directive, At
    <3>2. state' = state /\ pos' = pos
      BY <2>5 DEF Directive, Refuse, stack
    <3>3. \/ tag_handles' = (tag_handles \/ tok = "TAG") /\ declared' = (declared \/ tok = "TAG")
          \/ tag_handles' = tag_handles /\ declared' = declared
      BY <2>5 DEF Directive, tags
    <3>4. tag_handles' = declared' /\ tag_handles' \in BOOLEAN /\ declared' \in BOOLEAN
      BY <3>1, <3>3 DEF HandleInv
    <3> QED BY <1>1, <3>1, <3>2, <3>4 DEF HandleInv, Outside, Before
  <2>6. CASE ExplicitDocumentStart
    <3>1. tag_handles = declared /\ tag_handles' = tag_handles /\ declared' = declared
      BY <2>6 DEF HandleInv, ExplicitDocumentStart, At
    <3>2. \/ state' = "document_content"
          \/ state' = "document_start" /\ pos' = "item"
      BY <2>6 DEF ExplicitDocumentStart, Refuse, At, stack
    <3> QED BY <1>1, <3>1, <3>2 DEF HandleInv, Outside, Before
  <2>7. CASE ExtraDocumentEnd
    <3>1. state' = state /\ pos' = pos /\ tag_handles' = tag_handles /\ declared' = declared
      BY <2>7 DEF ExtraDocumentEnd, stack, tags
    <3> QED BY <1>1, <3>1 DEF HandleInv
  <2>8. CASE StreamEnd
    <3>1. state' = "None" /\ tag_handles' = tag_handles /\ declared' = declared
      BY <2>8 DEF StreamEnd, Goto, tags
    <3> QED BY <1>1, <3>1 DEF HandleInv, Outside, Before
  <2>9. CASE DocumentEnd
    <3>1. state' = "document_start" /\ pos' = "call" /\ declared' = FALSE
          /\ tag_handles' = tag_handles
      BY <2>9 DEF DocumentEnd, Goto
    <3> QED BY <1>1, <3>1 DEF HandleInv, Outside, Before
  <2> QED BY <2>1, <2>2, <2>3, <2>4, <2>5, <2>6, <2>7, <2>8, <2>9
<1> QED BY <1>2, <1>3, <1>4 DEF Next, ParserStep

\* process_directives() gives every document its own handles: when a node looks
\* a tag up, the handles are those of its document's TAG directives, whatever
\* documents came before.
THEOREM HandlesAreTheDocuments == Spec => []HandlesOfTheDocument
<1>1. HandleInv => HandlesOfTheDocument
  BY DEF HandleInv, HandlesOfTheDocument, StackOK
<1> QED BY <1>1, HandleInvInit, HandleInvStep, PTL DEF Spec

-----------------------------------------------------------------------------
\* The scanner: possible simple keys and the tokens that they are.

TokenSet == [type : Tokens, column : Int]
KeySet == [number : Nat, required : BOOLEAN, column : Int, here : BOOLEAN]

LEMMA TokenType ==
  ASSUME NEW t \in Tokens, NEW c \in Int
  PROVE  Token(t, c) \in TokenSet /\ Token(t, c).type = t /\ Token(t, c).column = c
BY DEF Token, TokenSet

LEMMA KeyTable ==
  /\ Range(KeyStarts) = {"Alias", "Anchor", "Tag", "NamedTag", "Scalar", "FlowSequenceStart",
                         "FlowMappingStart"}
  /\ \A s \in DOMAIN KeyStarts : KeyStarts[s] \in Range(KeyStarts)
  /\ Range(KeyStarts) \subseteq Tokens
<1>1. /\ DOMAIN KeyStarts = {"*", "&", "!", "!x!", "q", "a", "[", "{"}
      /\ KeyStarts["*"] = "Alias" /\ KeyStarts["&"] = "Anchor" /\ KeyStarts["!"] = "Tag"
      /\ KeyStarts["!x!"] = "NamedTag" /\ KeyStarts["q"] = "Scalar" /\ KeyStarts["a"] = "Scalar"
      /\ KeyStarts["["] = "FlowSequenceStart" /\ KeyStarts["{"] = "FlowMappingStart"
  BY DEF KeyStarts
<1>2. Range(KeyStarts) = {"Alias", "Anchor", "Tag", "NamedTag", "Scalar", "FlowSequenceStart",
                         "FlowMappingStart"}
  BY <1>1 DEF Range
<1>3. \A s \in DOMAIN KeyStarts : KeyStarts[s] \in Range(KeyStarts)
  BY DEF Range
<1> QED BY <1>2, <1>3 DEF Tokens, Properties

\* A key deeper in flow collections begins later.
KeysOK(keys, queue, level) ==
  /\ \A l \in DOMAIN keys :
       /\ keys[l] \in KeySet /\ l \in Int /\ l <= level /\ keys[l].number < Len(queue)
       /\ queue[keys[l].number + 1].column = keys[l].column
       /\ queue[keys[l].number + 1].type \in Range(KeyStarts)
  /\ \A l, m \in DOMAIN keys : l < m => keys[l].number < keys[m].number

LEMMA KeysRestricted ==
  ASSUME NEW keys, NEW queue, NEW level, NEW L, KeysOK(keys, queue, level)
  PROVE  KeysOK(Without(keys, L), queue, level)
<1>1. DOMAIN Without(keys, L) = DOMAIN keys \ L
      /\ \A l \in DOMAIN Without(keys, L) : l \in DOMAIN keys /\ Without(keys, L)[l] = keys[l]
  BY DEF Without, Restrict
<1> QED BY <1>1 DEF KeysOK

LEMMA KeysLower ==
  ASSUME NEW keys, NEW queue, NEW level \in Int, KeysOK(keys, queue, level)
  PROVE  KeysOK(Without(keys, {level}), queue, level - 1)
<1>1. DOMAIN Without(keys, {level}) = DOMAIN keys \ {level}
      /\ \A l \in DOMAIN Without(keys, {level}) :
           l \in DOMAIN keys /\ Without(keys, {level})[l] = keys[l]
  BY DEF Without, Restrict
<1>2. \A l \in DOMAIN Without(keys, {level}) : l <= level - 1
  BY <1>1 DEF KeysOK
<1> QED BY <1>1, <1>2 DEF KeysOK

LEMMA KeysPassed ==
  ASSUME NEW keys, NEW queue, NEW level, KeysOK(keys, queue, level)
  PROVE  KeysOK([l \in DOMAIN keys |-> [keys[l] EXCEPT !.here = FALSE]], queue, level)
<1> DEFINE aged == [l \in DOMAIN keys |-> [keys[l] EXCEPT !.here = FALSE]]
<1>1. DOMAIN aged = DOMAIN keys
  OBVIOUS
<1>2. ASSUME NEW l \in DOMAIN keys
      PROVE  /\ aged[l] \in KeySet /\ aged[l].number = keys[l].number
             /\ aged[l].column = keys[l].column
  <2>1. keys[l] \in KeySet
    BY DEF KeysOK
  <2>2. aged[l] = [keys[l] EXCEPT !.here = FALSE]
    OBVIOUS
  <2> QED BY <2>1, <2>2 DEF KeySet
<1> HIDE DEF aged
<1>3. KeysOK(aged, queue, level)
  BY <1>1, <1>2 DEF KeysOK
<1> QED BY <1>3 DEF aged

LEMMA KeysOnLonger ==
  ASSUME NEW keys, NEW queue \in Seq(TokenSet), NEW more \in Seq(TokenSet), NEW level,
         KeysOK(keys, queue, level)
  PROVE  KeysOK(keys, queue \o more, level)
<1> DEFINE all == queue \o more
<1>1. Len(queue) \in Nat /\ Len(more) \in Nat /\ Len(all) = Len(queue) + Len(more)
      /\ \A i \in 1..Len(queue) : all[i] = queue[i]
  BY ConcatProperties
<1> HIDE DEF all
<1>2. \A l \in DOMAIN keys : keys[l].number \in Nat /\ keys[l].number < Len(queue)
  BY DEF KeysOK, KeySet
<1>3. \A l \in DOMAIN keys : keys[l].number + 1 \in 1..Len(queue)
  BY <1>1, <1>2
<1>4. \A l \in DOMAIN keys : keys[l].number < Len(all)
  BY <1>1, <1>2
<1>5. KeysOK(keys, all, level)
  BY <1>1, <1>3, <1>4 DEF KeysOK
<1> QED BY <1>5 DEF all

\* The type of the scanner's variables, and the first indent.
ScanTypes ==
  /\ tokens \in Seq(TokenSet)
  /\ indents \in Seq(Int) /\ indents # <<>> /\ indents[1] = -1
  /\ flow_level \in Int

LEMMA MaxOfIndices ==
  ASSUME NEW n \in Nat, NEW S \in SUBSET (1..n), S # {}
  PROVE  Max(S) \in S /\ \A i \in S : i <= Max(S)
<1> DEFINE R == {m \in Nat : n - m \in S}
<1>1. R \in SUBSET Nat /\ R # {}
  <2>1. PICK i : i \in S
    OBVIOUS
  <2>2. n - i \in Nat /\ n - (n - i) = i
    BY <2>1
  <2> QED BY <2>1, <2>2
<1>2. \E x \in R : \A y \in R : ~(<<y, x>> \in OpToRel(<, Nat))
  <2> HIDE DEF R
  <2> QED BY <1>1, WFMin, NatLessThanWellFounded, Zenon
<1>3. PICK x \in R : \A y \in R : ~(<<y, x>> \in OpToRel(<, Nat))
  BY <1>2
<1>4. \A y \in R : ~(y < x)
  <2> HIDE DEF R
  <2>1. x \in Nat /\ \A y \in R : y \in Nat
    BY <1>1
  <2> QED BY <1>3, <2>1 DEF OpToRel
<1>5. x \in Nat /\ n - x \in S
  BY <1>3
<1>6. \A i \in S : n - x >= i
  <2> SUFFICES ASSUME NEW i \in S PROVE n - x >= i
    OBVIOUS
  <2>1. i \in 1..n
    OBVIOUS
  <2>2. n - i \in R
    BY <2>1
  <2>3. ~(n - i < x)
    BY <1>4, <2>2
  <2> QED BY <1>5, <2>1, <2>3
<1>7. Max(S) \in S /\ \A i \in S : Max(S) >= i
  BY <1>5, <1>6 DEF Max
<1>8. \A i \in S : i \in Int
  OBVIOUS
<1> QED BY <1>7, <1>8

LEMMA Unwinding ==
  ASSUME ScanTypes, NEW col \in Int, col >= -1
  PROVE  /\ unwind_indent(col) \in Seq(Int) /\ unwind_indent(col) # <<>>
         /\ unwind_indent(col)[1] = -1 /\ Len(unwind_indent(col)) <= Len(indents)
<1>1. Len(indents) \in Nat /\ 1 \in DOMAIN indents /\ DOMAIN indents = 1..Len(indents)
      /\ \A i \in 1..Len(indents) : indents[i] \in Int
  BY DEF ScanTypes
<1> DEFINE S == {i \in DOMAIN indents : indents[i] <= col}
           k == Max(S)
<1>2. S \in SUBSET (1..Len(indents)) /\ 1 \in S
  BY <1>1 DEF ScanTypes
<1>3. k \in S
  <2> HIDE DEF S
  <2> QED BY <1>1, <1>2, MaxOfIndices
<1>4. k \in 1..Len(indents)
  BY <1>2, <1>3
<1> HIDE DEF S, k
<1>5. /\ SubSeq(indents, 1, k) \in Seq(Int) /\ Len(SubSeq(indents, 1, k)) = k
      /\ SubSeq(indents, 1, k)[1] = indents[1]
  BY <1>1, <1>4, SubSeqProperties
<1>6. CASE InBlock
  BY <1>1, <1>4, <1>5, <1>6 DEF unwind_indent, S, k, ScanTypes
<1>7. CASE ~InBlock
  BY <1>1, <1>7 DEF unwind_indent, ScanTypes
<1> QED BY <1>6, <1>7

LEMMA Queued ==
  ASSUME ScanTypes, NEW x, x.column \in Nat
  PROVE  /\ Indents(x) \in Seq(Int) /\ Indents(x) # <<>> /\ Indents(x)[1] = -1
         /\ Ended(x) \in Nat /\ Len(Indents(x)) = Len(indents) - Ended(x)
         /\ [i \in 1..Ended(x) |-> Token("BlockEnd", x.column)] \in Seq(TokenSet)
         /\ Queue(x) \in Seq(TokenSet) /\ Len(Queue(x)) = Len(tokens) + Ended(x)
         /\ \A i \in DOMAIN tokens : Queue(x)[i] = tokens[i]
<1> DEFINE col == IF x.ch \in DOMAIN Markers \cup {"end"} THEN -1 ELSE x.column
<1>1. col \in Int /\ col >= -1 /\ Indents(x) = unwind_indent(col)
  BY DEF Indents
<1> HIDE DEF col
<1>2. /\ Indents(x) \in Seq(Int) /\ Indents(x) # <<>> /\ Indents(x)[1] = -1
      /\ Len(Indents(x)) <= Len(indents)
  BY <1>1, Unwinding
<1>3. Len(indents) \in Nat /\ Len(Indents(x)) \in Nat
  BY <1>2 DEF ScanTypes
<1>4. Ended(x) \in Nat /\ Len(Indents(x)) = Len(indents) - Ended(x)
  BY <1>2, <1>3 DEF Ended
<1> DEFINE n == Ended(x)
           ends == [i \in 1..n |-> Token("BlockEnd", x.column)]
<1>5. Token("BlockEnd", x.column) \in TokenSet
  BY TokenType DEF Tokens
<1>6. ends \in Seq(TokenSet) /\ Len(ends) = n
  <2>1. n \in Nat
    BY <1>4
  <2> HIDE DEF n
  <2> QED BY <1>5, <2>1
<1>7. Queue(x) = tokens \o ends
  BY DEF Queue
<1> HIDE DEF ends, n
<1>8. /\ tokens \o ends \in Seq(TokenSet) /\ Len(tokens \o ends) = Len(tokens) + Len(ends)
      /\ \A i \in DOMAIN tokens : (tokens \o ends)[i] = tokens[i]
  <2>1. tokens \in Seq(TokenSet)
    BY DEF ScanTypes
  <2> HIDE DEF TokenSet
  <2> QED BY <1>6, <2>1
<1>9. /\ Queue(x) \in Seq(TokenSet) /\ Len(Queue(x)) = Len(tokens) + n
      /\ \A i \in DOMAIN tokens : Queue(x)[i] = tokens[i]
  BY <1>6, <1>7, <1>8
<1>10. [i \in 1..Ended(x) |-> Token("BlockEnd", x.column)] \in Seq(TokenSet)
  BY <1>6 DEF n, ends
<1> QED BY <1>2, <1>4, <1>9, <1>10 DEF n

LEMMA KeysHigher ==
  ASSUME NEW keys, NEW queue, NEW level \in Int, NEW above \in Int, level <= above,
         KeysOK(keys, queue, level)
  PROVE  KeysOK(keys, queue, above)
<1>1. \A l \in DOMAIN keys : l \in Int /\ l <= above
  BY DEF KeysOK
<1> QED BY <1>1 DEF KeysOK

\* A key is saved for the token that comes next.
LEMMA KeySaved ==
  ASSUME NEW keys, NEW queue \in Seq(TokenSet), NEW level \in Int, KeysOK(keys, queue, level),
         NEW t \in Range(KeyStarts), NEW key \in KeySet, key.number = Len(queue)
  PROVE  KeysOK([l \in DOMAIN keys \cup {level} |-> IF l = level THEN key ELSE keys[l]],
                Append(queue, Token(t, key.column)), level)
<1> DEFINE saved == [l \in DOMAIN keys \cup {level} |-> IF l = level THEN key ELSE keys[l]]
           all == Append(queue, Token(t, key.column))
           n == Len(queue)
<1>1. Token(t, key.column) \in TokenSet /\ Token(t, key.column).type = t
      /\ Token(t, key.column).column = key.column
  BY TokenType, KeyTable DEF KeySet
<1>2. /\ n \in Nat /\ Len(all) = n + 1 /\ all[n + 1] = Token(t, key.column)
      /\ \A i \in 1..n : all[i] = queue[i]
  BY <1>1
<1>3. DOMAIN saved = DOMAIN keys \cup {level} /\ saved[level] = key
      /\ \A l \in DOMAIN saved : l # level => l \in DOMAIN keys /\ saved[l] = keys[l]
  OBVIOUS
<1> HIDE DEF saved, all
<1>4. \A l \in DOMAIN keys :
        keys[l] \in KeySet /\ l \in Int /\ l <= level /\ keys[l].number \in Nat /\ keys[l].number < n
  BY DEF KeysOK, KeySet
<1> HIDE DEF n
<1>5. ASSUME NEW l \in DOMAIN saved
      PROVE  /\ saved[l] \in KeySet /\ l \in Int /\ l <= level /\ saved[l].number < Len(all)
             /\ all[saved[l].number + 1].column = saved[l].column
             /\ all[saved[l].number + 1].type \in Range(KeyStarts)
  <2>1. CASE l = level
    BY <1>1, <1>2, <1>3, <2>1 DEF n
  <2>2. CASE l # level
    <3>1. l \in DOMAIN keys /\ saved[l] = keys[l]
      BY <1>3, <2>2
    <3>2. keys[l].number + 1 \in 1..n /\ keys[l].number < Len(all)
      BY <1>2, <1>4, <3>1
    <3>3. all[keys[l].number + 1] = queue[keys[l].number + 1]
      BY <1>2, <3>2
    <3> QED BY <1>4, <3>1, <3>2, <3>3 DEF KeysOK
  <2> QED BY <2>1, <2>2
<1>6. ASSUME NEW l \in DOMAIN saved, NEW m \in DOMAIN saved, l < m
      PROVE  saved[l].number < saved[m].number
  <2>1. l # level /\ l \in DOMAIN keys /\ saved[l] = keys[l]
    BY <1>3, <1>5, <1>6
  <2>2. CASE m = level
    BY <1>3, <1>4, <2>1, <2>2 DEF n
  <2>3. CASE m # level
    BY <1>3, <1>6, <2>1, <2>3 DEF KeysOK
  <2> QED BY <2>2, <2>3
<1>7. KeysOK(saved, all, level)
  BY <1>5, <1>6 DEF KeysOK
<1> QED BY <1>7 DEF saved, all

\* The key of the highest level is the last one in the queue.
LEMMA KeysBefore ==
  ASSUME NEW keys, NEW queue \in Seq(TokenSet), NEW level \in DOMAIN keys, KeysOK(keys, queue, level)
  PROVE  /\ keys[level].number \in Nat /\ keys[level].number < Len(queue)
         /\ SubSeq(queue, 1, keys[level].number) \in Seq(TokenSet)
         /\ SubSeq(queue, keys[level].number + 1, Len(queue)) \in Seq(TokenSet)
         /\ KeysOK(Without(keys, {level}), SubSeq(queue, 1, keys[level].number), level)
<1> DEFINE n == keys[level].number
           front == SubSeq(queue, 1, n)
           others == Without(keys, {level})
<1>1. n \in Nat /\ n < Len(queue) /\ level \in Int /\ Len(queue) \in Nat
  BY DEF KeysOK, KeySet
<1>2. \A i \in 1..Len(queue) : queue[i] \in TokenSet
  OBVIOUS
<1> HIDE DEF n
<1>3. front \in Seq(TokenSet) /\ Len(front) = n /\ \A i \in 1..n : front[i] = queue[i]
  <2>1. \A i \in 1..n : queue[i] \in TokenSet
    BY <1>1, <1>2
  <2> QED BY <1>1, <2>1, SubSeqProperties
<1>4. SubSeq(queue, n + 1, Len(queue)) \in Seq(TokenSet)
  <2> DEFINE a == n + 1
             b == Len(queue)
  <2>1. a \in Nat /\ b \in Nat /\ \A i \in a..b : queue[i] \in TokenSet
    BY <1>1, <1>2
  <2> HIDE DEF a, b
  <2>2. SubSeq(queue, a, b) \in Seq(TokenSet)
    BY <2>1, SubSeqProperties
  <2> QED BY <2>2 DEF a, b
<1>5. DOMAIN others = DOMAIN keys \ {level}
      /\ \A l \in DOMAIN others : l \in DOMAIN keys /\ others[l] = keys[l]
  BY DEF Without, Restrict
<1> HIDE DEF front, others
<1>6. ASSUME NEW l \in DOMAIN others
      PROVE  keys[l].number + 1 \in 1..n /\ keys[l].number < n /\ l \in Int /\ l <= level
  <2>1. l \in DOMAIN keys /\ l # level /\ l \in Int /\ l <= level /\ keys[l].number \in Nat
    BY <1>5 DEF KeysOK, KeySet
  <2>2. l < level
    BY <1>1, <2>1
  <2>3. keys[l].number < n
    BY <2>1, <2>2 DEF KeysOK, n
  <2> QED BY <1>1, <2>1, <2>3
<1>7. KeysOK(others, front, level)
  <2>1. ASSUME NEW l \in DOMAIN others
        PROVE  /\ others[l] \in KeySet /\ l \in Int /\ l <= level /\ others[l].number < Len(front)
               /\ front[others[l].number + 1].column = others[l].column
               /\ front[others[l].number + 1].type \in Range(KeyStarts)
    <3>1. l \in DOMAIN keys /\ others[l] = keys[l]
      BY <1>5
    <3>2. front[keys[l].number + 1] = queue[keys[l].number + 1]
      BY <1>3, <1>6
    <3>3. others[l].number < Len(front) /\ l \in Int /\ l <= level
      BY <1>3, <1>6, <3>1
    <3> QED BY <3>1, <3>2, <3>3 DEF KeysOK
  <2>2. \A l, m \in DOMAIN others : l < m => others[l].number < others[m].number
    BY <1>5 DEF KeysOK
  <2> QED BY <2>1, <2>2 DEF KeysOK
<1> QED BY <1>1, <1>3, <1>4, <1>7 DEF n, front, others

LEMMA AddingIndent ==
  ASSUME NEW ind \in Seq(Int), ind # <<>>, ind[1] = -1, NEW col \in Int
  PROVE  /\ add_indent(ind, col) \in Seq(Int) /\ add_indent(ind, col) # <<>>
         /\ add_indent(ind, col)[1] = -1
         /\ Len(add_indent(ind, col)) =
              Len(ind) + (IF add_indent(ind, col) = ind THEN 0 ELSE 1)
<1>1. Len(ind) \in Nat /\ Len(ind) > 0
  OBVIOUS
<1>2. /\ Append(ind, col) \in Seq(Int) /\ Append(ind, col) # <<>> /\ Append(ind, col)[1] = -1
      /\ Len(Append(ind, col)) = Len(ind) + 1 /\ Append(ind, col) # ind
  BY <1>1
<1> QED BY <1>1, <1>2 DEF add_indent

\* By how many blocks start a sequence of tokens has more than ends.
BlockStarts == {t \in TokenSet : t.type \in {"BlockSequenceStart", "BlockMappingStart"}}
BlockEnds == {t \in TokenSet : t.type = "BlockEnd"}
Balance(queue) == Count(queue, BlockStarts) - Count(queue, BlockEnds)
BalanceOf(t) ==
  IF t \in {"BlockSequenceStart", "BlockMappingStart"} THEN 1 ELSE IF t = "BlockEnd" THEN -1 ELSE 0

LEMMA BalanceType ==
  ASSUME NEW queue \in Seq(TokenSet)
  PROVE  Balance(queue) \in Int
<1>1. Count(queue, BlockStarts) \in Nat /\ Count(queue, BlockEnds) \in Nat
  BY CountType
<1> QED BY <1>1 DEF Balance

LEMMA BalanceConcat ==
  ASSUME NEW queue \in Seq(TokenSet), NEW more \in Seq(TokenSet)
  PROVE  queue \o more \in Seq(TokenSet) /\ Balance(queue \o more) = Balance(queue) + Balance(more)
<1>1. /\ queue \o more \in Seq(TokenSet)
      /\ Count(queue \o more, BlockStarts) = Count(queue, BlockStarts) + Count(more, BlockStarts)
      /\ Count(queue \o more, BlockEnds) = Count(queue, BlockEnds) + Count(more, BlockEnds)
  BY CountConcat
<1>2. /\ Count(queue, BlockStarts) \in Nat /\ Count(queue, BlockEnds) \in Nat
      /\ Count(more, BlockStarts) \in Nat /\ Count(more, BlockEnds) \in Nat
  BY CountType
<1> QED BY <1>1, <1>2 DEF Balance

LEMMA BalanceOne ==
  ASSUME NEW t \in Tokens, NEW c \in Int
  PROVE  /\ <<Token(t, c)>> \in Seq(TokenSet) /\ Balance(<<Token(t, c)>>) = BalanceOf(t)
         /\ Balance(<<>>) = 0
<1>1. Token(t, c) \in TokenSet /\ Token(t, c).type = t
  BY TokenType
<1> DEFINE e == Token(t, c)
<1>2. /\ e \in BlockStarts <=> t \in {"BlockSequenceStart", "BlockMappingStart"}
      /\ e \in BlockEnds <=> t = "BlockEnd"
  BY <1>1 DEF BlockStarts, BlockEnds
<1>3. <<e>> \in Seq(TokenSet)
  BY <1>1
<1> HIDE DEF e
<1>4. /\ Count(<<e>>, BlockStarts) = (IF e \in BlockStarts THEN 1 ELSE 0)
      /\ Count(<<e>>, BlockEnds) = (IF e \in BlockEnds THEN 1 ELSE 0)
      /\ Count(<<>>, BlockStarts) = 0 /\ Count(<<>>, BlockEnds) = 0
  BY CountOne, CountEmpty
<1>5. Balance(<<e>>) = BalanceOf(t) /\ Balance(<<>>) = 0
  BY <1>2, <1>4 DEF Balance, BalanceOf
<1> QED BY <1>3, <1>5 DEF e

LEMMA BalanceOfEnds ==
  ASSUME NEW n \in Nat, NEW c \in Int
  PROVE  /\ [i \in 1..n |-> Token("BlockEnd", c)] \in Seq(TokenSet)
         /\ Balance([i \in 1..n |-> Token("BlockEnd", c)]) = -n
<1> DEFINE ends == [i \in 1..n |-> Token("BlockEnd", c)]
<1>1. Token("BlockEnd", c) \in TokenSet /\ Token("BlockEnd", c).type = "BlockEnd"
  BY TokenType DEF Tokens
<1>2. ends \in Seq(TokenSet) /\ DOMAIN ends = 1..n
  BY <1>1
<1>3. \A i \in 1..n : ends[i] \in BlockEnds /\ ends[i] \notin BlockStarts
  BY <1>1 DEF BlockEnds, BlockStarts
<1> HIDE DEF ends
<1>4. {i \in DOMAIN ends : ends[i] \in BlockEnds} = 1..n
      /\ {i \in DOMAIN ends : ends[i] \in BlockStarts} = {}
  BY <1>2, <1>3
<1>5. Cardinality(1..n) = n
  BY FS_Interval
<1>6. Count(ends, BlockEnds) = n /\ Count(ends, BlockStarts) = 0
  BY <1>4, <1>5, FS_EmptySet DEF Count
<1>7. Balance(ends) = -n
  BY <1>6 DEF Balance
<1> QED BY <1>2, <1>7 DEF ends

LEMMA QueueSplit ==
  ASSUME NEW queue \in Seq(TokenSet), NEW n \in Nat, n <= Len(queue),
         SubSeq(queue, 1, n) \in Seq(TokenSet), SubSeq(queue, n + 1, Len(queue)) \in Seq(TokenSet)
  PROVE  /\ SubSeq(queue, 1, n) \o SubSeq(queue, n + 1, Len(queue)) = queue
         /\ n < Len(queue) => SubSeq(queue, n + 1, Len(queue))[1] = queue[n + 1]
<1> DEFINE m == Len(queue)
           a == SubSeq(queue, 1, n)
           b == SubSeq(queue, n + 1, m)
<1>1. m \in Nat /\ \A i \in 1..m : queue[i] \in TokenSet
  OBVIOUS
<1>2. Len(a) = n /\ \A i \in 1..n : a[i] = queue[i]
  <2>1. \A i \in 1..n : queue[i] \in TokenSet
    BY <1>1
  <2> QED BY <1>1, <2>1, SubSeqProperties
<1>3. Len(b) = m - n /\ \A i \in 1..(m - n) : b[i] = queue[n + i]
  <2> DEFINE k == n + 1
  <2>1. k \in Nat /\ k \in 1..(m + 1)
    BY <1>1
  <2> HIDE DEF m
  <2>2. b = SubSeq(queue, k, m) /\ \A i \in k..m : queue[i] \in TokenSet
    BY <1>1, <2>1
  <2> HIDE DEF k, b
  <2>3. Len(b) = (IF k <= m THEN m - k + 1 ELSE 0) /\ \A i \in 1..(m - k + 1) : b[i] = queue[k + i - 1]
    BY <1>1, <2>1, <2>2, SubSeqProperties
  <2>4. m - k + 1 = m - n /\ \A i \in 1..(m - n) : k + i - 1 = n + i
    BY <1>1 DEF k
  <2>5. n <= m
    BY DEF m
  <2>6. Len(b) = m - n
    BY <1>1, <2>3, <2>5 DEF k
  <2>7. ASSUME NEW i \in 1..(m - n) PROVE b[i] = queue[n + i]
    <3>1. i \in 1..(m - k + 1) /\ k + i - 1 = n + i
      BY <2>4
    <3> QED BY <2>3, <3>1
  <2> QED BY <2>6, <2>7
<1> HIDE DEF a, b
<1>4. a \in Seq(TokenSet) /\ b \in Seq(TokenSet)
  BY DEF a, b
<1>5. a \o b = queue
  <2>1. /\ a \o b \in Seq(TokenSet) /\ Len(a \o b) = Len(a) + Len(b)
        /\ \A i \in 1..(Len(a) + Len(b)) :
             (a \o b)[i] = IF i <= Len(a) THEN a[i] ELSE b[i - Len(a)]
    BY <1>4, ConcatProperties
  <2>2. ASSUME NEW i \in 1..m PROVE (a \o b)[i] = queue[i]
    <3>1. CASE i <= n
      BY <1>1, <1>2, <1>3, <2>1, <3>1
    <3>2. CASE i > n
      <4>1. i - n \in 1..(m - n) /\ n + (i - n) = i
        BY <1>1, <3>2
      <4>2. i \in 1..(Len(a) + Len(b)) /\ ~(i <= Len(a)) /\ i - Len(a) = i - n
        BY <1>1, <1>2, <1>3, <3>2
      <4>3. (a \o b)[i] = b[i - n]
        BY <2>1, <4>2
      <4>4. b[i - n] = queue[n + (i - n)]
        BY <1>3, <4>1
      <4> QED BY <4>1, <4>3, <4>4
    <3>3. i <= n \/ i > n
      BY <1>1
    <3> QED BY <3>1, <3>2, <3>3
  <2>3. Len(a \o b) = m
    BY <1>1, <1>2, <1>3, <2>1
  <2> QED BY <2>1, <2>2, <2>3, SeqEqual
<1>6. n < m => b[1] = queue[n + 1]
  <2>1. n < m => 1 \in 1..(m - n)
    BY <1>1
  <2> QED BY <1>3, <2>1
<1> QED BY <1>5, <1>6 DEF a, b, m

LEMMA BalanceSplit ==
  ASSUME NEW queue \in Seq(TokenSet), NEW n \in Nat, n <= Len(queue),
         SubSeq(queue, 1, n) \in Seq(TokenSet), SubSeq(queue, n + 1, Len(queue)) \in Seq(TokenSet)
  PROVE  Balance(SubSeq(queue, 1, n)) + Balance(SubSeq(queue, n + 1, Len(queue))) = Balance(queue)
<1> DEFINE a == SubSeq(queue, 1, n)
           b == SubSeq(queue, n + 1, Len(queue))
<1>1. a \in Seq(TokenSet) /\ b \in Seq(TokenSet) /\ a \o b = queue
  BY QueueSplit
<1> HIDE DEF a, b
<1>2. Balance(a \o b) = Balance(a) + Balance(b)
  BY <1>1, BalanceConcat
<1> QED BY <1>1, <1>2 DEF a, b

-----------------------------------------------------------------------------
\* A possible key is in the queue as long as it is possible, unless the scanner
\* has failed.
Scanning == failed = ""
KeyInv ==
  /\ ScanTypes
  /\ Scanning =>
       /\ KeysOK(possible_simple_keys, tokens, flow_level)
       /\ done => DOMAIN possible_simple_keys = {}

\* What fetching does to the queue, as far as blocks and its head go.
FetchOK ==
  /\ KeyInv'
  /\ Scanning' =>
       /\ Balance(tokens') - Len(indents') = Balance(tokens) - Len(indents)
       /\ (tokens # <<>> /\ tokens[1].type = "StreamStart") =>
            tokens' # <<>> /\ tokens'[1] = tokens[1]

Reasons == {"assert", "no value", "not allowed here", "cannot start a token"}
LEMMA Raised ==
  ASSUME ScanTypes, NEW why \in Reasons, Raise(why)
  PROVE  FetchOK
<1>1. ~Scanning' /\ tokens' = tokens /\ indents' = indents /\ flow_level' = flow_level
  BY DEF Raise, Scanning, Reasons
<1>2. ScanTypes'
  BY <1>1 DEF ScanTypes
<1> QED BY <1>1, <1>2 DEF FetchOK, KeyInv

LEMMA Left ==
  ASSUME NEW x, NEW queue \in Seq(TokenSet), NEW ind \in Seq(Int), ind # <<>>, ind[1] = -1,
         NEW keys, NEW allow, NEW flow \in Int, KeysOK(keys, queue, flow),
         x.ch = "end" => DOMAIN keys = {}, Leave(x, queue, ind, keys, allow, flow)
  PROVE  KeyInv'
<1>1. tokens' = queue /\ indents' = ind /\ flow_level' = flow
  BY DEF Leave
<1>2. ScanTypes'
  BY <1>1 DEF ScanTypes
<1> DEFINE aged == [l \in DOMAIN keys |-> [keys[l] EXCEPT !.here = FALSE]]
<1>3. possible_simple_keys' = keys \/ possible_simple_keys' = aged
  BY DEF Leave
<1>4. KeysOK(aged, queue, flow) /\ DOMAIN aged = DOMAIN keys
  BY KeysPassed
<1> HIDE DEF aged
<1>5. KeysOK(possible_simple_keys, tokens, flow_level)'
  <2>1. KeysOK(possible_simple_keys', tokens', flow_level')
    BY <1>1, <1>3, <1>4
  <2> QED BY <2>1 DEF KeysOK
<1>6. DOMAIN possible_simple_keys' = DOMAIN keys
  BY <1>3, <1>4
<1>7. done' => x.ch = "end"
  BY DEF Leave
<1>8. done' => DOMAIN possible_simple_keys' = {}
  BY <1>6, <1>7
<1> QED BY <1>2, <1>5, <1>8 DEF KeyInv

\* The keys that are left where lexeme x begins.
LEMMA KeysHere ==
  ASSUME KeyInv, Scanning, NEW x, x.column \in Nat
  PROVE  /\ KeysOK(Keys(x), Queue(x), flow_level)
         /\ KeysOK(Dropped(x), Queue(x), flow_level)
         /\ KeysOK(Dropped(x), Queue(x), flow_level - 1)
<1>1. ScanTypes /\ KeysOK(possible_simple_keys, tokens, flow_level)
  BY DEF KeyInv
<1>2. KeysOK(Keys(x), tokens, flow_level)
  BY <1>1, KeysRestricted DEF Keys
<1> DEFINE ends == [i \in 1..Ended(x) |-> Token("BlockEnd", x.column)]
<1>3. ends \in Seq(TokenSet) /\ Queue(x) = tokens \o ends /\ tokens \in Seq(TokenSet)
      /\ flow_level \in Int
  BY <1>1, Queued DEF Queue, ScanTypes
<1> HIDE DEF ends
<1>4. KeysOK(Keys(x), tokens \o ends, flow_level)
  BY <1>2, <1>3, KeysOnLonger
<1>5. KeysOK(Keys(x), Queue(x), flow_level)
  BY <1>3, <1>4
<1>6. KeysOK(Dropped(x), Queue(x), flow_level) /\ KeysOK(Dropped(x), Queue(x), flow_level - 1)
  BY <1>3, <1>5, KeysRestricted, KeysLower DEF Dropped
<1> QED BY <1>5, <1>6

LEMMA QueueBalance ==
  ASSUME ScanTypes, NEW x, x.column \in Nat
  PROVE  /\ Balance(Queue(x)) \in Int /\ Balance(tokens) \in Int /\ Len(indents) \in Nat
         /\ Len(Indents(x)) \in Nat
         /\ Balance(Queue(x)) - Len(Indents(x)) = Balance(tokens) - Len(indents)
<1> DEFINE n == Ended(x)
           ends == [i \in 1..n |-> Token("BlockEnd", x.column)]
<1>1. n \in Nat /\ Len(Indents(x)) = Len(indents) - n /\ Indents(x) \in Seq(Int)
  BY Queued
<1>2. x.column \in Int /\ tokens \in Seq(TokenSet) /\ Len(indents) \in Nat
  BY DEF ScanTypes
<1>3. Queue(x) = tokens \o ends
  BY DEF Queue
<1> HIDE DEF n
<1>4. ends \in Seq(TokenSet) /\ Balance(ends) = -n
  BY <1>1, <1>2, BalanceOfEnds
<1> HIDE DEF ends
<1>5. Balance(Queue(x)) = Balance(tokens) + Balance(ends) /\ Balance(tokens) \in Int
  BY <1>2, <1>3, <1>4, BalanceConcat, BalanceType
<1>6. Len(Indents(x)) \in Nat
  BY <1>1
<1> QED BY <1>1, <1>2, <1>4, <1>5, <1>6

\* The queue is continued.
LEMMA Continued ==
  ASSUME ScanTypes, NEW x, x.column \in Nat, NEW more \in Seq(TokenSet),
         NEW ind \in Seq(Int), ind # <<>>, ind[1] = -1,
         Len(ind) = Len(Indents(x)) + Balance(more),
         NEW keys, NEW allow, NEW flow \in Int, KeysOK(keys, Queue(x) \o more, flow),
         x.ch = "end" => DOMAIN keys = {}, Leave(x, Queue(x) \o more, ind, keys, allow, flow)
  PROVE  FetchOK
<1> DEFINE queue == Queue(x)
           all == queue \o more
<1>1. /\ queue \in Seq(TokenSet) /\ Len(queue) >= Len(tokens) /\ tokens \in Seq(TokenSet)
      /\ \A i \in DOMAIN tokens : queue[i] = tokens[i]
  <2>1. /\ Ended(x) \in Nat /\ queue \in Seq(TokenSet) /\ Len(queue) = Len(tokens) + Ended(x)
        /\ \A i \in DOMAIN tokens : queue[i] = tokens[i]
    BY Queued
  <2>2. tokens \in Seq(TokenSet)
    BY DEF ScanTypes
  <2> HIDE DEF queue
  <2> QED BY <2>1, <2>2
<1> HIDE DEF queue
<1>2. all \in Seq(TokenSet) /\ Balance(all) = Balance(queue) + Balance(more)
  BY <1>1, BalanceConcat
<1>3. tokens' = all /\ indents' = ind
  BY DEF Leave, queue
<1>4. KeyInv'
  <2>1. KeysOK(keys, all, flow) /\ Leave(x, all, ind, keys, allow, flow)
    BY DEF queue
  <2> HIDE DEF all
  <2> QED BY <1>2, <2>1, Left
<1>5. Balance(tokens') - Len(indents') = Balance(tokens) - Len(indents)
  <2>1. /\ Balance(queue) \in Int /\ Balance(tokens) \in Int /\ Len(indents) \in Nat
        /\ Len(Indents(x)) \in Nat /\ Balance(more) \in Int
        /\ Balance(queue) - Len(Indents(x)) = Balance(tokens) - Len(indents)
    BY QueueBalance, BalanceType DEF queue
  <2> HIDE DEF all
  <2> QED BY <1>2, <1>3, <2>1
<1>6. ASSUME tokens # <<>>
      PROVE  all # <<>> /\ all[1] = tokens[1]
  <2>1. Len(tokens) \in Nat /\ Len(tokens) > 0 /\ Len(more) \in Nat /\ Len(queue) \in Nat
    BY <1>1, <1>6
  <2>2. 1 \in DOMAIN tokens /\ 1 \in 1..(Len(queue) + Len(more)) /\ 1 <= Len(queue)
    BY <1>1, <2>1
  <2>3. all[1] = queue[1] /\ Len(all) = Len(queue) + Len(more)
    BY <1>1, <2>2, ConcatProperties
  <2>4. all # <<>>
    BY <2>1, <2>2, <2>3
  <2> QED BY <1>1, <2>2, <2>3, <2>4
<1> QED BY <1>3, <1>4, <1>5, <1>6 DEF FetchOK

\* One more token, that is none of block structure.
LEMMA ContinuedByOne ==
  ASSUME ScanTypes, NEW x, x.column \in Nat, NEW t \in Tokens, BalanceOf(t) = 0, NEW c \in Int,
         NEW keys, NEW allow, NEW flow \in Int, KeysOK(keys, Queue(x), flow),
         x.ch = "end" => DOMAIN keys = {},
         Leave(x, Append(Queue(x), Token(t, c)), Indents(x), keys, allow, flow)
  PROVE  FetchOK
<1> DEFINE queue == Queue(x)
           ind == Indents(x)
           one == <<Token(t, c)>>
<1>1. queue \in Seq(TokenSet) /\ ind \in Seq(Int) /\ ind # <<>> /\ ind[1] = -1 /\ Len(ind) \in Nat
  <2>1. queue \in Seq(TokenSet) /\ ind \in Seq(Int) /\ ind # <<>> /\ ind[1] = -1
    BY Queued
  <2> HIDE DEF queue, ind
  <2> QED BY <2>1
<1>2. one \in Seq(TokenSet) /\ Balance(one) = 0
  BY BalanceOne
<1>3. Append(queue, Token(t, c)) = queue \o one
  <2> HIDE DEF queue
  <2> QED BY <1>1
<1> HIDE DEF queue, ind, one
<1>4. KeysOK(keys, queue \o one, flow)
  <2>1. KeysOK(keys, queue, flow)
    BY DEF queue
  <2> QED BY <1>1, <1>2, <2>1, KeysOnLonger
<1>5. Len(ind) = Len(ind) + Balance(one)
  BY <1>1, <1>2
<1> QED BY <1>1, <1>2, <1>3, <1>4, <1>5, Continued DEF queue, ind

LEMMA KeyStartFetched ==
  ASSUME KeyInv, Scanning, NEW x, x.column \in Nat, FetchKeyStart(x)
  PROVE  FetchOK
<1> DEFINE required == InBlock /\ Last(Indents(x)) = x.column
           key == [number |-> Len(Queue(x)), required |-> required,
                   column |-> x.column, here |-> TRUE]
           saved == [l \in DOMAIN Keys(x) \cup {flow_level} |->
                       IF l = flow_level THEN key ELSE Keys(x)[l]]
           t == KeyStarts[x.ch]
           c == x.column
<1>1. ScanTypes /\ flow_level \in Int
  BY DEF KeyInv, ScanTypes
<1>2. x.ch \in DOMAIN KeyStarts /\ x.ch # "end"
  BY DEF FetchKeyStart, KeyStarts
<1>3. t \in Range(KeyStarts) /\ t \in Tokens /\ BalanceOf(t) = 0
  <2>1. t \in Range(KeyStarts)
    BY <1>2, KeyTable
  <2> HIDE DEF t
  <2> QED BY <2>1, KeyTable DEF BalanceOf
<1>4. \/ Raise("assert") \/ Raise("no value")
      \/ \E keys, allow, flow :
           /\ Leave(x, Append(Queue(x), Token(t, c)), Indents(x), keys, allow, flow)
           /\ keys = saved \/ keys = Keys(x)
           /\ flow = flow_level \/ flow = flow_level + 1
  BY DEF FetchKeyStart
<1> DEFINE queue == Queue(x)
           ind == Indents(x)
           here == Keys(x)
<1>5. /\ queue \in Seq(TokenSet) /\ ind \in Seq(Int) /\ ind # <<>> /\ ind[1] = -1
      /\ KeysOK(here, queue, flow_level)
  BY <1>1, Queued, KeysHere
<1>6. key \in KeySet /\ key.number = Len(queue) /\ key.column = c
  <2> DEFINE n == Len(queue)
  <2>1. n \in Nat
    <3> HIDE DEF queue
    <3> QED BY <1>5
  <2>2. c \in Int /\ required \in BOOLEAN
    OBVIOUS
  <2>3. key = [number |-> n, required |-> required, column |-> c, here |-> TRUE]
    OBVIOUS
  <2> HIDE DEF n, required, c, key
  <2>4. key \in KeySet /\ key.number = n /\ key.column = c
    BY <2>1, <2>2, <2>3 DEF KeySet
  <2> QED BY <2>4 DEF n
<1>7. saved = [l \in DOMAIN here \cup {flow_level} |-> IF l = flow_level THEN key ELSE here[l]]
  OBVIOUS
<1> HIDE DEF required, key, saved, t, c, queue, here, ind
<1>8. KeysOK(saved, Append(queue, Token(t, c)), flow_level)
  BY <1>1, <1>3, <1>5, <1>6, <1>7, KeySaved
<1>9. c \in Int /\ Len(ind) \in Nat
  BY <1>5 DEF c
<1>10. ASSUME NEW keys, NEW allow, NEW flow,
              Leave(x, Append(queue, Token(t, c)), ind, keys, allow, flow),
              keys = saved \/ keys = here, flow = flow_level \/ flow = flow_level + 1
       PROVE  FetchOK
  <2>1. flow \in Int /\ flow_level <= flow
    BY <1>1, <1>10
  <2>2. CASE keys = here
    <3>1. KeysOK(keys, queue, flow)
      BY <1>1, <1>5, <2>1, <2>2, KeysHigher
    <3> QED BY <1>1, <1>2, <1>3, <1>9, <1>10, <2>1, <3>1, ContinuedByOne DEF queue, ind
  <2>3. CASE keys = saved
    <3> DEFINE one == <<Token(t, c)>>
    <3>1. one \in Seq(TokenSet) /\ Balance(one) = 0
      BY <1>3, <1>9, BalanceOne
    <3>2. Append(queue, Token(t, c)) = queue \o one
      BY <1>5
    <3> HIDE DEF one
    <3>3. KeysOK(keys, queue \o one, flow)
      BY <1>1, <1>8, <2>1, <2>3, <3>2, KeysHigher
    <3>4. Len(ind) = Len(ind) + Balance(one)
      BY <1>9, <3>1
    <3>5. Leave(x, queue \o one, ind, keys, allow, flow)
      BY <1>10, <3>2
    <3> QED BY <1>1, <1>2, <1>5, <2>1, <3>1, <3>3, <3>4, <3>5, Continued DEF queue, ind
  <2> QED BY <1>10, <2>2, <2>3
<1>11. CASE Raise("assert") \/ Raise("no value")
  BY <1>1, <1>11, Raised DEF Reasons
<1> QED BY <1>4, <1>10, <1>11 DEF queue, here, ind

LEMMA OneFetched ==
  ASSUME KeyInv, Scanning, NEW x, x.column \in Nat,
         \/ FetchFlowEnd(x) \/ FetchFlowEntry(x) \/ FetchBlockScalar(x) \/ FetchMarker(x)
         \/ FetchStreamEnd(x)
  PROVE  FetchOK
<1>1. ScanTypes /\ flow_level \in Int /\ flow_level - 1 \in Int
  BY DEF KeyInv, ScanTypes
<1>2. /\ KeysOK(Dropped(x), Queue(x), flow_level)
      /\ KeysOK(Dropped(x), Queue(x), flow_level - 1)
      /\ KeysOK(<<>>, Queue(x), flow_level) /\ DOMAIN <<>> = {}
  <2>1. DOMAIN <<>> = {}
    OBVIOUS
  <2>2. KeysOK(<<>>, Queue(x), flow_level)
    BY <2>1 DEF KeysOK
  <2> QED BY <2>1, <2>2, KeysHere
<1>3. ASSUME NEW t \in Tokens, BalanceOf(t) = 0, NEW c \in Int, NEW keys, NEW allow,
             NEW flow \in Int, KeysOK(keys, Queue(x), flow), x.ch # "end" \/ keys = <<>>,
             Leave(x, Append(Queue(x), Token(t, c)), Indents(x), keys, allow, flow)
      PROVE  FetchOK
  <2>1. x.ch = "end" => DOMAIN keys = {}
    BY <1>2, <1>3
  <2> QED BY <1>1, <1>3, <2>1, ContinuedByOne
<1>4. ASSUME Raise("no value") PROVE FetchOK
  BY <1>1, <1>4, Raised DEF Reasons
<1>5. x.column \in Int /\ 0 \in Int
  OBVIOUS
<1>6. CASE FetchFlowEnd(x)
  <2>1. x.ch \in {"]", "}"} /\ x.ch # "end"
    BY <1>6 DEF FetchFlowEnd, FlowEnds
  <2>2. FlowEnds[x.ch] \in {"FlowSequenceEnd", "FlowMappingEnd"}
    BY <2>1 DEF FlowEnds
  <2>3. FlowEnds[x.ch] \in Tokens /\ BalanceOf(FlowEnds[x.ch]) = 0
    BY <2>2 DEF Tokens, BalanceOf
  <2>4. \/ Raise("no value")
        \/ Leave(x, Append(Queue(x), Token(FlowEnds[x.ch], x.column)), Indents(x), Dropped(x),
                 FALSE, flow_level - 1)
    BY <1>6 DEF FetchFlowEnd
  <2> QED BY <1>1, <1>2, <1>3, <1>4, <1>5, <2>1, <2>3, <2>4
<1>7. CASE FetchFlowEntry(x)
  <2>1. x.ch # "end" /\ "FlowEntry" \in Tokens /\ BalanceOf("FlowEntry") = 0
    BY <1>7 DEF FetchFlowEntry, Tokens, BalanceOf
  <2>2. \/ Raise("no value")
        \/ Leave(x, Append(Queue(x), Token("FlowEntry", x.column)), Indents(x), Dropped(x),
                 TRUE, flow_level)
    BY <1>7 DEF FetchFlowEntry
  <2> QED BY <1>1, <1>2, <1>3, <1>4, <1>5, <2>1, <2>2
<1>8. CASE FetchBlockScalar(x)
  <2>1. x.ch # "end" /\ "Scalar" \in Tokens /\ BalanceOf("Scalar") = 0
    BY <1>8 DEF FetchBlockScalar, Tokens, BalanceOf
  <2>2. \/ Raise("no value")
        \/ Leave(x, Append(Queue(x), Token("Scalar", x.column)), Indents(x), Dropped(x),
                 TRUE, flow_level)
    BY <1>8 DEF FetchBlockScalar
  <2> QED BY <1>1, <1>2, <1>3, <1>4, <1>5, <2>1, <2>2
<1>9. CASE FetchMarker(x)
  <2>1. x.ch \in {"%YAML", "%TAG", "---", "..."} /\ x.ch # "end"
    BY <1>9 DEF FetchMarker, Markers
  <2>2. Markers[x.ch] \in {"YAML", "TAG", "DocumentStart", "DocumentEnd"}
    BY <2>1 DEF Markers
  <2>3. Markers[x.ch] \in Tokens /\ BalanceOf(Markers[x.ch]) = 0
    BY <2>2 DEF Tokens, BalanceOf, Directives
  <2>4. \/ Raise("no value")
        \/ Leave(x, Append(Queue(x), Token(Markers[x.ch], 0)), Indents(x), Dropped(x),
                 FALSE, flow_level)
    BY <1>9 DEF FetchMarker
  <2> QED BY <1>1, <1>2, <1>3, <1>4, <1>5, <2>1, <2>3, <2>4
<1>10. CASE FetchStreamEnd(x)
  <2>1. "StreamEnd" \in Tokens /\ BalanceOf("StreamEnd") = 0
    BY DEF Tokens, BalanceOf
  <2>2. \/ Raise("no value")
        \/ Leave(x, Append(Queue(x), Token("StreamEnd", x.column)), Indents(x), <<>>,
                 FALSE, flow_level)
    BY <1>10 DEF FetchStreamEnd
  <2> QED BY <1>1, <1>2, <1>3, <1>4, <1>5, <2>1, <2>2
<1> QED BY <1>6, <1>7, <1>8, <1>9, <1>10

\* What add_indent() does where the scanner is in block context, and the token
\* that starts the collection.
Indented(x, c) == IF InBlock THEN add_indent(Indents(x), c) ELSE Indents(x)
Starter(x, c, t) == IF Indented(x, c) = Indents(x) THEN <<>> ELSE <<Token(t, c)>>

LEMMA BlockStarted ==
  ASSUME ScanTypes, NEW x, x.column \in Nat, NEW c \in Int, NEW t \in Tokens, BalanceOf(t) = 1
  PROVE  /\ Indented(x, c) \in Seq(Int) /\ Indented(x, c) # <<>> /\ Indented(x, c)[1] = -1
         /\ Starter(x, c, t) \in Seq(TokenSet) /\ Balance(Starter(x, c, t)) \in Int
         /\ Len(Indented(x, c)) = Len(Indents(x)) + Balance(Starter(x, c, t))
<1> DEFINE base == Indents(x)
           one == <<Token(t, c)>>
           ind == Indented(x, c)
           start == Starter(x, c, t)
<1>1. base \in Seq(Int) /\ base # <<>> /\ base[1] = -1
  BY Queued
<1>2. one \in Seq(TokenSet) /\ Balance(one) = 1 /\ Balance(<<>>) = 0
  BY BalanceOne
<1>3. ind = (IF InBlock THEN add_indent(base, c) ELSE base)
      /\ start = (IF ind = base THEN <<>> ELSE one)
  BY DEF Indented, Starter
<1> HIDE DEF base, one, ind, start
<1>4. Len(base) \in Nat
  BY <1>1
<1>5. /\ ind \in Seq(Int) /\ ind # <<>> /\ ind[1] = -1
      /\ Len(ind) = Len(base) + (IF ind = base THEN 0 ELSE 1)
  <2>1. CASE InBlock
    <3> DEFINE added == add_indent(base, c)
    <3>1. /\ added \in Seq(Int) /\ added # <<>> /\ added[1] = -1
          /\ Len(added) = Len(base) + (IF added = base THEN 0 ELSE 1)
      BY <1>1, AddingIndent
    <3>2. ind = added
      BY <1>3, <2>1
    <3> QED BY <3>1, <3>2
  <2>2. CASE ~InBlock
    BY <1>1, <1>3, <1>4, <2>2
  <2> QED BY <2>1, <2>2
<1>6. start \in Seq(TokenSet) /\ Balance(start) = (IF ind = base THEN 0 ELSE 1)
  <2>1. CASE ind = base
    <3>1. start = <<>> /\ <<>> \in Seq(TokenSet)
      BY <1>3, <2>1
    <3> QED BY <1>2, <2>1, <3>1
  <2>2. CASE ind # base
    <3>1. start = one
      BY <1>3, <2>2
    <3> QED BY <1>2, <2>2, <3>1
  <2> QED BY <2>1, <2>2
<1> QED BY <1>4, <1>5, <1>6 DEF base, ind, start

LEMMA IndicatorFetched ==
  ASSUME KeyInv, Scanning, NEW x, x.column \in Nat, FetchIndicator(x)
  PROVE  FetchOK
<1> DEFINE ind == Indented(x, x.column)
           start == Starter(x, x.column, BlockStart[x.ch])
           one == <<Token(BlockToken[x.ch], x.column)>>
           queue == Queue(x)
<1>1. ScanTypes /\ flow_level \in Int /\ x.column \in Int
  BY DEF KeyInv, ScanTypes
<1>2. x.ch \in {"-", "?", ":"} /\ x.ch # "end"
  BY DEF FetchIndicator
<1>3. /\ BlockStart[x.ch] \in {"BlockSequenceStart", "BlockMappingStart"}
      /\ BlockToken[x.ch] \in {"BlockEntry", "Key", "Value"}
  BY <1>2 DEF BlockStart, BlockToken
<1>4. /\ BlockStart[x.ch] \in Tokens /\ BalanceOf(BlockStart[x.ch]) = 1
      /\ BlockToken[x.ch] \in Tokens /\ BalanceOf(BlockToken[x.ch]) = 0
  BY <1>3 DEF Tokens, BalanceOf
<1>5. /\ ind \in Seq(Int) /\ ind # <<>> /\ ind[1] = -1
      /\ start \in Seq(TokenSet) /\ Balance(start) \in Int
      /\ Len(ind) = Len(Indents(x)) + Balance(start)
  BY <1>1, <1>4, BlockStarted
<1>6. one \in Seq(TokenSet) /\ Balance(one) = 0
  BY <1>1, <1>4, BalanceOne
<1>7. \/ Raise("not allowed here") \/ Raise("no value")
      \/ Leave(x, queue \o start \o one, ind, Dropped(x), InBlock \/ x.ch = "-", flow_level)
  BY DEF FetchIndicator, Indented, Starter
<1>8. queue \in Seq(TokenSet) /\ KeysOK(Dropped(x), queue, flow_level)
  BY <1>1, Queued, KeysHere
<1> HIDE DEF ind, start, one
<1>9. CASE Raise("not allowed here") \/ Raise("no value")
  BY <1>1, <1>9, Raised DEF Reasons
<1>10. CASE Leave(x, queue \o start \o one, ind, Dropped(x), InBlock \/ x.ch = "-", flow_level)
  <2> DEFINE more == start \o one
             allow == InBlock \/ x.ch = "-"
  <2> HIDE DEF queue, allow
  <2>1. more \in Seq(TokenSet) /\ Balance(more) = Balance(start)
    BY <1>5, <1>6, BalanceConcat
  <2>2. queue \o start \o one = queue \o more
    <3>1. queue \in Seq(TokenSet) /\ start \in Seq(TokenSet) /\ one \in Seq(TokenSet)
      BY <1>5, <1>6, <1>8
    <3>2. (queue \o start) \o one = queue \o (start \o one)
      BY <3>1, ConcatAssociative
    <3> QED BY <3>2 DEF more
  <2> HIDE DEF more
  <2>3. KeysOK(Dropped(x), queue \o more, flow_level)
    BY <1>8, <2>1, KeysOnLonger
  <2>4. Leave(x, queue \o more, ind, Dropped(x), allow, flow_level)
    BY <1>10, <2>2 DEF allow
  <2>5. Len(ind) = Len(Indents(x)) + Balance(more)
    BY <1>5, <2>1
  <2> QED BY <1>1, <1>2, <1>5, <2>1, <2>3, <2>4, <2>5, Continued DEF queue
<1> QED BY <1>7, <1>9, <1>10

LEMMA HeadKept ==
  ASSUME NEW T, NEW s \in Seq(T), NEW t \in Seq(T), s # <<>>
  PROVE  s \o t \in Seq(T) /\ s \o t # <<>> /\ (s \o t)[1] = s[1]
<1>1. Len(s) \in Nat /\ Len(s) > 0 /\ Len(t) \in Nat
  OBVIOUS
<1>2. s \o t \in Seq(T) /\ Len(s \o t) = Len(s) + Len(t) /\ (s \o t)[1] = s[1]
  BY <1>1, ConcatProperties
<1> QED BY <1>1, <1>2

LEMMA ValueFetched ==
  ASSUME KeyInv, Scanning, NEW x, x.column \in Nat, FetchValue(x)
  PROVE  FetchOK
<1> DEFINE key == Keys(x)[flow_level]
           ind == Indented(x, key.column)
           start == Starter(x, key.column, "BlockMappingStart")
           k == <<Token("Key", key.column)>>
           v == <<Token("Value", x.column)>>
           queue == Queue(x)
           n == key.number
           front == SubSeq(queue, 1, n)
           back == SubSeq(queue, n + 1, Len(queue))
           all == front \o start \o k \o back \o v
<1>1. ScanTypes /\ flow_level \in Int /\ x.column \in Int
  BY DEF KeyInv, ScanTypes
<1>2. x.ch # "end" /\ flow_level \in DOMAIN Keys(x)
      /\ Leave(x, all, ind, Dropped(x), FALSE, flow_level)
  BY DEF FetchValue, Indented, Starter
<1>3. queue \in Seq(TokenSet) /\ KeysOK(Keys(x), queue, flow_level)
  BY <1>1, Queued, KeysHere
<1>4. /\ n \in Nat /\ n < Len(queue) /\ front \in Seq(TokenSet) /\ back \in Seq(TokenSet)
      /\ KeysOK(Dropped(x), front, flow_level)
  <2> HIDE DEF queue
  <2> QED BY <1>2, <1>3, KeysBefore DEF Dropped
<1>5. key.column \in Int /\ queue[n + 1].type \in Range(KeyStarts)
  <2> HIDE DEF queue
  <2> QED BY <1>2, <1>3 DEF KeysOK, KeySet
<1>6. /\ "BlockMappingStart" \in Tokens /\ BalanceOf("BlockMappingStart") = 1
      /\ "Key" \in Tokens /\ BalanceOf("Key") = 0 /\ "Value" \in Tokens /\ BalanceOf("Value") = 0
  BY DEF Tokens, BalanceOf
<1>7. /\ ind \in Seq(Int) /\ ind # <<>> /\ ind[1] = -1
      /\ start \in Seq(TokenSet) /\ Balance(start) \in Int
      /\ Len(ind) = Len(Indents(x)) + Balance(start)
  <2> HIDE DEF key
  <2> QED BY <1>1, <1>5, <1>6, BlockStarted
<1>8. /\ k \in Seq(TokenSet) /\ Balance(k) = 0 /\ v \in Seq(TokenSet) /\ Balance(v) = 0
  BY <1>1, <1>5, <1>6, BalanceOne
<1>9. Balance(front) + Balance(back) = Balance(queue)
      /\ Balance(front) \in Int /\ Balance(back) \in Int /\ Balance(queue) \in Int
  <2> HIDE DEF queue, n
  <2>1. n <= Len(queue)
    BY <1>3, <1>4
  <2> QED BY <1>3, <1>4, <2>1, BalanceSplit, BalanceType
<1> HIDE DEF key, ind, start, k, v, front, back, queue
<1>10. /\ all \in Seq(TokenSet) /\ KeysOK(Dropped(x), all, flow_level)
       /\ Balance(all) = Balance(queue) + Balance(start)
  <2>1. /\ front \o start \in Seq(TokenSet) /\ KeysOK(Dropped(x), front \o start, flow_level)
        /\ Balance(front \o start) = Balance(front) + Balance(start)
    BY <1>4, <1>7, BalanceConcat, KeysOnLonger
  <2> DEFINE q1 == front \o start
  <2> HIDE DEF q1
  <2>2. /\ q1 \o k \in Seq(TokenSet) /\ KeysOK(Dropped(x), q1 \o k, flow_level)
        /\ Balance(q1 \o k) = Balance(q1) + Balance(k)
    BY <1>8, <2>1, BalanceConcat, KeysOnLonger DEF q1
  <2> DEFINE q2 == q1 \o k
  <2> HIDE DEF q2
  <2>3. /\ q2 \o back \in Seq(TokenSet) /\ KeysOK(Dropped(x), q2 \o back, flow_level)
        /\ Balance(q2 \o back) = Balance(q2) + Balance(back)
    BY <1>4, <2>2, BalanceConcat, KeysOnLonger DEF q2
  <2> DEFINE q3 == q2 \o back
  <2> HIDE DEF q3
  <2>4. /\ q3 \o v \in Seq(TokenSet) /\ KeysOK(Dropped(x), q3 \o v, flow_level)
        /\ Balance(q3 \o v) = Balance(q3) + Balance(v)
    BY <1>8, <2>3, BalanceConcat, KeysOnLonger DEF q3
  <2>5. all = q3 \o v
    BY DEF q3, q2, q1
  <2>6. Balance(q3 \o v) = Balance(queue) + Balance(start)
    BY <1>7, <1>8, <1>9, <2>1, <2>2, <2>3, <2>4 DEF q3, q2, q1
  <2> QED BY <2>4, <2>5, <2>6
<1>11. ASSUME tokens # <<>>, tokens[1].type = "StreamStart"
       PROVE  all # <<>> /\ all[1] = tokens[1]
  <2>1. /\ 1 \in DOMAIN tokens /\ \A i \in DOMAIN tokens : queue[i] = tokens[i]
    <3>1. tokens \in Seq(TokenSet) /\ \A i \in DOMAIN tokens : queue[i] = tokens[i]
      BY <1>1, Queued DEF ScanTypes, queue
    <3> QED BY <1>11, <3>1
  <2>2. n # 0
    <3>1. queue[1].type = "StreamStart"
      BY <1>11, <2>1
    <3>2. "StreamStart" \notin Range(KeyStarts)
      BY KeyTable
    <3> QED BY <1>5, <3>1, <3>2
  <2>3. Len(front) = n /\ 1 \in 1..n /\ front[1] = queue[1]
    <3>1. 1 \in Int /\ n \in Int /\ \A i \in 1..n : queue[i] \in TokenSet
      BY <1>3, <1>4
    <3>2. Len(SubSeq(queue, 1, n)) = (IF 1 <= n THEN n - 1 + 1 ELSE 0)
          /\ \A i \in 1..(n - 1 + 1) : SubSeq(queue, 1, n)[i] = queue[1 + i - 1]
      <4> HIDE DEF n
      <4> QED BY <3>1, SubSeqProperties
    <3>3. n >= 1
      BY <1>4, <2>2
    <3> QED BY <1>4, <3>2, <3>3 DEF front
  <2>4. front # <<>>
    BY <1>4, <2>3
  <2> DEFINE q1 == front \o start
             q2 == q1 \o k
             q3 == q2 \o back
  <2>5. q1 \in Seq(TokenSet) /\ q1 # <<>> /\ q1[1] = front[1]
    BY <1>4, <1>7, <2>4, HeadKept
  <2> HIDE DEF q1
  <2>6. q2 \in Seq(TokenSet) /\ q2 # <<>> /\ q2[1] = q1[1]
    BY <1>8, <2>5, HeadKept
  <2> HIDE DEF q2
  <2>7. q3 \in Seq(TokenSet) /\ q3 # <<>> /\ q3[1] = q2[1]
    BY <1>4, <2>6, HeadKept
  <2> HIDE DEF q3
  <2>8. q3 \o v # <<>> /\ (q3 \o v)[1] = q3[1]
    BY <1>8, <2>7, HeadKept
  <2>9. all = q3 \o v
    BY DEF q3, q2, q1
  <2> QED BY <2>1, <2>3, <2>5, <2>6, <2>7, <2>8, <2>9
<1> HIDE DEF all
<1>12. KeyInv'
  BY <1>1, <1>2, <1>7, <1>10, Left
<1>13. Balance(all) - Len(ind) = Balance(tokens) - Len(indents)
  <2>1. /\ Balance(tokens) \in Int /\ Len(indents) \in Nat /\ Len(Indents(x)) \in Nat
        /\ Balance(queue) - Len(Indents(x)) = Balance(tokens) - Len(indents)
    BY <1>1, QueueBalance DEF queue
  <2> QED BY <1>7, <1>9, <1>10, <2>1
<1>14. tokens' = all /\ indents' = ind
  BY <1>2 DEF Leave
<1> QED BY <1>11, <1>12, <1>13, <1>14 DEF FetchOK

LEMMA FetchCases ==
  ASSUME NEW x, Fetch(x)
  PROVE  /\ Scanning
         /\ \/ Raise("no value") \/ CannotStart(x)
            \/ FetchKeyStart(x) \/ FetchFlowEnd(x) \/ FetchFlowEntry(x) \/ FetchIndicator(x)
            \/ FetchValue(x) \/ FetchBlockScalar(x) \/ FetchMarker(x) \/ FetchStreamEnd(x)
BY DEF Fetch, Scanning

LEMMA Fetches ==
  ASSUME KeyInv, FetchAny
  PROVE  Scanning /\ FetchOK
<1>1. ScanTypes
  BY DEF KeyInv
<1>2. \A why \in Reasons : Raise(why) => FetchOK
  BY <1>1, Raised
<1>3. Raise("no value") => FetchOK
  BY <1>2 DEF Reasons
<1>4. \A x : CannotStart(x) => FetchOK
  <2>1. \A x : CannotStart(x) => Raise("cannot start a token")
    BY DEF CannotStart
  <2> QED BY <1>2, <2>1 DEF Reasons
<1>5. PICK ch \in Lexemes, nl \in BOOLEAN, col \in 0..MaxColumn :
        \E extent \in Extents(ch, col) : Fetch(Lexeme(ch, nl, col, extent))
  BY DEF FetchAny
<1>6. PICK extent \in Extents(ch, col) : Fetch(Lexeme(ch, nl, col, extent))
  BY <1>5
<1> DEFINE x == Lexeme(ch, nl, col, extent)
<1>7. x.column \in Nat
  BY ScannerAssumption DEF Lexeme
<1>8. Fetch(x)
  BY <1>6
<1> HIDE DEF x
<1>9. Scanning
  BY <1>8, FetchCases
<1>10. FetchKeyStart(x) => FetchOK
  BY <1>7, <1>9, KeyStartFetched
<1>11. FetchIndicator(x) => FetchOK
  BY <1>7, <1>9, IndicatorFetched
<1>12. FetchValue(x) => FetchOK
  BY <1>7, <1>9, ValueFetched
<1>13. FetchFlowEnd(x) \/ FetchFlowEntry(x) \/ FetchBlockScalar(x) \/ FetchMarker(x)
         \/ FetchStreamEnd(x) => FetchOK
  BY <1>7, <1>9, OneFetched
<1> QED BY <1>3, <1>4, <1>8, <1>9, <1>10, <1>11, <1>12, <1>13, FetchCases

\* The head of the queue is taken, and is no possible key.
LEMMA TakenKeeps ==
  ASSUME KeyInv, Taken
  PROVE  /\ KeyInv' /\ Scanning /\ tokens # <<>> /\ tokens' = Tail(tokens)
         /\ indents' = indents
<1> DEFINE keys == IF done THEN possible_simple_keys
                   ELSE stale_possible_simple_keys(possible_simple_keys, column)
           moved == [l \in DOMAIN keys |-> [keys[l] EXCEPT !.number = @ - 1]]
           n == Len(tokens)
<1>1. /\ Scanning /\ tokens # <<>> /\ tokens' = Tail(tokens) /\ indents' = indents
      /\ possible_simple_keys' = moved /\ done' = done /\ failed' = failed
      /\ flow_level' = flow_level /\ ~need_more_tokens
  BY DEF Taken, Scanning
<1>2. ScanTypes /\ KeysOK(possible_simple_keys, tokens, flow_level)
      /\ (done => DOMAIN possible_simple_keys = {})
  BY <1>1 DEF KeyInv
<1>3. KeysOK(keys, tokens, flow_level) /\ (done => DOMAIN keys = {})
  <2>1. KeysOK(stale_possible_simple_keys(possible_simple_keys, column), tokens, flow_level)
    BY <1>2, KeysRestricted DEF stale_possible_simple_keys
  <2> QED BY <1>2, <2>1
<1>4. ~done => ~(keys # <<>> /\ next_possible_simple_key(keys) = 0)
  BY <1>1 DEF need_more_tokens
<1> HIDE DEF keys
<1>5. ASSUME NEW l \in DOMAIN keys
      PROVE  keys[l] \in KeySet /\ keys[l].number \in Nat \ {0}
  <2>1. keys[l] \in KeySet /\ keys[l].number \in Nat
    BY <1>3 DEF KeysOK, KeySet
  <2>2. CASE keys[l].number = 0
    <3> DEFINE S == {keys[m].number : m \in DOMAIN keys}
    <3>1. 0 \in S /\ \A i \in S : i \in Nat
      BY <1>3, <2>2 DEF KeysOK, KeySet
    <3> HIDE DEF S
    <3>2. Min(S) \in S /\ \A i \in S : Min(S) <= i
      <4>1. \E i \in S : \A j \in S : i <= j
        BY <3>1
      <4> QED BY <4>1 DEF Min
    <3>3. Min(S) = 0
      BY <3>1, <3>2
    <3>4. keys # <<>>
      <4>1. DOMAIN <<>> = {}
        OBVIOUS
      <4> QED BY <4>1
    <3> QED BY <1>3, <1>4, <3>3, <3>4 DEF next_possible_simple_key, S
  <2> QED BY <2>1, <2>2
<1>6. /\ tokens \in Seq(TokenSet) /\ n \in Nat /\ n > 0
      /\ Tail(tokens) \in Seq(TokenSet) /\ Len(Tail(tokens)) = n - 1
      /\ \A i \in 1..(n - 1) : Tail(tokens)[i] = tokens[i + 1]
  <2>1. tokens \in Seq(TokenSet)
    BY <1>2 DEF ScanTypes
  <2> QED BY <1>1, <2>1
<1>7. ASSUME NEW l \in DOMAIN keys
      PROVE  /\ moved[l] \in KeySet /\ moved[l].number = keys[l].number - 1
             /\ moved[l].column = keys[l].column
  <2>1. moved[l] = [keys[l] EXCEPT !.number = keys[l].number - 1]
    OBVIOUS
  <2>2. keys[l].number - 1 \in Nat
    BY <1>5
  <2> QED BY <1>5, <2>1, <2>2 DEF KeySet
<1>8. DOMAIN moved = DOMAIN keys
  OBVIOUS
<1> DEFINE rest == Tail(tokens)
<1> HIDE DEF moved, n, rest
<1>9. KeysOK(moved, rest, flow_level)
  <2>1. ASSUME NEW l \in DOMAIN moved
        PROVE  /\ moved[l] \in KeySet /\ l \in Int /\ l <= flow_level
               /\ moved[l].number < Len(rest)
               /\ rest[moved[l].number + 1].column = moved[l].column
               /\ rest[moved[l].number + 1].type \in Range(KeyStarts)
    <3> DEFINE k == keys[l].number
    <3>1. /\ l \in DOMAIN keys /\ k \in Nat \ {0} /\ k < n /\ l \in Int /\ l <= flow_level
          /\ tokens[k + 1].column = keys[l].column /\ tokens[k + 1].type \in Range(KeyStarts)
      BY <1>3, <1>5, <1>8 DEF KeysOK, n
    <3>2. moved[l] \in KeySet /\ moved[l].number = k - 1 /\ moved[l].column = keys[l].column
      BY <1>7, <3>1
    <3> HIDE DEF k
    <3>3. k \in 1..(n - 1) /\ (k - 1) + 1 = k /\ k - 1 < n - 1
      BY <1>6, <3>1
    <3>4. rest[k] = tokens[k + 1] /\ Len(rest) = n - 1
      BY <1>6, <3>3 DEF rest
    <3> QED BY <3>1, <3>2, <3>3, <3>4
  <2>2. ASSUME NEW l \in DOMAIN moved, NEW m \in DOMAIN moved, l < m
        PROVE  moved[l].number < moved[m].number
    <3>1. keys[l].number < keys[m].number
      BY <1>3, <1>8, <2>2 DEF KeysOK
    <3>2. /\ moved[l].number = keys[l].number - 1 /\ keys[l].number \in Nat
          /\ moved[m].number = keys[m].number - 1 /\ keys[m].number \in Nat
      BY <1>5, <1>7, <1>8
    <3> QED BY <3>1, <3>2
  <2> QED BY <2>1, <2>2 DEF KeysOK
<1>10. ScanTypes'
  BY <1>1, <1>2, <1>6 DEF ScanTypes, rest
<1>11. KeysOK(possible_simple_keys, tokens, flow_level)'
  BY <1>1, <1>9 DEF KeysOK, rest
<1>12. (done => DOMAIN possible_simple_keys = {})'
  BY <1>1, <1>3, <1>8
<1> QED BY <1>1, <1>10, <1>11, <1>12 DEF KeyInv

LEMMA KeyInvInit == Init => KeyInv
<1> SUFFICES ASSUME Init PROVE KeyInv
  OBVIOUS
<1>1. /\ tokens = <<Token("StreamStart", 0)>> /\ indents = <<-1>> /\ flow_level = 0
      /\ possible_simple_keys = <<>>
  BY DEF Init, ScannerInit
<1>2. ScanTypes
  <2>1. Token("StreamStart", 0) \in TokenSet
    BY TokenType DEF Tokens
  <2> QED BY <1>1, <2>1 DEF ScanTypes
<1>3. DOMAIN possible_simple_keys = {}
  BY <1>1
<1> QED BY <1>2, <1>3 DEF KeyInv, KeysOK

LEMMA KeyInvStep == KeyInv /\ [Next]_vars => KeyInv'
<1> SUFFICES ASSUME KeyInv, [Next]_vars PROVE KeyInv'
  OBVIOUS
<1>1. CASE Peek
  BY <1>1, TakenKeeps DEF Peek
<1>2. CASE ScanMore
  <2>1. CASE FetchAny
    BY <2>1, Fetches DEF FetchOK
  <2>2. CASE StaleKey
    <3>1. ScanTypes /\ Raise("no value")
      BY <2>2 DEF KeyInv, StaleKey
    <3> QED BY <3>1, Raised DEF FetchOK, Reasons
  <2> QED BY <1>2, <2>1, <2>2 DEF ScanMore
<1>3. CASE ParserStep \/ UNCHANGED vars
  <2>1. UNCHANGED <<tokens, indents, flow_level, possible_simple_keys, done, failed>>
    BY <1>3 DEF ParserStep, scannerVars, vars
  <2> QED BY <2>1 DEF KeyInv, ScanTypes, KeysOK, Scanning
<1> QED BY <1>1, <1>2, <1>3 DEF Next

\* need_more_tokens() fetches until the head of the queue cannot be a key, and
\* so fetch_value() always finds the token of its simple key in the queue, and
\* inserts KEY, and BLOCK-MAPPING-START, before that token and no other.
THEOREM KeysAreWhereTheyBegan == Spec => []KeysPointAtTheirTokens
<1>1. KeyInv => KeysPointAtTheirTokens
  <2> SUFFICES ASSUME KeyInv, Scanning, NEW l \in DOMAIN possible_simple_keys
               PROVE  LET key == possible_simple_keys[l] IN
                      /\ key.number + 1 \in DOMAIN tokens
                      /\ tokens[key.number + 1].column = key.column
                      /\ tokens[key.number + 1].type \in Range(KeyStarts)
    BY DEF KeysPointAtTheirTokens, Scanning
  <2> DEFINE n == possible_simple_keys[l].number
  <2>1. /\ n \in Nat /\ n < Len(tokens)
        /\ tokens[n + 1].column = possible_simple_keys[l].column
        /\ tokens[n + 1].type \in Range(KeyStarts)
    BY DEF KeyInv, KeysOK, KeySet
  <2>2. tokens \in Seq(TokenSet)
    BY DEF KeyInv, ScanTypes
  <2>3. n + 1 \in DOMAIN tokens
    <3> HIDE DEF n
    <3> QED BY <2>1, <2>2
  <2> QED BY <2>1, <2>3
<1> QED BY <1>1, KeyInvInit, KeyInvStep, PTL DEF Spec

-----------------------------------------------------------------------------
\* Blocks: those that the parser is in, and what the tokens on the way to it
\* start and end, are those that the scanner has indented.

OnHand == IF tok \in Tokens THEN BalanceOf(tok) ELSE 0

\* The token that a function is called for: the first token of the stream, and
\* the start token of a collection.
HandInv ==
  /\ tok \in Tokens \cup {"none", "raised"}
  /\ state \in Firsts => tok \in DOMAIN FirstStates /\ FirstStates[tok] = state
  /\ (Scanning /\ state = "stream_start") =>
       \/ tok = "StreamStart"
       \/ tok = "none" /\ tokens # <<>> /\ tokens[1].type = "StreamStart"

BlockInv ==
  /\ StackOK /\ KeyInv /\ HandInv
  /\ (Scanning /\ tok # "raised") =>
       Depth(BlockStates) + Balance(tokens) + OnHand = Len(indents) - 1

LEMMA NotTokens == "none" \notin Tokens /\ "raised" \notin Tokens
BY DEF Tokens, Directives, Properties

\* Steps that neither begin nor end a collection take no token that does.
Brackets == {"FlowSequenceStart", "FlowMappingStart", "FlowSequenceEnd", "FlowMappingEnd"}

LEMMA PlainTokens ==
  ASSUME state = "stream_start" => tok \in {"StreamStart", "none"},
         \/ StreamStart \/ ImplicitDocumentStart \/ ProcessDirectives \/ Directive
         \/ ExplicitDocumentStart \/ ExtraDocumentEnd \/ StreamEnd \/ DocumentEnd \/ Root
         \/ Property \/ Alias \/ Collection \/ Scalar \/ NoContent \/ UnknownHandle
         \/ Item \/ ItemNode \/ NoItem \/ Comma \/ FlowEntryNode \/ NotInCollection
  PROVE  \/ tok' = tok \/ tok' = "raised"
         \/ tok' = "none" /\ BalanceOf(tok) = 0 /\ tok \notin Brackets
<1>1. CASE \/ ImplicitDocumentStart \/ ProcessDirectives \/ Root \/ Collection \/ UnknownHandle
           \/ ItemNode \/ NoItem \/ FlowEntryNode \/ NotInCollection \/ NoContent
  <2>1. CASE ImplicitDocumentStart \/ ProcessDirectives \/ Root \/ Collection \/ UnknownHandle
    BY <2>1 DEF ImplicitDocumentStart, ProcessDirectives, Root, Collection, UnknownHandle, Look,
                LookFor, Refuse
  <2>2. CASE ItemNode \/ NoItem \/ FlowEntryNode \/ NotInCollection \/ NoContent
    BY <2>2 DEF ItemNode, NoItem, FlowEntryNode, NotInCollection, NoContent, Look, LookFor, Refuse
  <2> QED BY <1>1, <2>1, <2>2
<1>2. CASE StreamStart
  <2>1. tok = "StreamStart" /\ tok' = "none"
    BY <1>2, NotTokens DEF StreamStart, At, Called, TakeFor
  <2> QED BY <2>1 DEF BalanceOf, Brackets
<1>3. CASE Directive
  <2>1. tok \in Directives /\ (tok' = "none" \/ tok' = "raised")
    BY <1>3 DEF Directive, Take, Refuse
  <2>2. BalanceOf(tok) = 0 /\ tok \notin Brackets
    BY <2>1 DEF Directives, BalanceOf, Brackets
  <2> QED BY <2>1, <2>2
<1>4. CASE ExplicitDocumentStart \/ ExtraDocumentEnd \/ StreamEnd \/ DocumentEnd
  <2>1. \/ tok' = tok \/ tok' = "raised"
        \/ tok' = "none" /\ tok \in {"DocumentStart", "DocumentEnd", "StreamEnd"}
    BY <1>4 DEF ExplicitDocumentStart, ExtraDocumentEnd, StreamEnd, DocumentEnd, Take, TakeFor,
                LookFor, Refuse
  <2> QED BY <2>1 DEF BalanceOf, Brackets
<1>5. CASE Property \/ Alias \/ Scalar \/ Comma
  <2>1. tok' = "none" /\ tok \in Properties \cup {"Alias", "Scalar", "FlowEntry"}
    BY <1>5 DEF Property, Alias, Scalar, Comma, Take, TakeFor
  <2>2. BalanceOf(tok) = 0 /\ tok \notin Brackets
    BY <2>1 DEF Properties, BalanceOf, Brackets
  <2> QED BY <2>1, <2>2
<1>6. CASE Item
  <2>1. tok' = "none" /\ state \in DOMAIN Items /\ tok = Items[state].on
    BY <1>6 DEF Item, ItemComes, Take
  <2>2. \A s \in DOMAIN Items : Items[s].on \in {"BlockEntry", "Key", "Value"}
    BY DEF Items
  <2>3. BalanceOf(tok) = 0 /\ tok \notin Brackets
    BY <2>1, <2>2 DEF BalanceOf, Brackets
  <2> QED BY <2>1, <2>3
<1> QED BY <1>1, <1>2, <1>3, <1>4, <1>5, <1>6

\* The first function of a collection is called for its start token only.
LEMMA FirstsAreEntered ==
  ASSUME StackOK, Parse, state' \in Firsts
  PROVE  tok' = tok /\ tok \in DOMAIN FirstStates /\ FirstStates[tok] = state'
<1>1. CASE Collection
  <2>1. tok \in {"BlockEntry", "FlowSequenceStart", "FlowMappingStart", "BlockSequenceStart",
                 "BlockMappingStart"} /\ tok' = tok
    BY <1>1 DEF Collection, Contents, LookFor
  <2>2. tok # "BlockEntry"
    BY <1>1 DEF Collection, Goto, Firsts
  <2> QED BY <1>1, <2>1, <2>2 DEF Collection, Goto, FirstStates
<1>2. ASSUME state' = Last(states), state \notin Outside
      PROVE  FALSE
  <2>1. state' \in Inner \cup {"document_end"}
    BY <1>2, FrontLast DEF StackOK
  <2> QED BY <2>1, LevelsAreInner DEF Outside
<1>3. CASE state \in Outside
  <2>1. state' \in Outside \cup Roots
    BY <1>3, OutsideSteps
       DEF StreamStart, ImplicitDocumentStart, ProcessDirectives, Directive, ExplicitDocumentStart,
           ExtraDocumentEnd, StreamEnd, DocumentEnd, Goto, Refuse, stack, Outside, Roots
  <2> QED BY <2>1, LevelsAreInner
<1>4. CASE state \notin Outside /\ Root
  <2>1. state \in Roots
    BY <1>4 DEF Root, At, Roots
  <2>2. state' = Last(states) \/ state' = state
    BY <1>4 DEF Root, Pop, Goto
  <2> QED BY <1>2, <1>4, <2>1, <2>2, LevelsAreInner
<1>5. CASE state \notin Outside /\ (Property \/ Alias \/ Scalar \/ NoContent \/ UnknownHandle)
  <2>1. state \notin Firsts
    BY <1>5 DEF StackOK, Property, Alias, Scalar, NoContent, UnknownHandle, ContentComes, InNode
  <2>2. state' = Last(states) \/ state' = state
    BY <1>5 DEF Property, Alias, Scalar, NoContent, UnknownHandle, Pop, Refuse, stack
  <2> QED BY <1>2, <1>5, <2>1, <2>2
<1>6. CASE First
  <2>1. state' \in Inner
    BY <1>6, StateTables DEF First
  <2> QED BY <2>1, LevelsAreInner
<1>7. CASE state \notin Outside /\ End
  BY <1>2, <1>7 DEF End, Pop, PopCollection
<1>8. CASE Item \/ ItemNode \/ NoItem \/ Comma \/ FlowEntryNode \/ NotInCollection
  <2>1. state \in Inner
    <3>1. state \in DOMAIN Items \cup DOMAIN EndTokens \cup FlowEntries
                 \cup {"flow_mapping_empty_value", "flow_sequence_entry_mapping_end"}
      BY <1>8 DEF Item, ItemNode, NoItem, Comma, FlowEntryNode, NotInCollection, ItemComes, At
    <3> QED BY <3>1, StateTables, ItemTable DEF Inner, MarkedStates, BlockStates, FlowStates
  <2>2. state' = state \/ state' \in Inner
    <3>1. state \in DOMAIN Items => Items[state].then \in Inner
      BY ItemTable
    <3>2. CASE Item \/ Comma \/ NotInCollection
      BY <3>2 DEF Item, Comma, NotInCollection, Goto, Refuse, stack
    <3>3. CASE ItemNode \/ NoItem
      BY <3>1, <3>3 DEF ItemNode, NoItem, Goto, Node, Inner, MarkedStates, FlowStates
    <3>4. CASE FlowEntryNode
      BY <3>4 DEF FlowEntryNode, Goto, Node, Inner, MarkedStates, FlowStates
    <3> QED BY <1>8, <3>2, <3>3, <3>4
  <2> QED BY <2>1, <2>2, LevelsAreInner
<1>9. \/ StreamStart \/ ImplicitDocumentStart \/ ProcessDirectives \/ Directive
      \/ ExplicitDocumentStart \/ ExtraDocumentEnd \/ StreamEnd \/ DocumentEnd
      => state \in Outside
  BY DEF StreamStart, ImplicitDocumentStart, ProcessDirectives, Directive, ExplicitDocumentStart,
         ExtraDocumentEnd, StreamEnd, DocumentEnd, At, Outside
<1> QED BY <1>1, <1>3, <1>4, <1>5, <1>6, <1>7, <1>8, <1>9 DEF Parse

\* What a step of the parser does to the function it calls and its token.
LEMMA ParserHands ==
  ASSUME StackOK, HandInv, Scanning, Parse \/ get_event, UNCHANGED scannerVars
  PROVE  /\ HandInv' /\ Scanning'
         /\ tok' # "raised" =>
              Depth(BlockStates)' + OnHand' = Depth(BlockStates) + OnHand
<1>1. tok \in Tokens \cup {"none", "raised"} /\ BlockStates \in Levels
      /\ (state \in Firsts => tok \in DOMAIN FirstStates /\ FirstStates[tok] = state)
      /\ (state = "stream_start" => tok \in {"StreamStart", "none"})
  BY DEF HandInv, Levels
<1>2. tokens' = tokens /\ Scanning'
  BY DEF scannerVars, Scanning
<1>3. Depth(BlockStates) \in Nat
  BY <1>1, DepthType
<1>4. \A t : BalanceOf(t) \in Int
  BY DEF BalanceOf
<1>5. CASE get_event
  <2>1. tok' = tok /\ state' = state /\ SameDepth
    <3>1. tok' = tok /\ state' = state /\ states' = states /\ pos' = pos /\ marks' = marks
      BY <1>5 DEF get_event, stack
    <3>2. StackOK'
      BY <3>1 DEF StackOK
    <3>3. \A M \in Levels : Depth(M)' = Depth(M)
      BY <3>1 DEF Depth, Pending
    <3> QED BY <3>1, <3>2, <3>3 DEF SameDepth
  <2>2. HandInv'
    BY <1>2, <2>1 DEF HandInv
  <2>3. OnHand' = OnHand /\ Depth(BlockStates)' = Depth(BlockStates)
    BY <1>1, <2>1 DEF OnHand, SameDepth
  <2> QED BY <1>2, <2>2, <2>3
<1>6. CASE Parse
  <2>1. \/ First \/ End
        \/ /\ SameDepth
           /\ \/ tok' = tok \/ tok' = "raised"
              \/ tok' = "none" /\ BalanceOf(tok) = 0
    BY <1>1, <1>6, PlainTokens, DocumentSteps, NodeSteps, ItemSteps DEF Parse
  <2>2. \/ SameDepth /\ (tok' = tok \/ tok' = "raised" \/ (tok' = "none" /\ BalanceOf(tok) = 0))
        \/ StartsCollection \/ EndsCollection
    BY <2>1, FirstStep, EndStep
  <2>3. tok' \in Tokens \cup {"none", "raised"}
    BY <1>1, <2>2 DEF StartsCollection, EndsCollection
  <2>4. state' # "stream_start"
    <3>1. CASE state \in Outside
      BY <1>6, <3>1, OutsideSteps
         DEF StreamStart, ImplicitDocumentStart, ProcessDirectives, Directive,
             ExplicitDocumentStart, ExtraDocumentEnd, StreamEnd, DocumentEnd, Goto, Refuse, stack, At
    <3>2. CASE state \notin Outside
      BY <1>6, <3>2, DocumentKeepsHandles DEF Outside
    <3> QED BY <3>1, <3>2
  <2>5. HandInv'
    BY <1>6, <2>3, <2>4, FirstsAreEntered DEF HandInv
  <2>6. ASSUME tok' # "raised"
        PROVE  Depth(BlockStates)' + OnHand' = Depth(BlockStates) + OnHand
    <3>1. CASE SameDepth /\ (tok' = tok \/ tok' = "raised" \/ (tok' = "none" /\ BalanceOf(tok) = 0))
      <4>1. OnHand' = OnHand
        <5>1. CASE tok' = tok
          BY <5>1 DEF OnHand
        <5>2. CASE tok' = "none" /\ BalanceOf(tok) = 0
          BY <5>2, NotTokens DEF OnHand
        <5>3. tok' = tok \/ (tok' = "none" /\ BalanceOf(tok) = 0)
          BY <2>6, <3>1
        <5> QED BY <5>1, <5>2, <5>3
      <4> QED BY <1>1, <3>1, <4>1 DEF SameDepth
    <3>2. CASE StartsCollection
      <4>1. state \in Firsts /\ tok' = "none"
            /\ Depth(BlockStates)' = Depth(BlockStates) + (IF FirstEntry[state] \in BlockStates THEN 1 ELSE 0)
        BY <1>1, <3>2 DEF StartsCollection
      <4>2. tok \in DOMAIN FirstStates /\ FirstStates[tok] = state
        BY <1>1, <4>1
      <4>3. /\ tok \in Tokens
            /\ BalanceOf(tok) = IF FirstEntry[state] \in BlockStates THEN 1 ELSE 0
        BY <4>2 DEF FirstStates, FirstEntry, BlockStates, BalanceOf, Tokens
      <4>4. OnHand' = 0 /\ OnHand = BalanceOf(tok)
        BY <4>1, <4>3, NotTokens DEF OnHand
      <4> QED BY <1>3, <4>1, <4>3, <4>4
    <3>3. CASE EndsCollection
      <4>1. state \in DOMAIN EndTokens /\ tok = EndTokens[state] /\ tok' = "none"
            /\ Depth(BlockStates)' = Depth(BlockStates) - (IF state \in BlockStates THEN 1 ELSE 0)
        BY <1>1, <3>3 DEF EndsCollection
      <4>2. /\ tok \in Tokens
            /\ BalanceOf(tok) = IF state \in BlockStates THEN -1 ELSE 0
        BY <4>1 DEF EndTokens, BlockStates, BalanceOf, Tokens
      <4>3. OnHand' = 0 /\ OnHand = BalanceOf(tok)
        BY <4>1, <4>2, NotTokens DEF OnHand
      <4> QED BY <1>3, <4>1, <4>2, <4>3
    <3> QED BY <2>2, <3>1, <3>2, <3>3
  <2> QED BY <1>2, <2>5, <2>6
<1> QED BY <1>5, <1>6

LEMMA BlockInvInit == Init => BlockInv
<1> SUFFICES ASSUME Init PROVE BlockInv
  OBVIOUS
<1>1. StackOK /\ KeyInv
  BY MarkInvInit, KeyInvInit DEF MarkInv
<1>2. /\ state = "stream_start" /\ states = <<>> /\ tok = "none"
      /\ tokens = <<Token("StreamStart", 0)>> /\ indents = <<-1>>
  BY DEF Init, ParserInit, ScannerInit
<1>3. /\ Token("StreamStart", 0).type = "StreamStart" /\ Balance(tokens) = 0
  <2>1. "StreamStart" \in Tokens /\ BalanceOf("StreamStart") = 0
    BY DEF Tokens, BalanceOf
  <2> QED BY <1>2, <2>1, TokenType, BalanceOne
<1>4. HandInv
  BY <1>2, <1>3, LevelsAreInner DEF HandInv, Outside
<1>5. Depth(BlockStates) = 0
  <2>1. state \notin BlockStates
    BY <1>2, LevelsAreInner DEF Levels, Outside
  <2> QED BY <1>2, <2>1, CountEmpty DEF Depth
<1>6. OnHand = 0
  BY <1>2, NotTokens DEF OnHand
<1>7. Len(indents) = 1
  BY <1>2
<1> QED BY <1>1, <1>3, <1>4, <1>5, <1>6, <1>7 DEF BlockInv

LEMMA BlockInvStep == BlockInv /\ [Next]_vars => BlockInv'
<1> SUFFICES ASSUME BlockInv, [Next]_vars PROVE BlockInv'
  OBVIOUS
<1>1. /\ StackOK /\ KeyInv /\ HandInv /\ KeyInv' /\ BlockStates \in Levels
      /\ ((Scanning /\ tok # "raised") =>
            Depth(BlockStates) + Balance(tokens) + OnHand = Len(indents) - 1)
  BY KeyInvStep DEF BlockInv, Levels
<1>2. /\ tokens \in Seq(TokenSet) /\ Balance(tokens) \in Int /\ Len(indents) \in Nat
      /\ Depth(BlockStates) \in Nat /\ OnHand \in Int
  <2>1. tokens \in Seq(TokenSet) /\ indents \in Seq(Int)
    BY <1>1 DEF KeyInv, ScanTypes
  <2>2. OnHand \in Int
    BY DEF OnHand, BalanceOf
  <2> QED BY <1>1, <2>1, <2>2, BalanceType, DepthType
<1>3. Balance(tokens') \in Int /\ Len(indents') \in Nat
  <2>1. tokens' \in Seq(TokenSet) /\ indents' \in Seq(Int)
    BY <1>1 DEF KeyInv, ScanTypes
  <2> QED BY <2>1, BalanceType
<1>4. CASE ParserStep
  <2>1. UNCHANGED scannerVars
    BY <1>4 DEF ParserStep
  <2>2. StackOK'
    BY <1>1, <1>4, ParserSteps DEF ParserStep, SameDepth, StartsCollection, EndsCollection
  <2>3. Scanning' => Scanning /\ tokens' = tokens /\ indents' = indents
    BY <2>1 DEF scannerVars, Scanning
  <2>4. CASE Scanning
    <3>1. HandInv' /\ (tok' # "raised" =>
                         Depth(BlockStates)' + OnHand' = Depth(BlockStates) + OnHand)
      BY <1>1, <1>4, <2>1, <2>4, ParserHands DEF ParserStep
    <3>2. tok' # "raised" => tok # "raised" /\ Depth(BlockStates)' \in Nat /\ OnHand' \in Int
      <4>1. tok = "raised" => tok' = "raised"
        <5>1. tok = "raised" => ~Called
          BY NotTokens DEF Called
        <5>2. ~Called => ~Parse
          BY DEF Parse, StreamStart, ImplicitDocumentStart, ProcessDirectives, Directive,
                 ExplicitDocumentStart, ExtraDocumentEnd, StreamEnd, DocumentEnd, Root, Property,
                 Alias, Collection, Scalar, NoContent, UnknownHandle, ContentComes, InNode, First,
                 Item, ItemComes, ItemNode, NoItem, Comma, FlowEntryNode, End, NotInCollection, At
        <5>3. get_event => tok' = tok
          BY DEF get_event
        <5> QED BY <1>4, <5>1, <5>2, <5>3 DEF ParserStep
      <4>2. Depth(BlockStates)' \in Nat
        <5>1. Count(states', BlockStates) \in Nat
          BY <2>2, CountType DEF StackOK
        <5> QED BY <5>1 DEF Depth
      <4>3. OnHand' \in Int
        BY DEF OnHand, BalanceOf
      <4> QED BY <4>1, <4>2, <4>3
    <3>3. (Scanning' /\ tok' # "raised") =>
            Depth(BlockStates)' + Balance(tokens') + OnHand' = Len(indents') - 1
      BY <1>1, <1>2, <2>3, <2>4, <3>1, <3>2
    <3> QED BY <1>1, <2>2, <3>1, <3>3 DEF BlockInv, Balance, Count
  <2>5. CASE ~Scanning
    <3>1. HandInv'
      <4>1. CASE get_event
        BY <1>1, <2>3, <2>5, <4>1 DEF get_event, stack, HandInv
      <4>2. CASE Parse
        <5>1. tok' \in Tokens \cup {"none", "raised"}
          BY <1>1, <4>2
             DEF HandInv, Parse, StreamStart, ImplicitDocumentStart, ProcessDirectives, Directive,
                 ExplicitDocumentStart, ExtraDocumentEnd, StreamEnd, DocumentEnd, Root, Property,
                 Alias, Collection, Scalar, NoContent, UnknownHandle, First, Item, ItemNode, NoItem,
                 Comma, FlowEntryNode, End, NotInCollection, Take, TakeFor, Look, LookFor, Refuse
        <5> QED BY <1>1, <2>3, <2>5, <4>2, <5>1, FirstsAreEntered DEF HandInv
      <4> QED BY <1>4, <4>1, <4>2 DEF ParserStep
    <3> QED BY <1>1, <2>2, <2>3, <2>5, <3>1 DEF BlockInv, Balance, Count
  <2> QED BY <2>4, <2>5
<1>5. CASE Peek
  <2>1. /\ Scanning /\ tokens # <<>> /\ tokens' = Tail(tokens) /\ indents' = indents
        /\ tok = "none" /\ tok' = Head(tokens).type /\ UNCHANGED stack
    BY <1>1, <1>5, TakenKeeps DEF Peek, Asking
  <2>2. SameDepth
    BY <1>1, <1>5, ScannerLeavesTheStack
  <2> DEFINE head == Head(tokens)
  <2>3. /\ head \in TokenSet /\ head = tokens[1] /\ Tail(tokens) \in Seq(TokenSet)
        /\ tokens = <<head>> \o Tail(tokens) /\ <<head>> \in Seq(TokenSet)
    <3> HIDE DEF TokenSet
    <3> QED BY <1>2, <2>1
  <2> HIDE DEF head
  <2>4. head.type \in Tokens /\ head.column \in Int /\ head = Token(head.type, head.column)
    BY <2>3 DEF TokenSet, Token
  <2>5. Balance(<<head>>) = BalanceOf(head.type)
    BY <2>4, BalanceOne
  <2>6. Balance(tokens) = Balance(<<head>>) + Balance(Tail(tokens))
    <3> DEFINE rest == Tail(tokens)
               one == <<head>>
    <3>1. one \in Seq(TokenSet) /\ rest \in Seq(TokenSet) /\ tokens = one \o rest
      BY <2>3
    <3> HIDE DEF rest, one
    <3>2. Balance(one \o rest) = Balance(one) + Balance(rest)
      BY <3>1, BalanceConcat
    <3> QED BY <3>1, <3>2 DEF rest, one
  <2>7. OnHand = 0 /\ OnHand' = BalanceOf(head.type)
    BY <2>1, <2>4, NotTokens DEF OnHand, head
  <2>8. Depth(BlockStates) + Balance(tokens) + OnHand = Len(indents) - 1
    BY <1>1, <2>1
  <2>9. Depth(BlockStates)' + Balance(tokens') + OnHand' = Len(indents') - 1
    <3>1. Depth(BlockStates)' = Depth(BlockStates)
      BY <1>1, <2>2 DEF SameDepth
    <3>2. Balance(tokens') = Balance(tokens) - BalanceOf(head.type) /\ BalanceOf(head.type) \in Int
      <4>1. BalanceOf(head.type) \in Int
        BY DEF BalanceOf
      <4>2. Balance(Tail(tokens)) = Balance(tokens')
        BY <2>1
      <4> QED BY <1>2, <1>3, <2>5, <2>6, <4>1, <4>2
    <3> QED BY <1>2, <2>1, <2>7, <2>8, <3>1, <3>2
  <2>10. HandInv'
    <3>1. tok' \in Tokens /\ state' = state
      BY <2>1, <2>4 DEF stack, head
    <3>2. state \notin Firsts
      <4>1. "none" \notin DOMAIN FirstStates
        BY DEF FirstStates
      <4> QED BY <1>1, <2>1, <4>1 DEF HandInv
    <3>3. state = "stream_start" => tok' = "StreamStart"
      BY <1>1, <2>1, <2>3 DEF HandInv, head
    <3> QED BY <3>1, <3>2, <3>3 DEF HandInv
  <2>11. StackOK'
    BY <2>2 DEF SameDepth
  <2> QED BY <1>1, <2>9, <2>10, <2>11 DEF BlockInv, Balance, Count
<1>6. CASE ScanMore
  <2>1. /\ SameDepth /\ tok' = tok /\ state' = state /\ tok = "none"
    BY <1>1, <1>6, ScannerLeavesTheStack DEF ScanMore, parserVars, stack, Asking
  <2>2. Scanning' => Scanning /\ FetchOK
    <3>1. CASE FetchAny
      BY <1>1, <3>1, Fetches
    <3>2. CASE StaleKey
      BY <3>2 DEF StaleKey, Raise, Scanning
    <3> QED BY <1>6, <3>1, <3>2 DEF ScanMore
  <2>3. HandInv'
    BY <1>1, <2>1, <2>2 DEF HandInv, FetchOK
  <2>4. OnHand' = OnHand /\ Depth(BlockStates)' = Depth(BlockStates)
    BY <1>1, <2>1 DEF OnHand, SameDepth
  <2>5. (Scanning' /\ tok' # "raised") =>
          Depth(BlockStates)' + Balance(tokens') + OnHand' = Len(indents') - 1
    BY <1>1, <1>2, <1>3, <2>1, <2>2, <2>4 DEF FetchOK
  <2>6. StackOK'
    BY <2>1 DEF SameDepth
  <2> QED BY <1>1, <2>3, <2>5, <2>6 DEF BlockInv, Balance, Count
<1>7. CASE UNCHANGED vars
  <2>1. /\ SameDepth /\ tok' = tok /\ state' = state /\ tokens' = tokens /\ indents' = indents
        /\ failed' = failed
    BY <1>1, <1>7, ScannerLeavesTheStack DEF vars, parserVars, scannerVars, stack
  <2>2. HandInv' /\ StackOK'
    BY <1>1, <2>1 DEF HandInv, SameDepth, Scanning
  <2>3. (Scanning' /\ tok' # "raised") =>
          Depth(BlockStates)' + Balance(tokens') + OnHand' = Len(indents') - 1
    BY <1>1, <2>1 DEF OnHand, SameDepth, Scanning
  <2> QED BY <1>1, <2>2, <2>3 DEF BlockInv, Balance, Count
<1> QED BY <1>4, <1>5, <1>6, <1>7 DEF Next

\* What is in hand is the queue and the token that is looked at.
LEMMA BlocksAreCounted ==
  ASSUME StackOK, KeyInv, HandInv
  PROVE  /\ Cardinality({i \in DOMAIN Frames : IsBlock(Frames[i])}) = Depth(BlockStates)
         /\ Cardinality({i \in DOMAIN InHand : IsStart(InHand[i])})
              - Cardinality({i \in DOMAIN InHand : IsEnd(InHand[i])}) = Balance(tokens) + OnHand
<1>1. Cardinality({i \in DOMAIN Frames : IsBlock(Frames[i])}) = Depth(BlockStates)
  <2>1. {i \in DOMAIN Frames : IsBlock(Frames[i])} = {i \in DOMAIN Frames : Frames[i] \in BlockStates}
    BY DEF IsBlock, BlockStates
  <2> QED BY <2>1, FramesAreCounted DEF Levels
<1> DEFINE more == IF tok \in Tokens THEN <<Token(tok, 0)>> ELSE <<>>
           hand == tokens \o more
<1>2. tokens \in Seq(TokenSet) /\ more \in Seq(TokenSet) /\ Balance(more) = OnHand
  <2>1. tokens \in Seq(TokenSet)
    BY DEF KeyInv, ScanTypes
  <2>2. CASE tok \in Tokens
    BY <2>1, <2>2, BalanceOne DEF OnHand
  <2>3. CASE tok \notin Tokens
    <3>1. Balance(<<>>) = 0
      BY CountEmpty DEF Balance
    <3>2. more = <<>>
      BY <2>3
    <3> QED BY <2>1, <2>3, <3>1, <3>2 DEF OnHand
  <2> QED BY <2>2, <2>3
<1>3. hand = InHand
  BY DEF InHand
<1> HIDE DEF more
<1>4. hand \in Seq(TokenSet) /\ Balance(hand) = Balance(tokens) + OnHand
  BY <1>2, BalanceConcat
<1> HIDE DEF hand
<1>5. \A i \in DOMAIN hand : hand[i] \in TokenSet
  BY <1>4
<1>6. {i \in DOMAIN hand : IsStart(hand[i])} = {i \in DOMAIN hand : hand[i] \in BlockStarts}
      /\ {i \in DOMAIN hand : IsEnd(hand[i])} = {i \in DOMAIN hand : hand[i] \in BlockEnds}
  BY <1>5 DEF IsStart, IsEnd, BlockStarts, BlockEnds
<1>7. Cardinality({i \in DOMAIN hand : IsStart(hand[i])})
        - Cardinality({i \in DOMAIN hand : IsEnd(hand[i])}) = Balance(hand)
  BY <1>6 DEF Balance, Count
<1> QED BY <1>1, <1>3, <1>4, <1>7

\* The block collections that the parser has open are those that unwind_indent()
\* and add_indent() have indented, but for the starts and ends on the way: each
\* of the two counts blocks without asking the other, on any text.
THEOREM BothCountTheSameBlocks == Spec => []BlocksAgree
<1>1. BlockInv => BlocksAgree
  <2> SUFFICES ASSUME BlockInv, Scanning, tok # "raised" PROVE
        Cardinality({i \in DOMAIN Frames : IsBlock(Frames[i])})
            + Cardinality({i \in DOMAIN InHand : IsStart(InHand[i])})
            - Cardinality({i \in DOMAIN InHand : IsEnd(InHand[i])})
          = Len(indents) - 1
    BY DEF BlocksAgree, Scanning
  <2> DEFINE a == Cardinality({i \in DOMAIN Frames : IsBlock(Frames[i])})
             b == Cardinality({i \in DOMAIN InHand : IsStart(InHand[i])})
             c == Cardinality({i \in DOMAIN InHand : IsEnd(InHand[i])})
  <2>1. a = Depth(BlockStates) /\ b - c = Balance(tokens) + OnHand
    BY BlocksAreCounted DEF BlockInv
  <2>2. Depth(BlockStates) + Balance(tokens) + OnHand = Len(indents) - 1
    BY DEF BlockInv
  <2>3. a \in Nat /\ b \in Nat /\ c \in Nat /\ Balance(tokens) \in Int /\ OnHand \in Int
    <3>1. tokens \in Seq(TokenSet) /\ Depth(BlockStates) \in Nat
      BY DepthType DEF BlockInv, KeyInv, ScanTypes, Levels
    <3>2. IsFiniteSet(DOMAIN InHand)
      <4>1. InHand \in Seq(TokenSet)
        <5>1. tok \in Tokens => <<Token(tok, 0)>> \in Seq(TokenSet)
          BY TokenType
        <5> QED BY <3>1, <5>1 DEF InHand
      <4>2. DOMAIN InHand = 1..Len(InHand) /\ Len(InHand) \in Nat
        BY <4>1
      <4> QED BY <4>2, FS_Interval
    <3>3. IsFiniteSet({i \in DOMAIN InHand : IsStart(InHand[i])})
          /\ IsFiniteSet({i \in DOMAIN InHand : IsEnd(InHand[i])})
      BY <3>2, FS_Subset
    <3>4. b \in Nat /\ c \in Nat
      BY <3>3, FS_CardinalityType
    <3>5. OnHand \in Int
      BY DEF OnHand, BalanceOf
    <3> QED BY <2>1, <3>1, <3>4, <3>5, BalanceType
  <2> HIDE DEF a, b, c
  <2>4. a + b - c = Len(indents) - 1
    BY <2>1, <2>2, <2>3
  <2> QED BY <2>4 DEF a, b, c
<1> QED BY <1>1, BlockInvInit, BlockInvStep, PTL DEF Spec
-----------------------------------------------------------------------------
\* What the scanner lets pass.  Flow collections are counted like blocks: by how
\* many flow collections start a sequence of tokens has more than ends.

FlowStartTypes == {"FlowSequenceStart", "FlowMappingStart"}
FlowEndTypes == {"FlowSequenceEnd", "FlowMappingEnd"}
FlowStarts == {t \in TokenSet : t.type \in FlowStartTypes}
FlowStops == {t \in TokenSet : t.type \in FlowEndTypes}
FlowBalance(queue) == Count(queue, FlowStarts) - Count(queue, FlowStops)
FlowOf(t) == IF t \in FlowStartTypes THEN 1 ELSE IF t \in FlowEndTypes THEN -1 ELSE 0

LEMMA FlowType ==
  ASSUME NEW queue \in Seq(TokenSet)
  PROVE  FlowBalance(queue) \in Int
<1>1. Count(queue, FlowStarts) \in Nat /\ Count(queue, FlowStops) \in Nat
  BY CountType
<1> QED BY <1>1 DEF FlowBalance

LEMMA FlowConcat ==
  ASSUME NEW queue \in Seq(TokenSet), NEW more \in Seq(TokenSet)
  PROVE  /\ queue \o more \in Seq(TokenSet)
         /\ FlowBalance(queue \o more) = FlowBalance(queue) + FlowBalance(more)
<1>1. /\ queue \o more \in Seq(TokenSet)
      /\ Count(queue \o more, FlowStarts) = Count(queue, FlowStarts) + Count(more, FlowStarts)
      /\ Count(queue \o more, FlowStops) = Count(queue, FlowStops) + Count(more, FlowStops)
  BY CountConcat
<1>2. /\ Count(queue, FlowStarts) \in Nat /\ Count(queue, FlowStops) \in Nat
      /\ Count(more, FlowStarts) \in Nat /\ Count(more, FlowStops) \in Nat
  BY CountType
<1> QED BY <1>1, <1>2 DEF FlowBalance

LEMMA FlowOne ==
  ASSUME NEW t \in TokenSet
  PROVE  <<t>> \in Seq(TokenSet) /\ FlowBalance(<<t>>) = FlowOf(t.type) /\ FlowOf(t.type) \in Int
<1>1. <<t>> \in Seq(TokenSet)
  OBVIOUS
<1>2. (t \in FlowStarts <=> t.type \in FlowStartTypes) /\ (t \in FlowStops <=> t.type \in FlowEndTypes)
  BY DEF FlowStarts, FlowStops
<1>3. /\ Count(<<t>>, FlowStarts) = (IF t \in FlowStarts THEN 1 ELSE 0)
      /\ Count(<<t>>, FlowStops) = (IF t \in FlowStops THEN 1 ELSE 0)
  BY CountOne
<1>4. FlowBalance(<<t>>) = FlowOf(t.type)
  BY <1>2, <1>3 DEF FlowBalance, FlowOf, FlowStartTypes, FlowEndTypes
<1> QED BY <1>1, <1>4 DEF FlowOf

\* Tokens that are no start or end of a flow collection.
LEMMA FlowNone ==
  ASSUME NEW queue \in Seq(TokenSet), \A i \in DOMAIN queue : FlowOf(queue[i].type) = 0
  PROVE  FlowBalance(queue) = 0
<1>1. \A i \in DOMAIN queue : queue[i] \notin FlowStarts /\ queue[i] \notin FlowStops
  BY DEF FlowStarts, FlowStops, FlowOf, FlowStartTypes, FlowEndTypes
<1>2. {i \in DOMAIN queue : queue[i] \in FlowStarts} = {}
      /\ {i \in DOMAIN queue : queue[i] \in FlowStops} = {}
  BY <1>1
<1>3. Count(queue, FlowStarts) = 0 /\ Count(queue, FlowStops) = 0
  BY <1>2, FS_EmptySet DEF Count
<1> QED BY <1>3 DEF FlowBalance

\* The tokens ahead of one, and where two sequences are joined.
Ahead(queue, i) == SubSeq(queue, 1, i - 1)

LEMMA AheadIs ==
  ASSUME NEW queue \in Seq(TokenSet), NEW i \in DOMAIN queue
  PROVE  /\ Ahead(queue, i) \in Seq(TokenSet) /\ Len(Ahead(queue, i)) = i - 1
         /\ \A j \in 1..(i - 1) : Ahead(queue, i)[j] = queue[j]
<1> DEFINE n == i - 1
<1>1. n \in Nat /\ \A j \in 1..n : queue[j] \in TokenSet
  OBVIOUS
<1> HIDE DEF n
<1>2. /\ SubSeq(queue, 1, n) \in Seq(TokenSet) /\ Len(SubSeq(queue, 1, n)) = n
      /\ \A j \in 1..n : SubSeq(queue, 1, n)[j] = queue[j]
  BY <1>1, SubSeqProperties
<1> QED BY <1>2 DEF Ahead, n

LEMMA Joined ==
  ASSUME NEW a \in Seq(TokenSet), NEW b \in Seq(TokenSet)
  PROVE  /\ a \o b \in Seq(TokenSet) /\ Len(a \o b) = Len(a) + Len(b)
         /\ Len(a) \in Nat /\ Len(b) \in Nat
         /\ DOMAIN a = 1..Len(a) /\ DOMAIN b = 1..Len(b) /\ DOMAIN (a \o b) = 1..(Len(a) + Len(b))
         /\ \A i \in 1..Len(a) : (a \o b)[i] = a[i]
         /\ \A i \in 1..Len(b) : (a \o b)[Len(a) + i] = b[i]
<1>1. /\ a \o b \in Seq(TokenSet) /\ Len(a \o b) = Len(a) + Len(b)
      /\ \A i \in 1..(Len(a) + Len(b)) : (a \o b)[i] = IF i <= Len(a) THEN a[i] ELSE b[i - Len(a)]
  BY ConcatProperties
<1>2. Len(a) \in Nat /\ Len(b) \in Nat /\ DOMAIN a = 1..Len(a) /\ DOMAIN b = 1..Len(b)
      /\ DOMAIN (a \o b) = 1..Len(a \o b)
  BY <1>1
<1> DEFINE c == a \o b
           m == Len(a)
           n == Len(b)
<1> HIDE DEF c, m, n
<1>3. \A i \in 1..m : c[i] = a[i]
  <2>1. \A i \in 1..m : i \in 1..(m + n) /\ i <= m
    BY <1>2 DEF m, n
  <2> QED BY <1>1, <2>1 DEF c, m, n
<1>4. \A i \in 1..n : c[m + i] = b[i]
  <2>1. \A i \in 1..n : m + i \in 1..(m + n) /\ ~(m + i <= m) /\ m + i - m = i
    BY <1>2 DEF m, n
  <2> QED BY <1>1, <2>1 DEF c, m, n
<1> QED BY <1>1, <1>2, <1>3, <1>4 DEF c, m, n

LEMMA AheadInFront ==
  ASSUME NEW a \in Seq(TokenSet), NEW b \in Seq(TokenSet), NEW i \in DOMAIN a
  PROVE  Ahead(a \o b, i) = Ahead(a, i)
<1> DEFINE c == a \o b
<1>1. /\ c \in Seq(TokenSet) /\ i \in DOMAIN c /\ i \in Nat /\ i <= Len(a)
      /\ \A j \in 1..Len(a) : c[j] = a[j]
  BY Joined
<1> HIDE DEF c
<1>2. /\ Ahead(c, i) \in Seq(TokenSet) /\ Ahead(a, i) \in Seq(TokenSet)
      /\ Len(Ahead(c, i)) = i - 1 /\ Len(Ahead(a, i)) = i - 1
      /\ \A j \in 1..(i - 1) : Ahead(c, i)[j] = c[j] /\ Ahead(a, i)[j] = a[j]
  BY <1>1, AheadIs
<1>3. \A j \in 1..(i - 1) : j \in 1..Len(a)
  BY <1>1
<1>4. \A j \in 1..Len(Ahead(c, i)) : Ahead(c, i)[j] = Ahead(a, i)[j]
  BY <1>1, <1>2, <1>3
<1> QED BY <1>2, <1>4, SeqEqual DEF c

LEMMA AheadBehind ==
  ASSUME NEW a \in Seq(TokenSet), NEW b \in Seq(TokenSet), NEW i \in DOMAIN b
  PROVE  /\ Ahead(a \o b, Len(a) + i) = a \o Ahead(b, i)
         /\ FlowBalance(Ahead(a \o b, Len(a) + i)) = FlowBalance(a) + FlowBalance(Ahead(b, i))
<1> DEFINE c == a \o b
           m == Len(a)
           k == m + i
           p == Ahead(b, i)
<1>1. /\ c \in Seq(TokenSet) /\ m \in Nat /\ i \in Nat \ {0} /\ i <= Len(b) /\ Len(b) \in Nat
      /\ k \in DOMAIN c
      /\ \A j \in 1..m : c[j] = a[j]
      /\ \A j \in 1..Len(b) : c[m + j] = b[j]
  <2>1. /\ c \in Seq(TokenSet) /\ m \in Nat /\ Len(b) \in Nat /\ i \in 1..Len(b)
        /\ DOMAIN c = 1..(m + Len(b))
        /\ \A j \in 1..m : c[j] = a[j]
        /\ \A j \in 1..Len(b) : c[m + j] = b[j]
    BY Joined
  <2>2. k \in 1..(m + Len(b))
    BY <2>1
  <2> HIDE DEF c, m
  <2> QED BY <2>1, <2>2
<1> HIDE DEF c
<1>2. /\ p \in Seq(TokenSet) /\ Len(p) = i - 1
      /\ \A j \in 1..(i - 1) : p[j] = b[j]
  BY AheadIs
<1>3. /\ Ahead(c, k) \in Seq(TokenSet) /\ Len(Ahead(c, k)) = k - 1
      /\ \A j \in 1..(k - 1) : Ahead(c, k)[j] = c[j]
  <2> HIDE DEF k
  <2> QED BY <1>1, AheadIs
<1> HIDE DEF p
<1>4. /\ a \o p \in Seq(TokenSet) /\ Len(a \o p) = m + Len(p)
      /\ \A j \in 1..m : (a \o p)[j] = a[j]
      /\ \A j \in 1..Len(p) : (a \o p)[m + j] = p[j]
  BY <1>2, Joined
<1> DEFINE r == a \o p
<1> HIDE DEF r, m
<1>5. \A j \in 1..(k - 1) : j \in 1..m \/ (j - m \in 1..(i - 1) /\ m + (j - m) = j /\ j - m \in 1..Len(b))
  BY <1>1
<1>6. Len(r) = k - 1
  BY <1>1, <1>2, <1>4 DEF r
<1>7. ASSUME NEW j \in 1..(k - 1) PROVE Ahead(c, k)[j] = r[j]
  <2>1. CASE j \in 1..m
    BY <1>1, <1>3, <1>4, <2>1 DEF r
  <2>2. CASE j - m \in 1..(i - 1) /\ m + (j - m) = j /\ j - m \in 1..Len(b)
    <3>1. c[j] = b[j - m]
      BY <1>1, <2>2
    <3>2. r[j] = p[j - m]
      BY <1>2, <1>4, <2>2 DEF r
    <3> QED BY <1>2, <1>3, <2>2, <3>1, <3>2
  <2> QED BY <1>5, <2>1, <2>2
<1>8. Ahead(c, k) = r
  <2> HIDE DEF k
  <2> QED BY <1>3, <1>4, <1>6, <1>7, SeqEqual DEF r
<1>9. FlowBalance(r) = FlowBalance(a) + FlowBalance(p)
  BY <1>2, FlowConcat DEF r
<1> QED BY <1>8, <1>9 DEF c, k, m, p, r

\* What the parser is to refuse when it comes to it: a flow collection ends that
\* did not begin, `-' in a flow collection, `:' right after the start of a block
\* mapping.
Bad(queue, i, level) ==
  \/ queue[i].type \in FlowEndTypes /\ level + FlowBalance(Ahead(queue, i)) <= 0
  \/ queue[i].type = "BlockEntry" /\ level + FlowBalance(Ahead(queue, i)) > 0
  \/ i > 1 /\ queue[i].type = "Value" /\ queue[i - 1].type = "BlockMappingStart"
Doomed(queue, level) == \E i \in DOMAIN queue : Bad(queue, i, level)
NoKeyBetween(a, b) ==
  /\ a # <<>> /\ b # <<>>
  /\ a[Len(a)].type = "BlockMappingStart" /\ b[1].type = "Value"

LEMMA DoomJoined ==
  ASSUME NEW a \in Seq(TokenSet), NEW b \in Seq(TokenSet), NEW level \in Int
  PROVE  Doomed(a \o b, level) <=>
           Doomed(a, level) \/ Doomed(b, level + FlowBalance(a)) \/ NoKeyBetween(a, b)
<1> DEFINE c == a \o b
           m == Len(a)
           n == Len(b)
           above == level + FlowBalance(a)
<1>1. /\ c \in Seq(TokenSet) /\ m \in Nat /\ n \in Nat
      /\ DOMAIN a = 1..m /\ DOMAIN b = 1..n /\ DOMAIN c = 1..(m + n)
      /\ \A i \in 1..m : c[i] = a[i]
      /\ \A i \in 1..n : c[m + i] = b[i]
  BY Joined
<1>2. FlowBalance(a) \in Int /\ above \in Int
  BY FlowType
<1>3. /\ a # <<>> <=> m > 0
      /\ b # <<>> <=> n > 0
  BY <1>1
<1>4. \A i \in 1..m : Ahead(c, i) = Ahead(a, i)
  BY <1>1, AheadInFront
<1>5. \A i \in 1..n : /\ FlowBalance(Ahead(c, m + i)) = FlowBalance(a) + FlowBalance(Ahead(b, i))
                      /\ FlowBalance(Ahead(b, i)) \in Int
  BY <1>1, AheadBehind, AheadIs, FlowType
<1> HIDE DEF c, m, n, above
<1>6. ASSUME NEW i \in 1..m
      PROVE  Bad(c, i, level) <=> Bad(a, i, level)
  <2>1. c[i] = a[i] /\ Ahead(c, i) = Ahead(a, i)
    BY <1>1, <1>4
  <2>2. i > 1 => c[i - 1] = a[i - 1]
    <3>1. i > 1 => i - 1 \in 1..m
      BY <1>1
    <3> QED BY <1>1, <3>1
  <2> QED BY <2>1, <2>2 DEF Bad
<1>7. ASSUME NEW i \in 1..n
      PROVE  Bad(c, m + i, level) <=> Bad(b, i, above) \/ (i = 1 /\ NoKeyBetween(a, b))
  <2>1. /\ c[m + i] = b[i] /\ i \in Nat \ {0} /\ m \in Nat
        /\ level + FlowBalance(Ahead(c, m + i)) = above + FlowBalance(Ahead(b, i))
    BY <1>1, <1>2, <1>5 DEF above
  <2>2. CASE i = 1
    <3>1. ~(i > 1) /\ (m + i > 1 <=> m > 0) /\ m + i - 1 = m /\ n > 0
      BY <2>1, <2>2, <1>1
    <3>2. m > 0 => c[m] = a[m]
      <4>1. m > 0 => m \in 1..m
        BY <1>1
      <4> QED BY <1>1, <4>1
    <3>3. NoKeyBetween(a, b) <=>
            m > 0 /\ a[m].type = "BlockMappingStart" /\ b[1].type = "Value"
      BY <1>3, <3>1 DEF NoKeyBetween, m
    <3> QED BY <2>1, <2>2, <3>1, <3>2, <3>3 DEF Bad
  <2>3. CASE i # 1
    <3>1. i > 1 /\ m + i > 1 /\ i - 1 \in 1..n /\ m + (i - 1) = m + i - 1
      BY <2>1, <2>3, <1>1
    <3>2. c[m + i - 1] = b[i - 1]
      BY <1>1, <3>1
    <3> QED BY <2>1, <2>3, <3>1, <3>2 DEF Bad
  <2> QED BY <2>2, <2>3
<1>8. ASSUME Doomed(c, level)
      PROVE  Doomed(a, level) \/ Doomed(b, above) \/ NoKeyBetween(a, b)
  <2>1. PICK i \in 1..(m + n) : Bad(c, i, level)
    BY <1>1, <1>8 DEF Doomed
  <2>2. CASE i \in 1..m
    BY <1>1, <1>6, <2>1, <2>2 DEF Doomed
  <2>3. CASE i \notin 1..m
    <3>1. i - m \in 1..n /\ m + (i - m) = i
      BY <1>1, <2>3
    <3>2. Bad(b, i - m, above) \/ NoKeyBetween(a, b)
      <4> DEFINE k == i - m
      <4>1. k \in 1..n /\ Bad(c, m + k, level)
        BY <2>1, <3>1
      <4> HIDE DEF k
      <4>2. Bad(b, k, above) \/ NoKeyBetween(a, b)
        BY <1>7, <4>1
      <4> QED BY <4>2 DEF k
    <3> QED BY <1>1, <3>1, <3>2 DEF Doomed
  <2> QED BY <2>2, <2>3
<1>9. ASSUME Doomed(a, level) \/ Doomed(b, above) \/ NoKeyBetween(a, b)
      PROVE  Doomed(c, level)
  <2>1. CASE Doomed(a, level)
    <3>1. PICK i \in 1..m : Bad(a, i, level)
      BY <1>1, <2>1 DEF Doomed
    <3>2. i \in 1..(m + n)
      BY <1>1
    <3> QED BY <1>1, <1>6, <3>1, <3>2 DEF Doomed
  <2>2. CASE Doomed(b, above)
    <3>1. PICK i \in 1..n : Bad(b, i, above)
      BY <1>1, <2>2 DEF Doomed
    <3>2. m + i \in 1..(m + n)
      BY <1>1
    <3> QED BY <1>1, <1>7, <3>1, <3>2 DEF Doomed
  <2>3. CASE NoKeyBetween(a, b)
    <3>1. 1 \in 1..n /\ m + 1 \in 1..(m + n)
      BY <1>1, <1>3, <2>3 DEF NoKeyBetween
    <3>2. Bad(c, m + 1, level)
      BY <1>7, <2>3, <3>1
    <3> QED BY <1>1, <3>1, <3>2 DEF Doomed
  <2> QED BY <1>9, <2>1, <2>2, <2>3
<1> QED BY <1>8, <1>9 DEF c, above

LEMMA DoomOfOne ==
  ASSUME NEW t \in TokenSet, NEW level \in Int
  PROVE  /\ Doomed(<<t>>, level) <=>
              (t.type \in FlowEndTypes /\ level <= 0) \/ (t.type = "BlockEntry" /\ level > 0)
         /\ ~Doomed(<<>>, level)
<1> DEFINE one == <<t>>
<1>1. /\ one \in Seq(TokenSet) /\ DOMAIN one = {1} /\ one[1] = t
      /\ DOMAIN <<>> = {}
  OBVIOUS
<1> HIDE DEF one
<1>2. Ahead(one, 1) \in Seq(TokenSet) /\ Len(Ahead(one, 1)) = 0
  <2>1. 1 \in DOMAIN one /\ 1 - 1 = 0
    BY <1>1
  <2> QED BY <1>1, <2>1, AheadIs
<1>3. FlowBalance(Ahead(one, 1)) = 0
  <2> DEFINE p == Ahead(one, 1)
  <2>1. p \in Seq(TokenSet) /\ DOMAIN p = {}
    BY <1>2
  <2> HIDE DEF p
  <2>2. FlowBalance(p) = 0
    BY <2>1, FlowNone
  <2> QED BY <2>2 DEF p
<1>4. Bad(one, 1, level) <=>
        (t.type \in FlowEndTypes /\ level <= 0) \/ (t.type = "BlockEntry" /\ level > 0)
  BY <1>1, <1>3 DEF Bad
<1>5. Doomed(one, level) <=> Bad(one, 1, level)
  BY <1>1 DEF Doomed
<1>6. ~Doomed(<<>>, level)
  BY <1>1 DEF Doomed
<1> QED BY <1>4, <1>5, <1>6 DEF one

\* fetch_value() inserts nothing before a `:'.
LEMMA DoomInserted ==
  ASSUME NEW a \in Seq(TokenSet), NEW b \in Seq(TokenSet), NEW ins \in Seq(TokenSet),
         FlowBalance(ins) = 0, ins # <<>> /\ b # <<>> => b[1].type # "Value",
         NEW level \in Int, Doomed(a \o b, level)
  PROVE  Doomed(a \o ins \o b, level)
<1>1. CASE ins = <<>>
  <2>1. a \o <<>> = a
    OBVIOUS
  <2> QED BY <1>1, <2>1
<1>2. CASE ins # <<>>
  <2>1. FlowBalance(a) \in Int
    BY FlowType
  <2>2. a \o ins \in Seq(TokenSet) /\ FlowBalance(a \o ins) = FlowBalance(a)
    BY <2>1, FlowConcat
  <2>3. Doomed(a, level) \/ Doomed(b, level + FlowBalance(a))
    <3>1. ~NoKeyBetween(a, b)
      BY <1>2 DEF NoKeyBetween
    <3> QED BY <3>1, DoomJoined
  <2>4. Doomed(a, level) => Doomed(a \o ins, level)
    BY DoomJoined
  <2> DEFINE p == a \o ins
  <2> HIDE DEF p
  <2>5. Doomed(p, level) \/ Doomed(b, level + FlowBalance(p))
    BY <2>2, <2>3, <2>4 DEF p
  <2>6. Doomed(p \o b, level)
    BY <2>2, <2>5, DoomJoined DEF p
  <2> QED BY <2>6 DEF p
<1> QED BY <1>1, <1>2

-----------------------------------------------------------------------------
\* What fetching does to the queue: one token t goes to its end, and what a block
\* collection or a key needs goes between a and b.
Fetching(x, a, ins, b, t) ==
  /\ Queue(x) = a \o b /\ tokens' = a \o ins \o b \o <<t>>
  /\ \A i \in DOMAIN ins : ins[i].type \in {"BlockSequenceStart", "BlockMappingStart", "Key"}
  /\ ins # <<>> /\ b # <<>> => b[1].type \in Range(KeyStarts)
  /\ flow_level' = flow_level + FlowOf(t.type)
  /\ t.type = "StreamEnd" => done'
  /\ last' = "-" /\ ~InBlock => t.type = "BlockEntry"
Fetched(x) ==
  \E a, ins, b \in Seq(TokenSet), t \in TokenSet : Fetching(x, a, ins, b, t)

LEMMA OneMore ==
  ASSUME ScanTypes, NEW x, x.column \in Nat, NEW t \in Tokens, NEW c \in Int,
         t = "StreamEnd" => x.ch = "end", x.ch # "-",
         NEW keys, NEW allow, NEW flow, flow = flow_level + FlowOf(t),
         Leave(x, Append(Queue(x), Token(t, c)), Indents(x), keys, allow, flow)
  PROVE  Fetched(x)
<1> DEFINE queue == Queue(x)
           e == Token(t, c)
<1>1. queue \in Seq(TokenSet) /\ e \in TokenSet /\ e.type = t
  BY Queued, TokenType
<1>2. /\ tokens' = Append(queue, e) /\ flow_level' = flow /\ (t = "StreamEnd" => done')
      /\ last' # "-"
  BY DEF Leave
<1>3. queue = Queue(x)
  OBVIOUS
<1> HIDE DEF queue, e
<1>4. /\ queue \o <<>> = queue /\ queue \o <<>> \o <<>> \o <<e>> = Append(queue, e)
      /\ <<>> \in Seq(TokenSet)
  BY <1>1
<1>5. Fetching(x, queue, <<>>, <<>>, e)
  BY <1>1, <1>2, <1>3, <1>4 DEF Fetching
<1> QED BY <1>1, <1>4, <1>5 DEF Fetched

LEMMA KeyStartShape ==
  ASSUME KeyInv, Scanning, NEW x, x.column \in Nat, FetchKeyStart(x)
  PROVE  ~Scanning' \/ Fetched(x)
<1> DEFINE t == KeyStarts[x.ch]
           c == x.column
           flow == IF x.ch \in {"[", "{"} THEN flow_level + 1 ELSE flow_level
<1>1. ScanTypes /\ flow_level \in Int
  BY DEF KeyInv, ScanTypes
<1>2. \/ Raise("assert") \/ Raise("no value")
      \/ \E keys, allow :
           Leave(x, Append(Queue(x), Token(t, c)), Indents(x), keys, allow, flow)
  BY DEF FetchKeyStart
<1>3. x.ch \in DOMAIN KeyStarts /\ x.ch # "-"
  BY DEF FetchKeyStart, KeyStarts
<1>4. t \in Tokens /\ t # "StreamEnd" /\ flow = flow_level + FlowOf(t)
  <2>1. t \in Range(KeyStarts)
    BY <1>3, KeyTable
  <2>2. FlowOf(t) = IF x.ch \in {"[", "{"} THEN 1 ELSE 0
    BY <1>3 DEF KeyStarts, FlowOf, FlowStartTypes, FlowEndTypes
  <2> HIDE DEF t
  <2>3. t \in Tokens /\ t # "StreamEnd"
    BY <2>1, KeyTable
  <2>4. CASE x.ch \in {"[", "{"}
    <3>1. FlowOf(t) = 1 /\ flow = flow_level + 1
      BY <2>2, <2>4
    <3> QED BY <2>3, <3>1
  <2>5. CASE x.ch \notin {"[", "{"}
    <3>1. FlowOf(t) = 0 /\ flow = flow_level
      BY <2>2, <2>5
    <3>2. flow_level + 0 = flow_level
      BY <1>1
    <3> QED BY <2>3, <3>1, <3>2
  <2> QED BY <2>4, <2>5
<1>5. c \in Int
  OBVIOUS
<1> HIDE DEF t, c, flow
<1>6. CASE Raise("assert") \/ Raise("no value")
  BY <1>6 DEF Raise, Scanning
<1> QED BY <1>1, <1>2, <1>3, <1>4, <1>5, <1>6, OneMore

LEMMA OneShape ==
  ASSUME KeyInv, Scanning, NEW x, x.column \in Nat,
         \/ FetchFlowEnd(x) \/ FetchFlowEntry(x) \/ FetchBlockScalar(x) \/ FetchMarker(x)
         \/ FetchStreamEnd(x)
  PROVE  ~Scanning' \/ Fetched(x)
<1>1. ScanTypes /\ flow_level \in Int /\ x.column \in Int /\ 0 \in Int
  BY DEF KeyInv, ScanTypes
<1>2. ASSUME NEW t \in Tokens, NEW c \in Int, t = "StreamEnd" => x.ch = "end", x.ch # "-",
             NEW keys, NEW allow, NEW flow, flow = flow_level + FlowOf(t),
             Leave(x, Append(Queue(x), Token(t, c)), Indents(x), keys, allow, flow)
      PROVE  Fetched(x)
  BY <1>1, <1>2, OneMore
<1>3. Raise("no value") => ~Scanning'
  BY DEF Raise, Scanning
<1>4. CASE FetchFlowEnd(x)
  <2>1. x.ch \in {"]", "}"} /\ x.ch # "-"
    BY <1>4 DEF FetchFlowEnd, FlowEnds
  <2>2. FlowEnds[x.ch] \in FlowEndTypes
    BY <2>1 DEF FlowEnds, FlowEndTypes
  <2>3. /\ FlowEnds[x.ch] \in Tokens /\ FlowEnds[x.ch] # "StreamEnd"
        /\ flow_level - 1 = flow_level + FlowOf(FlowEnds[x.ch])
    BY <1>1, <2>2 DEF Tokens, FlowOf, FlowEndTypes, FlowStartTypes
  <2>4. \/ Raise("no value")
        \/ Leave(x, Append(Queue(x), Token(FlowEnds[x.ch], x.column)), Indents(x), Dropped(x),
                 FALSE, flow_level - 1)
    BY <1>4 DEF FetchFlowEnd
  <2> QED BY <1>1, <1>2, <1>3, <2>1, <2>3, <2>4
<1>5. ASSUME NEW t \in Tokens, FlowOf(t) = 0, NEW c \in Int, t = "StreamEnd" => x.ch = "end",
             x.ch # "-", NEW keys, NEW allow,
             \/ Raise("no value")
             \/ Leave(x, Append(Queue(x), Token(t, c)), Indents(x), keys, allow, flow_level)
      PROVE  ~Scanning' \/ Fetched(x)
  <2>1. flow_level + 0 = flow_level
    BY <1>1
  <2>2. flow_level = flow_level + FlowOf(t)
    BY <1>5, <2>1
  <2> QED BY <1>2, <1>3, <1>5, <2>2
<1>6. CASE FetchFlowEntry(x)
  <2>1. /\ x.ch # "-" /\ "FlowEntry" \in Tokens /\ "FlowEntry" # "StreamEnd"
        /\ FlowOf("FlowEntry") = 0
    BY <1>6 DEF FetchFlowEntry, Tokens, FlowOf, FlowStartTypes, FlowEndTypes
  <2>2. \/ Raise("no value")
        \/ Leave(x, Append(Queue(x), Token("FlowEntry", x.column)), Indents(x), Dropped(x),
                 TRUE, flow_level)
    BY <1>6 DEF FetchFlowEntry
  <2> QED BY <1>1, <1>5, <2>1, <2>2
<1>7. CASE FetchBlockScalar(x)
  <2>1. /\ x.ch # "-" /\ "Scalar" \in Tokens /\ "Scalar" # "StreamEnd" /\ FlowOf("Scalar") = 0
    BY <1>7 DEF FetchBlockScalar, Tokens, FlowOf, FlowStartTypes, FlowEndTypes
  <2>2. \/ Raise("no value")
        \/ Leave(x, Append(Queue(x), Token("Scalar", x.column)), Indents(x), Dropped(x),
                 TRUE, flow_level)
    BY <1>7 DEF FetchBlockScalar
  <2> QED BY <1>1, <1>5, <2>1, <2>2
<1>8. CASE FetchMarker(x)
  <2>1. x.ch \in {"%YAML", "%TAG", "---", "..."} /\ x.ch # "-"
    BY <1>8 DEF FetchMarker, Markers
  <2>2. Markers[x.ch] \in {"YAML", "TAG", "DocumentStart", "DocumentEnd"}
    BY <2>1 DEF Markers
  <2>3. Markers[x.ch] \in Tokens /\ Markers[x.ch] # "StreamEnd" /\ FlowOf(Markers[x.ch]) = 0
    BY <2>2 DEF Tokens, FlowOf, FlowStartTypes, FlowEndTypes, Directives
  <2>4. \/ Raise("no value")
        \/ Leave(x, Append(Queue(x), Token(Markers[x.ch], 0)), Indents(x), Dropped(x),
                 FALSE, flow_level)
    BY <1>8 DEF FetchMarker
  <2> QED BY <1>1, <1>5, <2>1, <2>3, <2>4
<1>9. CASE FetchStreamEnd(x)
  <2>1. x.ch # "-" /\ x.ch = "end" /\ "StreamEnd" \in Tokens /\ FlowOf("StreamEnd") = 0
    BY <1>9 DEF FetchStreamEnd, Tokens, FlowOf, FlowStartTypes, FlowEndTypes
  <2>2. \/ Raise("no value")
        \/ Leave(x, Append(Queue(x), Token("StreamEnd", x.column)), Indents(x), <<>>,
                 FALSE, flow_level)
    BY <1>9 DEF FetchStreamEnd
  <2> QED BY <1>1, <1>5, <2>1, <2>2
<1> QED BY <1>4, <1>6, <1>7, <1>8, <1>9

LEMMA IndicatorShape ==
  ASSUME KeyInv, Scanning, NEW x, x.column \in Nat, FetchIndicator(x)
  PROVE  ~Scanning' \/ Fetched(x)
<1> DEFINE start == Starter(x, x.column, BlockStart[x.ch])
           e == Token(BlockToken[x.ch], x.column)
           queue == Queue(x)
<1>1. ScanTypes /\ flow_level \in Int /\ x.column \in Int
  BY DEF KeyInv, ScanTypes
<1>2. x.ch \in {"-", "?", ":"}
  BY DEF FetchIndicator
<1>3. /\ BlockStart[x.ch] \in {"BlockSequenceStart", "BlockMappingStart"}
      /\ BlockToken[x.ch] \in {"BlockEntry", "Key", "Value"}
      /\ x.ch = "-" => BlockToken[x.ch] = "BlockEntry"
  BY <1>2 DEF BlockStart, BlockToken
<1>4. /\ BlockStart[x.ch] \in Tokens /\ BalanceOf(BlockStart[x.ch]) = 1
      /\ BlockToken[x.ch] \in Tokens
      /\ FlowOf(BlockToken[x.ch]) = 0 /\ BlockToken[x.ch] # "StreamEnd"
  BY <1>3 DEF Tokens, BalanceOf, FlowOf, FlowStartTypes, FlowEndTypes
<1>5. start \in Seq(TokenSet) /\ queue \in Seq(TokenSet)
  BY <1>1, <1>4, BlockStarted, Queued
<1>6. \A i \in DOMAIN start :
        start[i].type \in {"BlockSequenceStart", "BlockMappingStart", "Key"}
  <2> DEFINE s == Token(BlockStart[x.ch], x.column)
  <2>1. s.type \in {"BlockSequenceStart", "BlockMappingStart", "Key"}
    BY <1>1, <1>3, <1>4, TokenType
  <2>2. start = <<>> \/ start = <<s>>
    BY DEF Starter
  <2> HIDE DEF s, start
  <2> QED BY <2>1, <2>2
<1>7. e \in TokenSet /\ e.type = BlockToken[x.ch]
  BY <1>1, <1>4, TokenType
<1>8. \/ Raise("not allowed here") \/ Raise("no value")
      \/ \E ind, keys, allow : Leave(x, queue \o start \o <<e>>, ind, keys, allow, flow_level)
  BY DEF FetchIndicator, Indented, Starter
<1>9. queue = Queue(x)
  OBVIOUS
<1> HIDE DEF start, e, queue
<1>10. CASE Raise("not allowed here") \/ Raise("no value")
  BY <1>10 DEF Raise, Scanning
<1>11. ASSUME NEW ind, NEW keys, NEW allow,
              Leave(x, queue \o start \o <<e>>, ind, keys, allow, flow_level)
       PROVE  Fetched(x)
  <2>1. /\ tokens' = queue \o start \o <<e>> /\ flow_level' = flow_level
        /\ last' = "-" => x.ch = "-"
    BY <1>11 DEF Leave
  <2>2. /\ queue \o <<>> = queue /\ <<>> \in Seq(TokenSet)
        /\ queue \o start \o <<>> = queue \o start
    BY <1>5
  <2>3. flow_level' = flow_level + FlowOf(e.type)
    <3>1. flow_level + 0 = flow_level
      BY <1>1
    <3> QED BY <1>4, <1>7, <2>1, <3>1
  <2>4. Fetching(x, queue, start, <<>>, e)
    BY <1>3, <1>4, <1>6, <1>7, <1>9, <2>1, <2>2, <2>3 DEF Fetching
  <2> QED BY <1>5, <1>7, <2>2, <2>4 DEF Fetched
<1> QED BY <1>8, <1>10, <1>11

LEMMA TokenConcat == \A p, q, r \in Seq(TokenSet) : (p \o q) \o r = p \o (q \o r)
BY ConcatAssociative

LEMMA ValueShape ==
  ASSUME KeyInv, Scanning, NEW x, x.column \in Nat, FetchValue(x)
  PROVE  Fetched(x)
<1> DEFINE key == Keys(x)[flow_level]
           ind == Indented(x, key.column)
           start == Starter(x, key.column, "BlockMappingStart")
           k == Token("Key", key.column)
           v == Token("Value", x.column)
           queue == Queue(x)
           n == key.number
           front == SubSeq(queue, 1, n)
           back == SubSeq(queue, n + 1, Len(queue))
           ins == start \o <<k>>
<1>1. ScanTypes /\ flow_level \in Int /\ x.column \in Int
  BY DEF KeyInv, ScanTypes
<1>2. /\ x.ch = ":" /\ flow_level \in DOMAIN Keys(x)
      /\ Leave(x, front \o start \o <<k>> \o back \o <<v>>, ind, Dropped(x), FALSE, flow_level)
  BY DEF FetchValue, Indented, Starter
<1>3. queue \in Seq(TokenSet) /\ KeysOK(Keys(x), queue, flow_level)
  BY <1>1, Queued, KeysHere
<1>4. n \in Nat /\ n < Len(queue) /\ front \in Seq(TokenSet) /\ back \in Seq(TokenSet)
  <2> HIDE DEF queue
  <2> QED BY <1>2, <1>3, KeysBefore
<1>5. key.column \in Int /\ queue[n + 1].type \in Range(KeyStarts)
  <2> HIDE DEF queue
  <2> QED BY <1>2, <1>3 DEF KeysOK, KeySet
<1>6. front \o back = queue /\ back[1] = queue[n + 1]
  <2> HIDE DEF queue, n
  <2>1. n <= Len(queue)
    BY <1>3, <1>4
  <2> QED BY <1>3, <1>4, <2>1, QueueSplit
<1>7. /\ "BlockMappingStart" \in Tokens /\ BalanceOf("BlockMappingStart") = 1
      /\ "Key" \in Tokens /\ "Value" \in Tokens /\ FlowOf("Value") = 0
  BY DEF Tokens, BalanceOf, FlowOf, FlowStartTypes, FlowEndTypes
<1>8. start \in Seq(TokenSet)
  <2> HIDE DEF key
  <2> QED BY <1>1, <1>5, <1>7, BlockStarted
<1>9. /\ k \in TokenSet /\ k.type = "Key" /\ v \in TokenSet /\ v.type = "Value"
  <2> HIDE DEF key
  <2> QED BY <1>1, <1>5, <1>7, TokenType
<1>10. \A i \in DOMAIN start : start[i].type = "BlockMappingStart"
  <2> DEFINE s == Token("BlockMappingStart", key.column)
  <2>1. s.type = "BlockMappingStart"
    <3> HIDE DEF key
    <3> QED BY <1>5, <1>7, TokenType
  <2>2. start = <<>> \/ start = <<s>>
    BY DEF Starter
  <2> HIDE DEF s, start
  <2> QED BY <2>1, <2>2
<1>11. queue = Queue(x)
  OBVIOUS
<1> HIDE DEF key, ind, start, k, v, queue, n, front, back
<1>12. ins \in Seq(TokenSet) /\ \A i \in DOMAIN ins : ins[i].type \in {"BlockMappingStart", "Key"}
  <2> DEFINE one == <<k>>
  <2>1. one \in Seq(TokenSet) /\ Len(one) = 1 /\ one[1] = k
    BY <1>9
  <2> HIDE DEF one
  <2>2. /\ start \o one \in Seq(TokenSet) /\ Len(start) \in Nat
        /\ DOMAIN (start \o one) = 1..(Len(start) + 1) /\ DOMAIN start = 1..Len(start)
        /\ \A i \in 1..Len(start) : (start \o one)[i] = start[i]
        /\ (start \o one)[Len(start) + 1] = one[1]
    <3> DEFINE both == start \o one
    <3>1. /\ both \in Seq(TokenSet) /\ Len(start) \in Nat
          /\ DOMAIN both = 1..(Len(start) + Len(one)) /\ DOMAIN start = 1..Len(start)
          /\ \A i \in 1..Len(start) : both[i] = start[i]
          /\ \A i \in 1..Len(one) : both[Len(start) + i] = one[i]
      BY <1>8, <2>1, Joined
    <3> HIDE DEF both
    <3>2. 1 \in 1..Len(one)
      BY <2>1
    <3>3. both[Len(start) + 1] = one[1] /\ DOMAIN both = 1..(Len(start) + 1)
      BY <2>1, <3>1, <3>2
    <3> QED BY <3>1, <3>3 DEF both
  <2>3. \A i \in 1..(Len(start) + 1) : i \in 1..Len(start) \/ i = Len(start) + 1
    BY <2>2
  <2>4. \A i \in DOMAIN (start \o one) : (start \o one)[i].type \in {"BlockMappingStart", "Key"}
    BY <1>9, <1>10, <2>1, <2>2, <2>3
  <2> QED BY <2>2, <2>4 DEF one
<1>13. front \o ins = front \o start \o <<k>>
  <2> DEFINE one == <<k>>
  <2>1. one \in Seq(TokenSet)
    BY <1>9
  <2> HIDE DEF one
  <2>2. (front \o start) \o one = front \o (start \o one)
    BY <1>4, <1>8, <2>1, TokenConcat
  <2>3. ins = start \o one
    BY DEF one
  <2> HIDE DEF ins
  <2>4. (front \o start) \o one = front \o ins
    BY <2>2, <2>3
  <2> QED BY <2>4 DEF one
<1> HIDE DEF ins
<1>14. /\ tokens' = front \o ins \o back \o <<v>> /\ flow_level' = flow_level
       /\ last' = "-" => x.ch = "-"
  <2>1. tokens' = front \o start \o <<k>> \o back \o <<v>>
    BY <1>2 DEF Leave
  <2> QED BY <1>2, <1>13, <2>1 DEF Leave
<1>15. flow_level' = flow_level + FlowOf(v.type)
  <2>1. flow_level + 0 = flow_level
    BY <1>1
  <2> QED BY <1>7, <1>9, <1>14, <2>1
<1>16. Fetching(x, front, ins, back, v)
  BY <1>2, <1>5, <1>6, <1>9, <1>11, <1>12, <1>14, <1>15 DEF Fetching
<1> QED BY <1>4, <1>9, <1>12, <1>16 DEF Fetched

LEMMA Shapes ==
  ASSUME KeyInv, FetchAny
  PROVE  ~Scanning' \/ \E x : x.column \in Nat /\ ~done /\ Fetched(x)
<1>1. PICK ch \in Lexemes, nl \in BOOLEAN, col \in 0..MaxColumn :
        \E extent \in Extents(ch, col) : Fetch(Lexeme(ch, nl, col, extent))
  BY DEF FetchAny
<1>2. PICK extent \in Extents(ch, col) : Fetch(Lexeme(ch, nl, col, extent))
  BY <1>1
<1> DEFINE x == Lexeme(ch, nl, col, extent)
<1>3. x.column \in Nat
  BY ScannerAssumption DEF Lexeme
<1>4. Fetch(x)
  BY <1>2
<1> HIDE DEF x
<1>5. ~done /\ Scanning
  BY <1>4, FetchCases DEF Fetch, need_more_tokens
<1>6. Raise("no value") => ~Scanning'
  BY DEF Raise, Scanning
<1>7. CannotStart(x) => ~Scanning'
  BY DEF CannotStart, Raise, Scanning
<1>8. ~Scanning' \/ Fetched(x)
  BY <1>3, <1>4, <1>5, <1>6, <1>7, FetchCases, KeyStartShape, OneShape, IndicatorShape, ValueShape
<1> QED BY <1>3, <1>5, <1>8

-----------------------------------------------------------------------------
\* What is in the queue stays what it is, and where it is, but for what
\* fetch_value() inserts.
Clean(queue) == \A i \in DOMAIN queue : queue[i].type # "StreamEnd"

LEMMA CleanJoined ==
  ASSUME NEW a \in Seq(TokenSet), NEW b \in Seq(TokenSet)
  PROVE  Clean(a \o b) <=> Clean(a) /\ Clean(b)
<1> DEFINE c == a \o b
           m == Len(a)
           n == Len(b)
<1>1. /\ m \in Nat /\ n \in Nat /\ DOMAIN a = 1..m /\ DOMAIN b = 1..n /\ DOMAIN c = 1..(m + n)
      /\ \A i \in 1..m : c[i] = a[i]
      /\ \A i \in 1..n : c[m + i] = b[i]
  BY Joined
<1> HIDE DEF c, m, n
<1>2. Clean(c) => Clean(a)
  <2>1. \A i \in 1..m : i \in 1..(m + n)
    BY <1>1
  <2> QED BY <1>1, <2>1 DEF Clean
<1>3. Clean(c) => Clean(b)
  <2>1. \A i \in 1..n : m + i \in 1..(m + n)
    BY <1>1
  <2> QED BY <1>1, <2>1 DEF Clean
<1>4. ASSUME Clean(a), Clean(b) PROVE Clean(c)
  <2> SUFFICES ASSUME NEW i \in 1..(m + n) PROVE c[i].type # "StreamEnd"
    BY <1>1 DEF Clean
  <2>1. i \in 1..m \/ (i - m \in 1..n /\ m + (i - m) = i)
    BY <1>1
  <2>2. CASE i \in 1..m
    BY <1>1, <1>4, <2>2 DEF Clean
  <2>3. CASE i - m \in 1..n /\ m + (i - m) = i
    <3> DEFINE k == i - m
    <3>1. k \in 1..n /\ c[i] = c[m + k]
      BY <2>3
    <3> HIDE DEF k
    <3>2. c[i] = b[k] /\ k \in DOMAIN b
      BY <1>1, <3>1
    <3> QED BY <1>4, <3>2 DEF Clean
  <2> QED BY <2>1, <2>2, <2>3
<1> QED BY <1>2, <1>3, <1>4 DEF c

LEMMA QueueKeeps ==
  ASSUME ScanTypes, NEW x, x.column \in Nat
  PROVE  /\ tokens \in Seq(TokenSet) /\ Queue(x) \in Seq(TokenSet)
         /\ FlowBalance(Queue(x)) = FlowBalance(tokens)
         /\ \A level \in Int : Doomed(tokens, level) => Doomed(Queue(x), level)
         /\ Clean(tokens) => Clean(Queue(x))
         /\ tokens # <<>> => Queue(x) # <<>> /\ Queue(x)[1] = tokens[1]
<1> DEFINE ends == [i \in 1..Ended(x) |-> Token("BlockEnd", x.column)]
<1>1. /\ tokens \in Seq(TokenSet) /\ ends \in Seq(TokenSet) /\ Queue(x) = tokens \o ends
      /\ Queue(x) \in Seq(TokenSet)
      /\ \A i \in DOMAIN tokens : Queue(x)[i] = tokens[i]
  BY Queued DEF Queue, ScanTypes
<1>2. \A i \in DOMAIN ends : ends[i].type = "BlockEnd"
  BY DEF Token
<1> HIDE DEF ends
<1>3. FlowOf("BlockEnd") = 0 /\ "BlockEnd" # "StreamEnd" /\ "BlockEnd" # "Value"
      /\ "BlockEnd" # "BlockMappingStart"
  BY DEF FlowOf, FlowStartTypes, FlowEndTypes
<1>4. FlowBalance(ends) = 0 /\ Clean(ends)
  <2>1. \A i \in DOMAIN ends : FlowOf(ends[i].type) = 0
    BY <1>2, <1>3
  <2> QED BY <1>1, <1>2, <1>3, <2>1, FlowNone DEF Clean
<1>5. FlowBalance(tokens) \in Int /\ FlowBalance(tokens \o ends) = FlowBalance(tokens)
  <2>1. FlowBalance(tokens) \in Int
    BY <1>1, FlowType
  <2>2. FlowBalance(tokens \o ends) = FlowBalance(tokens) + FlowBalance(ends)
    BY <1>1, FlowConcat
  <2> QED BY <1>4, <2>1, <2>2
<1>6. ASSUME NEW level \in Int, Doomed(tokens, level)
      PROVE  Doomed(tokens \o ends, level)
  BY <1>1, <1>6, DoomJoined
<1>7. Clean(tokens) => Clean(tokens \o ends)
  BY <1>1, <1>4, CleanJoined
<1>8. tokens # <<>> => Queue(x) # <<>> /\ Queue(x)[1] = tokens[1]
  <2>1. tokens # <<>> => 1 \in DOMAIN tokens /\ 1 \in DOMAIN (tokens \o ends)
    <3>1. /\ DOMAIN (tokens \o ends) = 1..(Len(tokens) + Len(ends)) /\ Len(ends) \in Nat
          /\ DOMAIN tokens = 1..Len(tokens) /\ Len(tokens) \in Nat
      BY <1>1, Joined
    <3>2. tokens # <<>> => Len(tokens) > 0
      BY <1>1
    <3> QED BY <3>1, <3>2
  <2>2. tokens # <<>> => Queue(x) # <<>>
    BY <1>1, <2>1
  <2> QED BY <1>1, <2>1, <2>2
<1> QED BY <1>1, <1>5, <1>6, <1>7, <1>8

LEMMA FetchingKeeps ==
  ASSUME ScanTypes, NEW x, x.column \in Nat,
         NEW a \in Seq(TokenSet), NEW ins \in Seq(TokenSet), NEW b \in Seq(TokenSet),
         NEW t \in TokenSet, Fetching(x, a, ins, b, t)
  PROVE  \E base \in Seq(TokenSet) :
           /\ tokens' = base \o <<t>>
           /\ FlowBalance(base) = FlowBalance(tokens)
           /\ \A level \in Int : Doomed(tokens, level) => Doomed(base, level)
           /\ Clean(tokens) => Clean(base)
           /\ (tokens # <<>> /\ tokens[1].type = "Value") =>
                base # <<>> /\ base[1].type = "Value"
<1>1. /\ Queue(x) = a \o b /\ tokens' = a \o ins \o b \o <<t>>
      /\ \A i \in DOMAIN ins : ins[i].type \in {"BlockSequenceStart", "BlockMappingStart", "Key"}
      /\ ins # <<>> /\ b # <<>> => b[1].type \in Range(KeyStarts)
  BY DEF Fetching
<1> DEFINE front == a \o ins
           base == front \o b
<1>2. /\ tokens \in Seq(TokenSet) /\ a \o b \in Seq(TokenSet)
      /\ FlowBalance(a \o b) = FlowBalance(tokens)
      /\ \A level \in Int : Doomed(tokens, level) => Doomed(a \o b, level)
      /\ Clean(tokens) => Clean(a \o b)
      /\ tokens # <<>> => a \o b # <<>> /\ (a \o b)[1] = tokens[1]
  <2> DEFINE both == a \o b
  <2>1. both = Queue(x)
    BY <1>1
  <2> HIDE DEF both
  <2>2. /\ tokens \in Seq(TokenSet) /\ both \in Seq(TokenSet)
        /\ FlowBalance(both) = FlowBalance(tokens)
        /\ \A level \in Int : Doomed(tokens, level) => Doomed(both, level)
        /\ Clean(tokens) => Clean(both)
        /\ tokens # <<>> => both # <<>> /\ both[1] = tokens[1]
    BY <2>1, QueueKeeps
  <2> QED BY <2>2 DEF both
<1>3. FlowBalance(ins) = 0 /\ Clean(ins)
  <2>1. \A i \in DOMAIN ins : FlowOf(ins[i].type) = 0
    BY <1>1 DEF FlowOf, FlowStartTypes, FlowEndTypes
  <2>2. Clean(ins)
    BY <1>1 DEF Clean
  <2> QED BY <2>1, <2>2, FlowNone
<1>4. ins # <<>> /\ b # <<>> => b[1].type # "Value"
  BY <1>1, KeyTable
<1>5. FlowBalance(a) \in Int /\ FlowBalance(b) \in Int
  BY FlowType
<1>6. front \in Seq(TokenSet) /\ FlowBalance(front) = FlowBalance(a)
  <2>1. front \in Seq(TokenSet) /\ FlowBalance(front) = FlowBalance(a) + FlowBalance(ins)
    BY FlowConcat
  <2> HIDE DEF front
  <2> QED BY <1>3, <1>5, <2>1
<1>7. base \in Seq(TokenSet) /\ FlowBalance(base) = FlowBalance(tokens)
  <2>1. FlowBalance(a \o b) = FlowBalance(a) + FlowBalance(b)
    BY FlowConcat
  <2> HIDE DEF front
  <2>2. base \in Seq(TokenSet) /\ FlowBalance(base) = FlowBalance(front) + FlowBalance(b)
    BY <1>6, FlowConcat
  <2> QED BY <1>2, <1>6, <2>1, <2>2
<1>8. ASSUME NEW level \in Int, Doomed(tokens, level) PROVE Doomed(base, level)
  BY <1>2, <1>3, <1>4, <1>8, DoomInserted
<1>9. Clean(tokens) => Clean(base)
  <2>1. Clean(a \o b) => Clean(a) /\ Clean(b)
    BY CleanJoined
  <2>2. Clean(a) => Clean(front)
    BY <1>3, CleanJoined
  <2> HIDE DEF front
  <2>3. Clean(front) /\ Clean(b) => Clean(base)
    BY <1>6, CleanJoined
  <2> QED BY <1>2, <2>1, <2>2, <2>3
<1>10. ASSUME tokens # <<>>, tokens[1].type = "Value"
       PROVE  base # <<>> /\ base[1].type = "Value"
  <2>1. a \o b # <<>> /\ (a \o b)[1].type = "Value"
    BY <1>2, <1>10
  <2>2. CASE a = <<>>
    <3>1. a \o b = b /\ front = ins
      BY <2>2
    <3>2. ins = <<>>
      BY <1>4, <2>1, <3>1
    <3>3. base = b
      BY <3>1, <3>2
    <3> HIDE DEF base
    <3> QED BY <2>1, <3>1, <3>3
  <2>3. CASE a # <<>>
    <3>1. (a \o b)[1] = a[1]
      BY <2>3, HeadKept
    <3>2. front # <<>> /\ front[1] = a[1]
      BY <2>3, HeadKept
    <3> HIDE DEF front
    <3>3. base # <<>> /\ base[1] = front[1]
      BY <1>6, <3>2, HeadKept
    <3> QED BY <2>1, <3>1, <3>2, <3>3
  <2> QED BY <2>2, <2>3
<1>11. tokens' = base \o <<t>>
  BY <1>1
<1> HIDE DEF base
<1> QED BY <1>7, <1>8, <1>9, <1>10, <1>11

\* Whatever the scanner lets pass, it leaves the parser a token to refuse.
LEMMA FetchingPasses ==
  ASSUME ScanTypes, Scanning', NEW x, x.column \in Nat,
         NEW a \in Seq(TokenSet), NEW ins \in Seq(TokenSet), NEW b \in Seq(TokenSet),
         NEW t \in TokenSet, Fetching(x, a, ins, b, t),
         NEW level \in Int, level + FlowBalance(tokens) = flow_level, flow_level >= 0,
         LetsPass # {}
  PROVE  Doomed(tokens', level)
<1>1. PICK base \in Seq(TokenSet) :
        /\ tokens' = base \o <<t>>
        /\ FlowBalance(base) = FlowBalance(tokens)
  BY FetchingKeeps
<1> DEFINE one == <<t>>
<1>2. /\ one \in Seq(TokenSet) /\ Len(one) = 1 /\ flow_level \in Int
      /\ level + FlowBalance(base) = flow_level
  BY <1>1 DEF ScanTypes
<1>3. /\ flow_level' = flow_level + FlowOf(t.type)
      /\ last' = "-" /\ ~InBlock => t.type = "BlockEntry"
  BY DEF Fetching
<1>4. Doomed(one, flow_level) <=>
        (t.type \in FlowEndTypes /\ flow_level <= 0) \/ (t.type = "BlockEntry" /\ flow_level > 0)
  BY <1>2, DoomOfOne
<1>5. Doomed(one, flow_level) => Doomed(tokens', level)
  <2>1. tokens' = base \o one
    BY <1>1
  <2> HIDE DEF one
  <2>2. Doomed(one, level + FlowBalance(base)) => Doomed(base \o one, level)
    BY <1>2, DoomJoined
  <2> QED BY <1>2, <2>1, <2>2
<1>6. LetsPass \subseteq {"end", "entry", "value"}
  BY DEF LetsPass
<1>7. CASE "end" \in LetsPass
  <2>1. flow_level' < 0
    BY <1>7 DEF LetsPass
  <2>2. t.type \in FlowEndTypes /\ flow_level <= 0
    BY <1>2, <1>3, <2>1 DEF FlowOf
  <2> QED BY <1>4, <1>5, <2>2
<1>8. CASE "entry" \in LetsPass
  <2>1. last' = "-" /\ ~InBlock
    BY <1>8 DEF LetsPass
  <2>2. flow_level > 0
    BY <1>2, <2>1 DEF InBlock
  <2> QED BY <1>3, <1>4, <1>5, <2>1, <2>2
<1>9. CASE "value" \in LetsPass
  <2> DEFINE queue == tokens'
             n == Len(queue)
  <2>1. /\ n > 1 /\ Last(queue).type = "Value" /\ Last(Front(queue)).type = "BlockMappingStart"
    BY <1>9 DEF LetsPass
  <2>2. queue \in Seq(TokenSet) /\ n \in Nat /\ DOMAIN queue = 1..n
    <3>1. queue \in Seq(TokenSet)
      BY <1>1, <1>2, Joined
    <3> QED BY <3>1
  <2> HIDE DEF queue
  <2>3. queue # <<>>
    BY <2>1, <2>2
  <2>4. /\ Front(queue) \in Seq(TokenSet) /\ Len(Front(queue)) = n - 1 /\ Last(queue) = queue[n]
        /\ \A i \in DOMAIN Front(queue) : Front(queue)[i] = queue[i]
    BY <2>2, <2>3, FrontLast
  <2>5. Last(Front(queue)) = queue[n - 1]
    <3>1. Last(Front(queue)) = Front(queue)[n - 1]
      BY <2>4 DEF Last
    <3>2. n - 1 \in DOMAIN Front(queue)
      BY <2>1, <2>2, <2>4
    <3> QED BY <2>4, <3>1, <3>2
  <2>6. n \in DOMAIN queue /\ Bad(queue, n, level)
    BY <2>1, <2>2, <2>4, <2>5 DEF Bad
  <2>7. Doomed(queue, level)
    BY <2>6 DEF Doomed
  <2> QED BY <2>7 DEF queue
<1> QED BY <1>6, <1>7, <1>8, <1>9

-----------------------------------------------------------------------------
\* How deep in flow collections the parser is when it has done with the token
\* it looks at, and when it is to refuse that token or the next.
Above == Depth(FlowStates) + FlowOf(tok)
AtKey == state = "block_mapping_key" /\ pos = "call"
HandDoomed ==
  \/ tok \in FlowEndTypes /\ Depth(FlowStates) = 0
  \/ tok = "BlockEntry" /\ Depth(FlowStates) > 0
  \/ tok = "Value" /\ AtKey
  \/ /\ tok = "BlockMappingStart" \/ (tok = "none" /\ AtKey)
     /\ tokens # <<>> /\ tokens[1].type = "Value"

\* The end of the stream is the end of the queue.  The scanner's flow_level is
\* the parser's, and what the flow collections on the way make of it.  Where the
\* scanner has let something pass, a token is on its way that the parser refuses.
LineInv ==
  /\ \A i \in DOMAIN tokens : tokens[i].type = "StreamEnd" => done /\ i = Len(tokens)
  /\ tok = "StreamEnd" => done /\ tokens = <<>>
  /\ flow_level < 0 => lenient # {}
  /\ tok # "raised" =>
       /\ Above + FlowBalance(tokens) = flow_level
       /\ lenient # {} => Doomed(tokens, Above) \/ HandDoomed

LEMMA AboveType ==
  ASSUME StackOK
  PROVE  Above \in Int /\ Depth(FlowStates) \in Nat /\ FlowOf(tok) \in Int
<1>1. Depth(FlowStates) \in Nat
  BY DepthType DEF Levels
<1> QED BY <1>1 DEF Above, FlowOf

LEMMA FetchingKeepsLine ==
  ASSUME StackOK, KeyInv, LineInv, Scanning, Scanning', tok = "none", ScanMore
  PROVE  LineInv'
<1>1. ScanTypes /\ Above \in Int /\ FlowOf(tok) \in Int /\ Depth(FlowStates) \in Nat
  BY AboveType DEF KeyInv
<1>2. /\ tok' = tok /\ state' = state /\ pos' = pos
      /\ Depth(FlowStates)' = Depth(FlowStates) /\ Above' = Above
  <2>1. tok' = tok /\ state' = state /\ pos' = pos
    BY DEF ScanMore, parserVars, stack
  <2>2. Depth(FlowStates)' = Depth(FlowStates)
    BY ScannerLeavesTheStack DEF SameDepth, Levels
  <2> QED BY <2>1, <2>2 DEF Above
<1>3. lenient' = lenient \cup LetsPass
  BY DEF ScanMore
<1>4. PICK x : x.column \in Nat /\ ~done /\ Fetched(x)
  <2>1. StaleKey => ~Scanning'
    BY DEF StaleKey, Raise, Scanning
  <2> QED BY <2>1, Shapes DEF ScanMore
<1>5. PICK a \in Seq(TokenSet), ins \in Seq(TokenSet), b \in Seq(TokenSet), t \in TokenSet :
        Fetching(x, a, ins, b, t)
  BY <1>4 DEF Fetched
<1>6. PICK base \in Seq(TokenSet) :
        /\ tokens' = base \o <<t>>
        /\ FlowBalance(base) = FlowBalance(tokens)
        /\ \A level \in Int : Doomed(tokens, level) => Doomed(base, level)
        /\ Clean(tokens) => Clean(base)
        /\ (tokens # <<>> /\ tokens[1].type = "Value") => base # <<>> /\ base[1].type = "Value"
  BY <1>1, <1>4, <1>5, FetchingKeeps
<1> DEFINE one == <<t>>
<1>7. /\ tokens' = base \o one /\ one \in Seq(TokenSet) /\ Len(one) = 1 /\ one[1] = t
      /\ FlowBalance(one) = FlowOf(t.type) /\ FlowOf(t.type) \in Int
  BY <1>6, FlowOne
<1> HIDE DEF one
<1>8. /\ flow_level' = flow_level + FlowOf(t.type) /\ (t.type = "StreamEnd" => done')
      /\ flow_level \in Int /\ FlowBalance(tokens) \in Int
  <2>1. flow_level \in Int /\ FlowBalance(tokens) \in Int
    BY <1>1, FlowType DEF ScanTypes
  <2> QED BY <1>5, <2>1 DEF Fetching
<1>9. Clean(base)
  BY <1>4, <1>6 DEF LineInv, Clean
<1>10. \A i \in DOMAIN tokens' : tokens'[i].type = "StreamEnd" => done' /\ i = Len(tokens')
  <2> DEFINE all == base \o one
             m == Len(base)
  <2>1. /\ m \in Nat /\ DOMAIN base = 1..m /\ Len(all) = m + 1 /\ DOMAIN all = 1..(m + 1)
        /\ \A i \in 1..m : all[i] = base[i]
        /\ all[m + 1] = t
    <3>1. /\ m \in Nat /\ DOMAIN base = 1..m /\ Len(all) = m + Len(one)
          /\ DOMAIN all = 1..(m + Len(one))
          /\ \A i \in 1..m : all[i] = base[i]
          /\ \A i \in 1..Len(one) : all[m + i] = one[i]
      BY <1>7, Joined
    <3>2. 1 \in 1..Len(one)
      BY <1>7
    <3> HIDE DEF all, m
    <3> QED BY <1>7, <3>1, <3>2
  <2> HIDE DEF all, m
  <2>2. \A i \in 1..(m + 1) : i \in 1..m \/ i = m + 1
    BY <2>1
  <2>3. \A i \in DOMAIN all : all[i].type = "StreamEnd" => done' /\ i = Len(all)
    BY <1>8, <1>9, <2>1, <2>2 DEF Clean
  <2>4. tokens' = all
    BY <1>7 DEF all
  <2> QED BY <2>3, <2>4
<1>11. flow_level' < 0 => lenient' # {}
  <2>1. flow_level' < 0 => "end" \in LetsPass
    BY DEF LetsPass, Scanning
  <2> QED BY <1>3, <2>1
<1>12. Above + FlowBalance(tokens') = flow_level'
  <2>1. FlowBalance(tokens') = FlowBalance(tokens) + FlowOf(t.type)
    BY <1>6, <1>7, FlowConcat
  <2>2. Above + FlowBalance(tokens) = flow_level
    BY DEF LineInv
  <2> QED BY <1>1, <1>7, <1>8, <2>1, <2>2
<1>13. Doomed(tokens, Above) => Doomed(tokens', Above)
  <2>1. Doomed(tokens, Above) => Doomed(base, Above)
    BY <1>1, <1>6
  <2>2. Doomed(base, Above) => Doomed(base \o one, Above)
    BY <1>1, <1>7, DoomJoined
  <2> QED BY <1>7, <2>1, <2>2
<1>14. HandDoomed => HandDoomed'
  <2>1. (tokens # <<>> /\ tokens[1].type = "Value") =>
          tokens' # <<>> /\ tokens'[1].type = "Value"
    <3>1. base # <<>> => base \o one # <<>> /\ (base \o one)[1] = base[1]
      BY <1>7, HeadKept
    <3> QED BY <1>6, <1>7, <3>1
  <2> QED BY <1>2, <2>1 DEF HandDoomed, AtKey
<1>15. lenient' # {} => Doomed(tokens', Above) \/ HandDoomed'
  <2>1. CASE lenient # {}
    BY <1>13, <1>14, <2>1 DEF LineInv
  <2>2. CASE lenient = {} /\ LetsPass # {}
    <3>1. flow_level >= 0
      BY <1>8, <2>2 DEF LineInv
    <3>2. Above + FlowBalance(tokens) = flow_level
      BY DEF LineInv
    <3> QED BY <1>1, <1>4, <1>5, <2>2, <3>1, <3>2, FetchingPasses
  <2> QED BY <1>3, <2>1, <2>2
<1>16. (tok = "StreamEnd" => done /\ tokens = <<>>)'
  BY <1>2
<1>17. (tok # "raised" => Above + FlowBalance(tokens) = flow_level
          /\ (lenient # {} => Doomed(tokens, Above) \/ HandDoomed))'
  <2>1. FlowBalance(tokens)' = FlowBalance(tokens')
    BY DEF FlowBalance, Count
  <2>2. Doomed(tokens, Above)' <=> Doomed(tokens', Above)
    BY <1>2 DEF Doomed, Bad, Ahead, FlowBalance, Count
  <2> QED BY <1>2, <1>12, <1>15, <2>1, <2>2
<1> QED BY <1>10, <1>11, <1>16, <1>17 DEF LineInv

-----------------------------------------------------------------------------
\* Flow collections are inside of block collections, never the other way round:
\* in a flow collection parse_node() is called for flow nodes only.
FlowFirsts == {"flow_sequence_first_entry", "flow_mapping_first_key"}
FlowOnTop ==
  /\ \A i, j \in DOMAIN states : i < j /\ states[i] \in FlowStates => states[j] \in FlowStates
  /\ (tok # "raised" /\ states # <<>> /\ Last(states) \in FlowStates) =>
        IF pos = "node" THEN kind = "flow" ELSE state \in FlowStates \cup FlowFirsts

LEMMA FlowTable ==
  /\ \A s \in DOMAIN Items :
       /\ s \in FlowStates <=> Items[s].then \in FlowStates
       /\ s \in FlowStates => Items[s].kind = "flow"
  /\ \A s \in Firsts : s \in FlowFirsts <=> FirstEntry[s] \in FlowStates
  /\ FlowFirsts \subseteq Firsts /\ FlowStates \subseteq Inner
<1>1. DOMAIN Items = {"block_sequence_entry", "indentless_sequence_entry", "block_mapping_key",
        "block_mapping_value", "flow_mapping_key", "flow_mapping_value",
        "flow_sequence_entry_mapping_key", "flow_sequence_entry_mapping_value"}
  BY DEF Items
<1>2. /\ Items["flow_mapping_key"].kind = "flow"
      /\ Items["flow_mapping_value"].kind = "flow"
      /\ Items["flow_sequence_entry_mapping_key"].kind = "flow"
      /\ Items["flow_sequence_entry_mapping_value"].kind = "flow"
  BY DEF Items
<1>3. \A s \in DOMAIN Items : s \in FlowStates => Items[s].kind = "flow"
  BY <1>1, <1>2 DEF FlowStates
<1>4. \A s \in DOMAIN Items : s \in FlowStates <=> Items[s].then \in FlowStates
  BY ItemTable DEF Levels
<1>5. \A s \in Firsts : s \in FlowFirsts <=> FirstEntry[s] \in FlowStates
  BY DEF Firsts, FlowFirsts, FirstEntry, FlowStates
<1> QED BY <1>3, <1>4, <1>5 DEF FlowFirsts, Firsts, Inner, MarkedStates

\* What a step does to the functions to be called.
FlowMoves ==
  \/ state \notin Outside /\ state' = Last(states) /\ states' = Front(states) /\ pos' = "call"
  \/ tok' = "raised" /\ states' = states
  \/ states' = <<>> \/ states' = <<"document_end">>
  \/ state \in Roots /\ pos # "node" /\ states' = states
  \/ pos = "node" /\ pos' = "node" /\ kind' = kind /\ states' = states
  \/ /\ pos = "node" /\ pos' = "call" /\ states' = states
     /\ kind = "flow" => state' \in FlowFirsts
  \/ /\ pos # "node" /\ pos' # "node" /\ states' = states
     /\ state \in FlowStates \cup FlowFirsts => state' \in FlowStates
  \/ /\ pos # "node" /\ pos' = "node" /\ state \in Inner
     /\ \E then \in Inner :
          /\ states' = Append(states, then)
          /\ state \in FlowStates => then \in FlowStates /\ kind' = "flow"
          /\ then \in FlowStates => state \in FlowStates

LEMMA DocumentMoves ==
  ASSUME StackOK,
         \/ StreamStart \/ ImplicitDocumentStart \/ ProcessDirectives \/ Directive
         \/ ExplicitDocumentStart \/ ExtraDocumentEnd \/ StreamEnd \/ DocumentEnd \/ Root
  PROVE  FlowMoves
<1>1. CASE \/ StreamStart \/ ImplicitDocumentStart \/ ProcessDirectives \/ Directive
           \/ ExplicitDocumentStart \/ ExtraDocumentEnd \/ StreamEnd \/ DocumentEnd
  <2>1. state \in Outside
    BY <1>1 DEF StreamStart, ImplicitDocumentStart, ProcessDirectives, Directive,
                ExplicitDocumentStart, ExtraDocumentEnd, StreamEnd, DocumentEnd, At, Outside
  <2>2. states = <<>>
    BY <2>1 DEF StackOK
  <2>3. Append(states, "document_end") = <<"document_end">>
    BY <2>2
  <2>4. states' = states \/ states' = Append(states, "document_end")
    BY <1>1 DEF StreamStart, ImplicitDocumentStart, ProcessDirectives, Directive,
                ExplicitDocumentStart, ExtraDocumentEnd, StreamEnd, DocumentEnd, Goto, Refuse, stack
  <2> QED BY <2>2, <2>3, <2>4 DEF FlowMoves
<1>2. CASE Root
  <2>1. state \in Roots /\ pos # "node" /\ state \notin Outside
    BY <1>2, LevelsAreInner DEF Root, At, Roots
  <2> QED BY <1>2, <2>1 DEF Root, Pop, Goto, FlowMoves
<1> QED BY <1>1, <1>2

LEMMA NodeMoves ==
  ASSUME StackOK,
         Property \/ Alias \/ Collection \/ Scalar \/ NoContent \/ UnknownHandle
  PROVE  FlowMoves
<1>1. pos = "node"
  BY DEF Property, Alias, Collection, Scalar, NoContent, UnknownHandle, ContentComes, InNode
<1>2. state \notin Outside
  BY <1>1 DEF StackOK
<1>3. CASE Property
  BY <1>1, <1>3 DEF Property, stack, FlowMoves
<1>4. CASE Alias \/ Scalar \/ NoContent \/ UnknownHandle
  <2>1. Pop \/ Refuse
    BY <1>4 DEF Alias, Scalar, NoContent, UnknownHandle
  <2> QED BY <1>2, <2>1 DEF Pop, Refuse, stack, FlowMoves
<1>5. CASE Collection
  <2>1. pos' = "call" /\ states' = states
    BY <1>5 DEF Collection, Goto
  <2>2. ASSUME kind = "flow" PROVE state' \in FlowFirsts
    <3>1. tok \in {"FlowSequenceStart", "FlowMappingStart"}
      BY <1>5, <2>2 DEF Collection, Contents
    <3>2. state' = FirstStates[tok]
      BY <1>5, <3>1 DEF Collection, Goto
    <3> QED BY <3>1, <3>2 DEF FirstStates, FlowFirsts
  <2> QED BY <1>1, <2>1, <2>2 DEF FlowMoves
<1> QED BY <1>3, <1>4, <1>5

LEMMA ItemMoves ==
  ASSUME StackOK, First \/ Item \/ ItemNode \/ NoItem \/ Comma \/ FlowEntryNode
  PROVE  FlowMoves
<1>1. CASE First
  <2>1. /\ state \in Firsts /\ pos = "call" /\ state' = FirstEntry[state] /\ states' = states
        /\ pos' \in {"entry", "call"}
    BY <1>1, StateTables DEF First, At
  <2>2. state \notin FlowStates
    BY <2>1, LevelsAreInner DEF Levels
  <2> QED BY <2>1, <2>2, FlowTable DEF FlowMoves
<1>2. ASSUME NEW then, state \in FlowStates => then \in FlowStates, state \notin Firsts,
             pos # "node", state' = then, pos' # "node", states' = states
      PROVE  FlowMoves
  <2>1. state \notin FlowFirsts
    BY <1>2, FlowTable
  <2> QED BY <1>2, <2>1 DEF FlowMoves
<1>3. state \in Inner => state \notin Firsts
  BY LevelsAreInner
<1>4. CASE Item \/ Comma
  <2>1. /\ state \in DOMAIN Items \cup FlowEntries /\ pos # "node" /\ state' = state
        /\ pos' # "node" /\ states' = states
    BY <1>4 DEF Item, Comma, ItemComes, At, Goto
  <2>2. state \in Inner
    BY <2>1, ItemTable, StateTables, FlowTable
  <2> QED BY <1>2, <1>3, <2>1, <2>2
<1>5. CASE NoItem
  <2>1. /\ pos # "node" /\ pos' = "call" /\ states' = states
        /\ \/ state \in DOMAIN Items /\ state' = Items[state].then
           \/ state = "flow_mapping_empty_value" /\ state' = "flow_mapping_key"
           \/ state = "flow_sequence_entry_mapping_end" /\ state' = "flow_sequence_entry"
    BY <1>5 DEF NoItem, ItemComes, At, Goto
  <2>2. CASE state \in DOMAIN Items /\ state' = Items[state].then
    <3>1. state \notin Firsts /\ (state \in FlowStates => Items[state].then \in FlowStates)
      BY <1>3, <2>2, ItemTable, FlowTable
    <3> QED BY <1>2, <2>1, <2>2, <3>1
  <2>3. CASE state \in FlowStates /\ state' \in FlowStates
    <3>1. state \notin Firsts
      BY <1>3, <2>3, FlowTable
    <3> QED BY <1>2, <2>1, <2>3, <3>1
  <2> QED BY <2>1, <2>2, <2>3 DEF FlowStates
<1>6. ASSUME pos # "node", state \in Inner, NEW k, NEW then \in Inner, Node(k, then),
             state \in FlowStates => then \in FlowStates /\ k = "flow",
             then \in FlowStates => state \in FlowStates
      PROVE  FlowMoves
  <2>1. states' = Append(states, then) /\ pos' = "node" /\ kind' = k
    BY <1>6 DEF Node
  <2> QED BY <1>6, <2>1 DEF FlowMoves
<1>7. CASE ItemNode
  <2> DEFINE then == Items[state].then
  <2>1. state \in DOMAIN Items /\ pos # "node"
    BY <1>7 DEF ItemNode, At
  <2>2. /\ state \in Inner /\ state \notin Firsts /\ then \in Inner
        /\ (state \in FlowStates <=> then \in FlowStates)
        /\ (state \in FlowStates => Items[state].kind = "flow")
    BY <1>3, <2>1, ItemTable, FlowTable
  <2>3. \/ state' = then /\ pos' = "call" /\ states' = states
        \/ Node(Items[state].kind, then)
    BY <1>7 DEF ItemNode, Goto
  <2> HIDE DEF then
  <2> QED BY <1>2, <1>6, <2>1, <2>2, <2>3
<1>8. CASE FlowEntryNode
  <2>1. state \in FlowStates /\ state \in Inner /\ state \notin Firsts /\ pos # "node"
    BY <1>3, <1>8, StateTables, FlowTable DEF FlowEntryNode, At
  <2>2. PICK then \in FlowStates :
          \/ state' = then /\ pos' = "call" /\ states' = states
          \/ Node("flow", then)
    BY <1>8 DEF FlowEntryNode, Goto, FlowStates
  <2>3. then \in Inner
    BY FlowTable
  <2> QED BY <1>2, <1>6, <2>1, <2>2, <2>3
<1> QED BY <1>1, <1>4, <1>5, <1>7, <1>8

LEMMA EndMoves ==
  ASSUME StackOK, End \/ NotInCollection
  PROVE  FlowMoves
<1>1. CASE End
  <2>1. state \in DOMAIN EndTokens \cup {"indentless_sequence_entry"}
    BY <1>1 DEF End
  <2>2. state \notin Outside
    BY <2>1, StateTables DEF Outside
  <2>3. states' = Front(states) /\ state' = Last(states) /\ pos' = "call"
    BY <1>1 DEF End, Pop, PopCollection
  <2> QED BY <2>2, <2>3 DEF FlowMoves
<1>2. CASE NotInCollection
  BY <1>2 DEF NotInCollection, Refuse, stack, FlowMoves
<1> QED BY <1>1, <1>2

LEMMA FlowOnTopStep ==
  ASSUME StackOK, FlowOnTop, tok # "raised", Parse
  PROVE  FlowOnTop'
<1>1. FlowMoves
  BY DocumentMoves, NodeMoves, ItemMoves, EndMoves DEF Parse
<1> DEFINE T == Inner \cup {"document_end"}
<1>2. states \in Seq(T) /\ Len(states) \in Nat
  BY DEF StackOK
<1>3. "document_end" \notin FlowStates
  BY DEF FlowStates
<1>4. \A i, j \in DOMAIN states : i < j /\ states[i] \in FlowStates => states[j] \in FlowStates
  BY DEF FlowOnTop
<1>5. (states # <<>> /\ Last(states) \in FlowStates) =>
        IF pos = "node" THEN kind = "flow" ELSE state \in FlowStates \cup FlowFirsts
  BY DEF FlowOnTop
<1>6. CASE state \notin Outside /\ state' = Last(states) /\ states' = Front(states) /\ pos' = "call"
  <2>1. states # <<>>
    BY <1>6 DEF StackOK
  <2>2. /\ states' \in Seq(T) /\ Len(states') = Len(states) - 1 /\ state' = states[Len(states)]
        /\ \A i \in DOMAIN states' : i \in DOMAIN states /\ i < Len(states) /\ states'[i] = states[i]
    BY <1>2, <1>6, <2>1, FrontLast
  <2>3. \A i, j \in DOMAIN states' :
          i < j /\ states'[i] \in FlowStates => states'[j] \in FlowStates
    BY <1>4, <2>2
  <2>4. ASSUME states' # <<>>, Last(states') \in FlowStates
        PROVE  state' \in FlowStates
    <3> DEFINE n == Len(states')
    <3>1. n \in DOMAIN states' /\ Last(states') = states'[n]
      BY <2>2, <2>4 DEF Last
    <3> HIDE DEF n
    <3>2. Len(states) \in DOMAIN states
      BY <1>2, <2>1
    <3> QED BY <1>4, <2>2, <2>4, <3>1, <3>2
  <2> QED BY <1>6, <2>3, <2>4 DEF FlowOnTop
<1>7. CASE tok' = "raised" /\ states' = states
  BY <1>4, <1>7 DEF FlowOnTop
<1>8. CASE states' = <<>> \/ states' = <<"document_end">>
  <2>1. \A i \in DOMAIN states' : states'[i] = "document_end"
    BY <1>8
  <2>2. states' # <<>> => Last(states') = "document_end"
    BY <1>8 DEF Last
  <2> QED BY <1>3, <2>1, <2>2 DEF FlowOnTop
<1>9. CASE state \in Roots /\ pos # "node" /\ states' = states
  <2>1. state \notin FlowStates \cup FlowFirsts
    BY <1>9, LevelsAreInner, FlowTable
  <2> QED BY <1>4, <1>5, <1>9, <2>1 DEF FlowOnTop
<1>10. CASE pos = "node" /\ pos' = "node" /\ kind' = kind /\ states' = states
  BY <1>4, <1>5, <1>10 DEF FlowOnTop
<1>11. CASE /\ pos = "node" /\ pos' = "call" /\ states' = states
            /\ kind = "flow" => state' \in FlowFirsts
  BY <1>4, <1>5, <1>11 DEF FlowOnTop
<1>12. CASE /\ pos # "node" /\ pos' # "node" /\ states' = states
            /\ state \in FlowStates \cup FlowFirsts => state' \in FlowStates
  BY <1>4, <1>5, <1>12 DEF FlowOnTop
<1>13. CASE /\ pos # "node" /\ pos' = "node" /\ state \in Inner
            /\ \E then \in Inner :
                 /\ states' = Append(states, then)
                 /\ state \in FlowStates => then \in FlowStates /\ kind' = "flow"
                 /\ then \in FlowStates => state \in FlowStates
  <2>1. PICK then \in Inner :
          /\ states' = Append(states, then)
          /\ state \in FlowStates => then \in FlowStates /\ kind' = "flow"
          /\ then \in FlowStates => state \in FlowStates
    BY <1>13
  <2>2. /\ \A i \in DOMAIN states' : \/ i \in DOMAIN states /\ states'[i] = states[i]
                                     \/ i = Len(states) + 1 /\ states'[i] = then
        /\ DOMAIN states = 1..Len(states) /\ DOMAIN states' = 1..(Len(states) + 1)
        /\ Last(states') = then
    <3>1. then \in T
      OBVIOUS
    <3>2. Len(Append(states, then)) = Len(states) + 1 /\ Append(states, then)[Len(states) + 1] = then
      BY <1>2, <3>1
    <3> QED BY <1>2, <2>1, <3>1, <3>2 DEF Last
  <2>3. ASSUME NEW i \in DOMAIN states, states[i] \in FlowStates
        PROVE  then \in FlowStates
    <3>1. states # <<>> /\ Last(states) = states[Len(states)] /\ Len(states) \in DOMAIN states
          /\ (i = Len(states) \/ i < Len(states))
      BY <1>2, <2>3 DEF Last
    <3>2. Last(states) \in FlowStates
      BY <1>4, <2>3, <3>1
    <3>3. state \in FlowStates \cup FlowFirsts
      BY <1>5, <1>13, <3>1, <3>2
    <3>4. state \notin FlowFirsts
      BY <1>13, LevelsAreInner, FlowTable
    <3> QED BY <2>1, <3>3, <3>4
  <2>4. \A i, j \in DOMAIN states' :
          i < j /\ states'[i] \in FlowStates => states'[j] \in FlowStates
    <3> SUFFICES ASSUME NEW i \in DOMAIN states', NEW j \in DOMAIN states', i < j,
                        states'[i] \in FlowStates
                 PROVE  states'[j] \in FlowStates
      OBVIOUS
    <3>1. i \in DOMAIN states /\ states'[i] = states[i]
      BY <1>2, <2>2
    <3>2. CASE j \in DOMAIN states /\ states'[j] = states[j]
      BY <1>4, <3>1, <3>2
    <3>3. CASE states'[j] = then
      BY <2>3, <3>1, <3>3
    <3> QED BY <2>2, <3>2, <3>3
  <2> QED BY <1>13, <2>1, <2>2, <2>4 DEF FlowOnTop
<1> QED BY <1>1, <1>6, <1>7, <1>8, <1>9, <1>10, <1>11, <1>12, <1>13 DEF FlowMoves

\* A token is taken by the function that it is for.
LEMMA ParserTakes ==
  ASSUME StackOK, HandInv, Scanning, Parse
  PROVE  \/ First \/ EndsCollection
         \/ /\ SameDepth
            /\ \/ tok' = tok \/ tok' = "raised"
               \/ tok' = "none" /\ BalanceOf(tok) = 0 /\ tok \notin Brackets
<1>1. state = "stream_start" => tok \in {"StreamStart", "none"}
  BY DEF HandInv
<1>2. \/ First \/ End
      \/ /\ SameDepth
         /\ \/ tok' = tok \/ tok' = "raised"
            \/ tok' = "none" /\ BalanceOf(tok) = 0 /\ tok \notin Brackets
  BY <1>1, PlainTokens, DocumentSteps, NodeSteps, ItemSteps DEF Parse
<1> QED BY <1>2, EndStep

LEMMA FlowHands ==
  ASSUME StackOK, HandInv, Scanning, Parse, tok' # "raised"
  PROVE  Above' = Above
<1>1. /\ FlowStates \in Levels /\ Depth(FlowStates) \in Nat /\ FlowOf(tok) \in Int
      /\ FlowOf("none") = 0
      /\ (state \in Firsts => tok \in DOMAIN FirstStates /\ FirstStates[tok] = state)
  BY AboveType DEF Levels, HandInv, FlowOf, FlowStartTypes, FlowEndTypes
<1>2. CASE SameDepth /\ tok' = tok
  BY <1>1, <1>2 DEF SameDepth, Above
<1>3. CASE SameDepth /\ tok' = "none" /\ tok \notin Brackets
  <2>1. FlowOf(tok) = 0
    BY <1>3 DEF FlowOf, FlowStartTypes, FlowEndTypes, Brackets
  <2>2. FlowOf(tok') = 0
    BY <1>1, <1>3
  <2> QED BY <1>1, <1>3, <2>1, <2>2 DEF SameDepth, Above
<1>4. CASE First
  <2>1. /\ state \in Firsts /\ tok' = "none"
        /\ Depth(FlowStates)' = Depth(FlowStates) + (IF FirstEntry[state] \in FlowStates THEN 1 ELSE 0)
    BY <1>1, <1>4, FirstStep DEF StartsCollection
  <2>2. tok \in DOMAIN FirstStates /\ FirstStates[tok] = state
    BY <1>1, <2>1
  <2>3. FlowOf(tok) = IF FirstEntry[state] \in FlowStates THEN 1 ELSE 0
    BY <2>2 DEF FirstStates, FirstEntry, FlowStates, FlowOf, FlowStartTypes, FlowEndTypes
  <2>4. FlowOf(tok') = 0
    BY <1>1, <2>1
  <2> QED BY <1>1, <2>1, <2>3, <2>4 DEF Above
<1>5. CASE EndsCollection
  <2>1. /\ state \in DOMAIN EndTokens /\ tok = EndTokens[state] /\ tok' = "none"
        /\ Depth(FlowStates)' = Depth(FlowStates) - (IF state \in FlowStates THEN 1 ELSE 0)
    BY <1>1, <1>5 DEF EndsCollection
  <2>2. FlowOf(tok) = IF state \in FlowStates THEN -1 ELSE 0
    BY <2>1 DEF EndTokens, FlowStates, FlowOf, FlowStartTypes, FlowEndTypes
  <2>3. FlowOf(tok') = 0
    BY <1>1, <2>1
  <2> QED BY <1>1, <2>1, <2>2, <2>3 DEF Above
<1> QED BY <1>2, <1>3, <1>4, <1>5, ParserTakes

\* `-' is taken in block and indentless sequences only.
LEMMA EntryTaken ==
  ASSUME StackOK, HandInv, Scanning, Parse, tok = "BlockEntry", tok' = "none"
  PROVE  state \in {"block_sequence_entry", "indentless_sequence_entry"} /\ pos # "node"
<1>1. "none" # tok /\ tok' # "raised"
  OBVIOUS
<1>2. ~First
  <2>1. First => state \in Firsts
    BY StateTables DEF First
  <2>2. "BlockEntry" \notin DOMAIN FirstStates
    BY DEF FirstStates
  <2> QED BY <2>1, <2>2 DEF HandInv
<1>3. ~End
  <2>1. \A s \in DOMAIN EndTokens : EndTokens[s] # "BlockEntry"
    BY DEF EndTokens
  <2> QED BY <2>1 DEF End
<1>4. ~(StreamStart \/ ImplicitDocumentStart \/ ProcessDirectives \/ Directive)
  BY DEF StreamStart, ImplicitDocumentStart, ProcessDirectives, Directive, At, HandInv, Look,
         LookFor, Directives
<1>5. ~(ExplicitDocumentStart \/ ExtraDocumentEnd \/ StreamEnd \/ DocumentEnd \/ Root)
  BY DEF ExplicitDocumentStart, ExtraDocumentEnd, StreamEnd, DocumentEnd, Root, Look, LookFor, Refuse
<1>6. ~(Property \/ Alias \/ Scalar \/ Collection \/ NoContent \/ UnknownHandle)
  BY DEF Property, Alias, Scalar, Collection, NoContent, UnknownHandle, Properties, LookFor, Refuse
<1>7. ~(ItemNode \/ NoItem \/ Comma \/ FlowEntryNode \/ NotInCollection)
  BY DEF ItemNode, NoItem, Comma, FlowEntryNode, NotInCollection, Look, LookFor, Refuse
<1>8. Item
  BY <1>2, <1>3, <1>4, <1>5, <1>6, <1>7 DEF Parse
<1>9. \A s \in DOMAIN Items :
        Items[s].on = "BlockEntry" => s \in {"block_sequence_entry", "indentless_sequence_entry"}
  BY DEF Items
<1> QED BY <1>8, <1>9 DEF Item, ItemComes, At

LEMMA NoEntryInFlow ==
  ASSUME StackOK, FlowOnTop, HandInv, Scanning, Parse, tok = "BlockEntry", Depth(FlowStates) > 0
  PROVE  tok' # "none"
<1> SUFFICES ASSUME tok' = "none" PROVE FALSE
  OBVIOUS
<1>1. state \in {"block_sequence_entry", "indentless_sequence_entry"} /\ pos # "node"
  BY EntryTaken
<1>2. state \notin FlowStates \cup FlowFirsts
  BY <1>1 DEF FlowStates, FlowFirsts
<1>3. Count(states, FlowStates) > 0
  <2>1. Count(states, FlowStates) \in Nat /\ FlowStates \in Levels
    BY DepthType DEF Levels
  <2> QED BY <1>2, <2>1 DEF Depth
<1>4. PICK i \in DOMAIN states : states[i] \in FlowStates
  <2>1. CASE {i \in DOMAIN states : states[i] \in FlowStates} = {}
    BY <1>3, <2>1, FS_EmptySet DEF Count
  <2> QED BY <2>1
<1>5. Last(states) \in FlowStates /\ states # <<>>
  <2> DEFINE n == Len(states)
  <2>1. n \in DOMAIN states /\ (i = n \/ i < n) /\ states # <<>> /\ Last(states) = states[n]
    BY <1>4 DEF StackOK, Last
  <2> HIDE DEF n
  <2> QED BY <1>4, <2>1 DEF FlowOnTop
<1> QED BY <1>1, <1>2, <1>5 DEF FlowOnTop

\* A `:' without a key is no token of a block mapping.
LEMMA NoValueAtKey ==
  ASSUME StackOK, HandInv, Scanning, Parse, tok = "Value", AtKey
  PROVE  tok' = "raised"
<1>1. state = "block_mapping_key" /\ pos = "call" /\ state \in Inner
  BY DEF AtKey, Inner, MarkedStates, BlockStates
<1>2. ~(StreamStart \/ ImplicitDocumentStart \/ ProcessDirectives \/ Directive)
  BY <1>1 DEF StreamStart, ImplicitDocumentStart, ProcessDirectives, Directive, At
<1>3. ~(ExplicitDocumentStart \/ ExtraDocumentEnd \/ StreamEnd \/ DocumentEnd \/ Root)
  BY <1>1 DEF ExplicitDocumentStart, ExtraDocumentEnd, StreamEnd, DocumentEnd, Root, At
<1>4. ~(Property \/ Alias \/ Scalar \/ Collection \/ NoContent \/ UnknownHandle)
  BY <1>1 DEF Property, Alias, Scalar, Collection, NoContent, UnknownHandle, ContentComes, InNode
<1>5. ~First
  BY <1>1 DEF First, FirstEntry
<1>6. Items["block_mapping_key"].on = "Key" /\ EndTokens["block_mapping_key"] = "BlockEnd"
  BY DEF Items, EndTokens
<1>7. ~(Item \/ ItemNode \/ NoItem \/ Comma \/ FlowEntryNode \/ End)
  BY <1>1, <1>6 DEF Item, ItemNode, NoItem, Comma, FlowEntryNode, End, At, FlowEntries
<1>8. NotInCollection
  BY <1>2, <1>3, <1>4, <1>5, <1>7 DEF Parse
<1> QED BY <1>8 DEF NotInCollection, Refuse

\* A token that the parser is to refuse is not taken, and what comes after the
\* start of a block mapping is looked at next.
LEMMA HandStaysDoomed ==
  ASSUME StackOK, StackOK', FlowOnTop, HandInv, Scanning, Parse, tok' # "raised", tokens' = tokens,
         HandDoomed
  PROVE  HandDoomed'
<1>1. /\ Above \in Int /\ Depth(FlowStates) \in Nat /\ Depth(FlowStates)' \in Nat
      /\ FlowOf("none") = 0 /\ Above' = Above
  <2>1. Depth(FlowStates) \in Nat /\ Above \in Int
    BY AboveType
  <2>2. Depth(FlowStates)' \in Nat
    <3>1. Count(states', FlowStates) \in Nat
      BY CountType DEF StackOK
    <3> QED BY <3>1 DEF Depth
  <2> QED BY <2>1, <2>2, FlowHands DEF FlowOf, FlowStartTypes, FlowEndTypes
<1>2. tok' = tok \/ tok' = "none"
  BY ParserTakes DEF First, Take, EndsCollection
<1>3. tok \in Tokens
  BY DEF Parse, StreamStart, ImplicitDocumentStart, ProcessDirectives, Directive,
         ExplicitDocumentStart, ExtraDocumentEnd, StreamEnd, DocumentEnd, Root, Property,
         Alias, Collection, Scalar, NoContent, UnknownHandle, ContentComes, InNode, First,
         Item, ItemComes, ItemNode, NoItem, Comma, FlowEntryNode, End, NotInCollection, At, Called
<1>4. ASSUME tok' = tok PROVE Depth(FlowStates)' = Depth(FlowStates)
  BY <1>1, <1>4 DEF Above, FlowOf
<1>5. CASE tok \in FlowEndTypes /\ Depth(FlowStates) = 0
  <2>1. FlowOf(tok) = -1
    BY <1>5 DEF FlowOf, FlowStartTypes, FlowEndTypes
  <2>2. tok' # "none"
    BY <1>1, <1>5, <2>1 DEF Above
  <2> QED BY <1>2, <1>4, <1>5, <2>2 DEF HandDoomed
<1>6. CASE tok = "BlockEntry" /\ Depth(FlowStates) > 0
  BY <1>2, <1>4, <1>6, NoEntryInFlow DEF HandDoomed
<1>7. CASE tok = "Value" /\ AtKey
  BY <1>7, NoValueAtKey
<1>8. CASE tok = "BlockMappingStart" /\ tokens # <<>> /\ tokens[1].type = "Value"
  <2>1. CASE tok' = tok
    BY <1>8, <2>1 DEF HandDoomed
  <2>2. CASE tok' = "none"
    <3>1. BalanceOf(tok) # 0 /\ tok # "none" /\ \A s \in DOMAIN EndTokens : EndTokens[s] # tok
      BY <1>8 DEF BalanceOf, EndTokens
    <3>2. First
      BY <2>2, <3>1, ParserTakes DEF EndsCollection
    <3>3. state \in Firsts /\ state' = FirstEntry[state]
          /\ pos' = IF FirstEntry[state] \in FlowEntries THEN "entry" ELSE "call"
      BY <3>2, StateTables DEF First
    <3>4. state = "block_mapping_first_key"
      <4>1. FirstStates["BlockMappingStart"] = "block_mapping_first_key"
        BY DEF FirstStates
      <4> QED BY <1>8, <3>3, <4>1 DEF HandInv
    <3>5. FirstEntry["block_mapping_first_key"] = "block_mapping_key"
          /\ "block_mapping_key" \notin FlowEntries
      BY DEF FirstEntry, FlowEntries
    <3>6. AtKey'
      BY <3>3, <3>4, <3>5 DEF AtKey
    <3> QED BY <1>8, <2>2, <3>6 DEF HandDoomed
  <2> QED BY <1>2, <2>1, <2>2
<1> QED BY <1>3, <1>5, <1>6, <1>7, <1>8, NotTokens DEF HandDoomed

-----------------------------------------------------------------------------
\* Nothing comes after the end of the stream; once the scanner has failed,
\* nothing comes any more.
DetectInv ==
  /\ BlockInv /\ FlowOnTop
  /\ state = "None" => tok = "none" /\ tokens = <<>> /\ lenient = {} /\ flow_level = 0
  /\ IF Scanning THEN LineInv ELSE Asking

LEMMA StreamIsOver ==
  ASSUME StackOK, Parse
  PROVE  state # "None" /\ (state' = "None" => StreamEnd)
<1>1. CASE state \notin Outside
  BY <1>1, DocumentKeepsHandles DEF Outside
<1>2. CASE state \in Outside
  <2>1. \/ StreamStart \/ ImplicitDocumentStart \/ ProcessDirectives \/ Directive
        \/ ExplicitDocumentStart \/ ExtraDocumentEnd \/ StreamEnd \/ DocumentEnd
    BY <1>2, OutsideSteps
  <2> QED
    BY <2>1 DEF StreamStart, ImplicitDocumentStart, ProcessDirectives, Directive,
                ExplicitDocumentStart, ExtraDocumentEnd, StreamEnd, DocumentEnd, At, Goto, Refuse,
                stack
<1> QED BY <1>1, <1>2

LEMMA LineStays ==
  ASSUME LineInv, UNCHANGED <<state, states, pos, tok, tokens, flow_level, lenient, done>>
  PROVE  LineInv'
<1>1. /\ state' = state /\ states' = states /\ pos' = pos /\ tok' = tok /\ tokens' = tokens
      /\ flow_level' = flow_level /\ lenient' = lenient /\ done' = done
  OBVIOUS
<1>2. Depth(FlowStates)' = Depth(FlowStates) /\ Above' = Above
  BY <1>1 DEF Depth, Count, Pending, Above
<1>3. HandDoomed' <=> HandDoomed
  BY <1>1, <1>2 DEF HandDoomed, AtKey
<1>4. Doomed(tokens, Above)' <=> Doomed(tokens, Above)
  BY <1>1, <1>2 DEF Doomed, Bad, Ahead, FlowBalance, Count
<1>5. FlowBalance(tokens)' = FlowBalance(tokens)
  BY <1>1 DEF FlowBalance, Count
<1> QED BY <1>1, <1>2, <1>3, <1>4, <1>5 DEF LineInv

LEMMA ParserKeepsLine ==
  ASSUME StackOK, StackOK', FlowOnTop, HandInv, Scanning, LineInv, Parse, tok # "raised",
         UNCHANGED scannerVars, UNCHANGED lenient
  PROVE  LineInv'
<1>1. tokens' = tokens /\ flow_level' = flow_level /\ done' = done /\ lenient' = lenient
  BY DEF scannerVars
<1>2. tok' = tok \/ tok' = "raised" \/ tok' = "none"
  BY ParserTakes DEF First, Take, EndsCollection
<1>3. ASSUME tok' # "raised"
      PROVE  /\ Above' = Above
             /\ HandDoomed => HandDoomed'
  BY <1>1, <1>3, FlowHands, HandStaysDoomed
<1>4. ASSUME tok' # "raised"
      PROVE  /\ Above' + FlowBalance(tokens') = flow_level'
             /\ lenient' # {} => Doomed(tokens', Above') \/ HandDoomed'
  BY <1>1, <1>3, <1>4 DEF LineInv
<1>5. FlowBalance(tokens)' = FlowBalance(tokens')
  BY DEF FlowBalance, Count
<1>6. Doomed(tokens, Above)' <=> Doomed(tokens', Above')
  BY DEF Doomed, Bad, Ahead, FlowBalance, Count
<1> QED BY <1>1, <1>2, <1>4, <1>5, <1>6 DEF LineInv

LEMMA PeekKeepsLine ==
  ASSUME StackOK, KeyInv, LineInv, Peek
  PROVE  LineInv'
<1>1. /\ tokens # <<>> /\ tokens' = Tail(tokens) /\ done' = done /\ flow_level' = flow_level
      /\ tok = "none" /\ tok' = Head(tokens).type /\ state' = state /\ pos' = pos
      /\ lenient' = lenient
  BY DEF Peek, Taken, Asking, stack
<1>2. Depth(FlowStates)' = Depth(FlowStates)
  BY ScannerLeavesTheStack DEF SameDepth, Levels
<1> DEFINE head == Head(tokens)
           rest == Tail(tokens)
           one == <<head>>
           D == Depth(FlowStates)
<1>3. /\ head \in TokenSet /\ head = tokens[1] /\ rest \in Seq(TokenSet)
      /\ tokens = one \o rest /\ tokens \in Seq(TokenSet) /\ Len(tokens) = Len(rest) + 1
      /\ \A i \in DOMAIN rest : i + 1 \in DOMAIN tokens /\ rest[i] = tokens[i + 1]
      /\ Len(rest) \in Nat /\ DOMAIN rest = 1..Len(rest) /\ 1 \in DOMAIN tokens
  <2>1. tokens \in Seq(TokenSet)
    BY DEF KeyInv, ScanTypes
  <2> HIDE DEF TokenSet
  <2> QED BY <1>1, <2>1
<1>4. /\ one \in Seq(TokenSet) /\ FlowBalance(one) = FlowOf(head.type) /\ FlowOf(head.type) \in Int
  BY <1>3, FlowOne
<1>5. /\ tok' = head.type /\ tokens' = rest /\ head.type \in Tokens
  BY <1>1, <1>3 DEF TokenSet
<1>6. /\ D \in Nat /\ FlowOf("none") = 0 /\ Above = D /\ Above' = D + FlowOf(head.type)
  <2>1. D \in Nat /\ FlowOf("none") = 0
    BY AboveType DEF FlowOf, FlowStartTypes, FlowEndTypes
  <2> QED BY <1>1, <1>2, <1>5, <2>1 DEF Above
<1>7. one # <<>> /\ one[Len(one)] = head
  OBVIOUS
<1>8. one = <<head>>
  OBVIOUS
<1> HIDE DEF head, rest, one, D
<1>9. FlowBalance(tokens) = FlowOf(head.type) + FlowBalance(rest) /\ FlowBalance(rest) \in Int
  <2>1. FlowBalance(one \o rest) = FlowBalance(one) + FlowBalance(rest)
    BY <1>3, <1>4, FlowConcat
  <2> QED BY <1>3, <1>4, <2>1, FlowType
<1>10. \A i \in DOMAIN rest : rest[i].type = "StreamEnd" => done /\ i = Len(rest)
  <2> SUFFICES ASSUME NEW i \in DOMAIN rest, rest[i].type = "StreamEnd"
               PROVE  done /\ i = Len(rest)
    OBVIOUS
  <2>1. done /\ i + 1 = Len(tokens)
    BY <1>3 DEF LineInv
  <2> QED BY <1>3, <2>1
<1>11. head.type = "StreamEnd" => done /\ rest = <<>>
  <2>1. head.type = "StreamEnd" => done /\ 1 = Len(tokens)
    BY <1>3 DEF LineInv
  <2>2. Len(rest) = 0 => rest = <<>>
    BY <1>3
  <2> QED BY <1>3, <2>1, <2>2
<1>12. Above' + FlowBalance(rest) = flow_level
  <2>1. Above + FlowBalance(tokens) = flow_level
    BY <1>1 DEF LineInv
  <2> QED BY <1>4, <1>6, <1>9, <2>1
<1>13. ASSUME lenient # {}
       PROVE  Doomed(rest, Above') \/ HandDoomed'
  <2>1. Doomed(tokens, D) \/ HandDoomed
    BY <1>1, <1>6, <1>13 DEF LineInv
  <2>2. CASE HandDoomed
    <3>1. AtKey /\ head.type = "Value"
      BY <1>1, <1>3, <2>2 DEF HandDoomed, FlowEndTypes
    <3> QED BY <1>1, <1>5, <3>1 DEF HandDoomed, AtKey
  <2>3. CASE Doomed(tokens, D)
    <3>1. Doomed(one, D) \/ Doomed(rest, D + FlowOf(head.type)) \/ NoKeyBetween(one, rest)
      <4>1. D \in Int
        BY <1>6
      <4>2. Doomed(one \o rest, D) <=>
              Doomed(one, D) \/ Doomed(rest, D + FlowBalance(one)) \/ NoKeyBetween(one, rest)
        BY <1>3, <1>4, <4>1, DoomJoined
      <4> QED BY <1>3, <1>4, <2>3, <4>2
    <3>2. CASE Doomed(one, D)
      <4>1. (head.type \in FlowEndTypes /\ D <= 0) \/ (head.type = "BlockEntry" /\ D > 0)
        <5>1. D \in Int
          BY <1>6
        <5> QED BY <1>3, <1>8, <3>2, <5>1, DoomOfOne
      <4>2. (head.type \in FlowEndTypes /\ D = 0) \/ (head.type = "BlockEntry" /\ D > 0)
        BY <1>6, <4>1
      <4> QED BY <1>2, <1>5, <4>2 DEF HandDoomed, D
    <3>3. CASE Doomed(rest, D + FlowOf(head.type))
      BY <1>6, <3>3
    <3>4. CASE NoKeyBetween(one, rest)
      <4>1. head.type = "BlockMappingStart" /\ rest # <<>> /\ rest[1].type = "Value"
        BY <1>7, <3>4 DEF NoKeyBetween
      <4> QED BY <1>5, <4>1 DEF HandDoomed
    <3> QED BY <3>1, <3>2, <3>3, <3>4
  <2> QED BY <2>1, <2>2, <2>3
<1>14. FlowBalance(tokens)' = FlowBalance(rest)
  BY <1>5 DEF FlowBalance, Count
<1>15. Doomed(tokens, Above)' <=> Doomed(rest, Above')
  BY <1>5 DEF Doomed, Bad, Ahead, FlowBalance, Count
<1> QED BY <1>1, <1>5, <1>10, <1>11, <1>12, <1>13, <1>14, <1>15 DEF LineInv

LEMMA DetectInvInit == Init => DetectInv
<1> SUFFICES ASSUME Init PROVE DetectInv
  OBVIOUS
<1>1. /\ state = "stream_start" /\ states = <<>> /\ tok = "none" /\ lenient = {} /\ flow_level = 0
      /\ tokens = <<Token("StreamStart", 0)>> /\ Scanning
  BY DEF Init, ParserInit, ScannerInit, Scanning
<1>2. BlockInv
  BY BlockInvInit
<1>3. FlowOnTop
  BY <1>1 DEF FlowOnTop
<1> DEFINE e == Token("StreamStart", 0)
<1>4. e \in TokenSet /\ e.type = "StreamStart"
  BY TokenType DEF Tokens
<1>5. FlowOf("StreamStart") = 0 /\ FlowOf("none") = 0
  BY DEF FlowOf, FlowStartTypes, FlowEndTypes
<1>6. FlowBalance(tokens) = 0 /\ \A i \in DOMAIN tokens : tokens[i].type # "StreamEnd"
  <2>1. tokens = <<e>>
    BY <1>1
  <2> HIDE DEF e
  <2>2. FlowBalance(<<e>>) = 0
    BY <1>4, <1>5, FlowOne
  <2>3. \A i \in DOMAIN <<e>> : <<e>>[i] = e
    OBVIOUS
  <2> QED BY <1>4, <2>1, <2>2, <2>3
<1>7. Above = 0
  <2>1. state \notin FlowStates
    BY <1>1 DEF FlowStates
  <2>2. Depth(FlowStates) = 0
    BY <1>1, <2>1, CountEmpty DEF Depth
  <2> QED BY <1>1, <1>5, <2>2 DEF Above
<1>8. LineInv
  BY <1>1, <1>6, <1>7 DEF LineInv
<1> QED BY <1>1, <1>2, <1>3, <1>8 DEF DetectInv

LEMMA NotCalled ==
  ASSUME tok \notin Tokens
  PROVE  ~Parse
<1>1. ~Called
  BY DEF Called
<1> QED
  BY <1>1 DEF Parse, StreamStart, ImplicitDocumentStart, ProcessDirectives, Directive,
         ExplicitDocumentStart, ExtraDocumentEnd, StreamEnd, DocumentEnd, Root, Property,
         Alias, Collection, Scalar, NoContent, UnknownHandle, ContentComes, InNode, First,
         Item, ItemComes, ItemNode, NoItem, Comma, FlowEntryNode, End, NotInCollection, At

\* The end of the stream is told when nothing is left that was let pass.
LEMMA NothingIsLeft ==
  ASSUME StackOK, LineInv, StreamEnd, UNCHANGED scannerVars, UNCHANGED lenient
  PROVE  tok' = "none" /\ tokens' = <<>> /\ lenient' = {} /\ flow_level' = 0
<1>1. /\ state = "document_start" /\ tok = "StreamEnd" /\ tok' = "none"
      /\ tokens' = tokens /\ flow_level' = flow_level /\ lenient' = lenient
  BY DEF StreamEnd, At, TakeFor, scannerVars
<1>2. tokens = <<>>
  BY <1>1 DEF LineInv
<1>3. FlowBalance(tokens) = 0
  BY <1>2, CountEmpty DEF FlowBalance
<1>4. Above = 0
  <2>1. states = <<>> /\ state \notin FlowStates
    BY <1>1 DEF StackOK, Outside, FlowStates
  <2>2. Depth(FlowStates) = 0
    BY <2>1, CountEmpty DEF Depth
  <2>3. FlowOf("StreamEnd") = 0
    BY DEF FlowOf, FlowStartTypes, FlowEndTypes
  <2> QED BY <1>1, <2>2, <2>3 DEF Above
<1>5. flow_level = 0
  BY <1>1, <1>3, <1>4 DEF LineInv
<1>6. ~Doomed(tokens, Above) /\ ~HandDoomed
  <2>1. ~Doomed(tokens, Above)
    BY <1>2 DEF Doomed
  <2>2. ~HandDoomed
    BY <1>1 DEF HandDoomed, FlowEndTypes
  <2> QED BY <2>1, <2>2
<1>7. lenient = {}
  BY <1>1, <1>6 DEF LineInv
<1> QED BY <1>1, <1>2, <1>5, <1>7

LEMMA DetectInvStep == DetectInv /\ [Next]_vars => DetectInv'
<1> SUFFICES ASSUME DetectInv, [Next]_vars PROVE DetectInv'
  OBVIOUS
<1>1. /\ BlockInv /\ StackOK /\ KeyInv /\ HandInv /\ FlowOnTop
      /\ BlockInv' /\ StackOK' /\ KeyInv'
      /\ (state = "None" => tok = "none" /\ tokens = <<>> /\ lenient = {} /\ flow_level = 0)
      /\ (IF Scanning THEN LineInv ELSE Asking)
  BY BlockInvStep DEF DetectInv, BlockInv
<1>2. CASE UNCHANGED vars
  <2>1. /\ UNCHANGED <<state, states, pos, tok, tokens, flow_level, lenient, done>>
        /\ kind' = kind /\ failed' = failed /\ current_event' = current_event
    BY <1>2 DEF vars, scannerVars, parserVars, stack, node
  <2>2. FlowOnTop'
    BY <1>1, <2>1 DEF FlowOnTop
  <2>3. IF Scanning' THEN LineInv' ELSE Asking'
    BY <1>1, <2>1, LineStays DEF Scanning, Asking
  <2> QED BY <1>1, <2>1, <2>2, <2>3 DEF DetectInv
<1>3. CASE ParserStep /\ get_event
  <2>1. /\ UNCHANGED <<state, states, pos, tok, tokens, flow_level, lenient, done>>
        /\ kind' = kind /\ failed' = failed /\ current_event # "none"
    BY <1>3 DEF ParserStep, get_event, scannerVars, stack, node
  <2>2. FlowOnTop'
    BY <1>1, <2>1 DEF FlowOnTop
  <2>3. Scanning /\ Scanning'
    BY <1>1, <2>1 DEF Scanning, Asking
  <2>4. LineInv'
    BY <1>1, <2>1, <2>3, LineStays
  <2> QED BY <1>1, <2>1, <2>2, <2>3, <2>4 DEF DetectInv
<1>4. CASE ParserStep /\ Parse
  <2>1. UNCHANGED scannerVars /\ UNCHANGED lenient
    BY <1>4 DEF ParserStep
  <2>2. tok \in Tokens /\ tok # "raised" /\ tok # "none"
    BY <1>4, NotCalled, NotTokens
  <2>3. Scanning /\ Scanning' /\ LineInv
    BY <1>1, <2>1, <2>2 DEF Asking, Scanning, scannerVars
  <2>4. FlowOnTop'
    BY <1>1, <1>4, <2>2, FlowOnTopStep
  <2>5. LineInv'
    BY <1>1, <1>4, <2>1, <2>2, <2>3, ParserKeepsLine
  <2>6. state' = "None" => tok' = "none" /\ tokens' = <<>> /\ lenient' = {} /\ flow_level' = 0
    BY <1>1, <1>4, <2>1, <2>3, StreamIsOver, NothingIsLeft
  <2> QED BY <1>1, <2>3, <2>4, <2>5, <2>6 DEF DetectInv
<1>5. CASE Peek
  <2>1. state # "None" /\ Scanning /\ Scanning' /\ tok = "none"
        /\ state' = state /\ states' = states /\ pos' = pos /\ kind' = kind
    BY <1>5 DEF Peek, Asking, Taken, Scanning, stack, node
  <2>2. FlowOnTop'
    BY <1>1, <2>1 DEF FlowOnTop
  <2>3. LineInv'
    BY <1>1, <1>5, <2>1, PeekKeepsLine
  <2> QED BY <1>1, <2>1, <2>2, <2>3 DEF DetectInv
<1>6. CASE ScanMore
  <2>1. /\ Asking /\ Asking' /\ state # "None" /\ state' = state /\ tok = "none" /\ tok' = tok
        /\ states' = states /\ pos' = pos /\ kind' = kind
    BY <1>6 DEF ScanMore, Asking, parserVars, stack, node
  <2>2. Scanning
    <3>1. FetchAny => Scanning
      BY <1>1, Fetches
    <3> QED BY <1>6, <3>1 DEF ScanMore, StaleKey, Scanning
  <2>3. FlowOnTop'
    BY <1>1, <2>1 DEF FlowOnTop
  <2>4. Scanning' => LineInv'
    BY <1>1, <1>6, <2>1, <2>2, FetchingKeepsLine
  <2> QED BY <1>1, <2>1, <2>3, <2>4 DEF DetectInv
<1> QED BY <1>2, <1>3, <1>4, <1>5, <1>6 DEF Next, ParserStep

\* The comments of fetch_block_entry() and fetch_value() leave errors for the
\* parser to detect, and fetch_flow_collection_end() does not look whether the
\* collection had begun, nor fetch_stream_end() whether it is closed.  On any
\* text, where the parser comes to the end of the stream, none of this was there.
THEOREM WhatPassesIsDetected == Spec => []ParserDetectsIt
<1>1. DetectInv => ParserDetectsIt
  BY DEF DetectInv, ParserDetectsIt
<1> QED BY <1>1, DetectInvInit, DetectInvStep, PTL DEF Spec
=============================================================================
