---------------------------- MODULE EventProofs ----------------------------
(***************************************************************************)
(* Events: the parser, on any text, implements EventStream, and the        *)
(* emitter carries nothing over from one event to the next.                *)
(***************************************************************************)
EXTENDS RoundTrip, ReadingProofs

-----------------------------------------------------------------------------
\* FlattenSeq is a recursive function.

\* What f[n] is: the first n elements of s, flattened.
Flattens(s, f, n) ==
  \A i \in 1..n : f[i] = IF i = 1 THEN s[i] ELSE f[i - 1] \o s[i]

\* A property of numbers that holds for each if it does for all below.
LEMMA LeastCounterexample ==
  ASSUME NEW S \in SUBSET Nat, S # {}
  PROVE  \E n \in S : \A m \in S : n <= m
<1>1. PICK n \in S : \A m \in S : ~(<<m, n>> \in OpToRel(<, Nat))
  BY WFMin, NatLessThanWellFounded, Zenon
<1>2. \A m \in S : ~(m < n)
  BY <1>1 DEF OpToRel
<1> QED BY <1>2

LEMMA FlattenExists ==
  ASSUME NEW T, NEW s \in Seq(Seq(T)), NEW n \in 1..Len(s)
  PROVE  \E f \in [1..n -> Seq(T)] : Flattens(s, f, n)
<1> DEFINE S == {k \in 1..Len(s) : ~\E f \in [1..k -> Seq(T)] : Flattens(s, f, k)}
<1>1. SUFFICES ASSUME S # {} PROVE FALSE
  OBVIOUS
<1>2. Len(s) \in Nat /\ \A i \in 1..Len(s) : s[i] \in Seq(T)
  OBVIOUS
<1>3. PICK k \in S : \A m \in S : k <= m
  <2>1. S \in SUBSET Nat
    BY <1>2
  <2> HIDE DEF S
  <2> QED BY <1>1, <2>1, LeastCounterexample
<1>4. CASE k = 1
  <2> DEFINE f == [i \in 1..1 |-> s[1]]
  <2>1. f \in [1..k -> Seq(T)] /\ Flattens(s, f, k)
    BY <1>2, <1>4 DEF Flattens
  <2> QED BY <1>3, <2>1
<1>5. CASE k # 1
  <2>1. k \in 1..Len(s) /\ k - 1 \in 1..Len(s) /\ k - 1 \notin S
    <3>1. k \in 1..Len(s) /\ k \in Nat /\ k - 1 \in 1..Len(s) /\ ~(k <= k - 1)
      BY <1>2, <1>3, <1>5
    <3> HIDE DEF S
    <3> QED BY <1>3, <3>1
  <2>2. PICK f \in [1..(k - 1) -> Seq(T)] : Flattens(s, f, k - 1)
    BY <2>1
  <2> DEFINE g == [i \in 1..k |-> IF i = k THEN f[k - 1] \o s[k] ELSE f[i]]
  <2>3. g \in [1..k -> Seq(T)]
    <3>1. f[k - 1] \in Seq(T) /\ s[k] \in Seq(T)
      BY <1>2, <2>1
    <3>2. f[k - 1] \o s[k] \in Seq(T)
      BY <3>1
    <3> QED BY <1>2, <2>1, <3>2
  <2>4. g[k] = f[k - 1] \o s[k] /\ \A i \in 1..(k - 1) : g[i] = f[i]
    <3>1. k \in 1..k /\ \A i \in 1..(k - 1) : i \in 1..k /\ i # k
      BY <1>2, <2>1
    <3> QED BY <3>1
  <2> HIDE DEF g
  <2>5. ASSUME NEW i \in 1..k
        PROVE  g[i] = IF i = 1 THEN s[i] ELSE g[i - 1] \o s[i]
    <3>1. CASE i = k
      <4>1. k - 1 \in 1..(k - 1)
        BY <1>2, <2>1
      <4>2. g[k - 1] = f[k - 1]
        BY <2>4, <4>1
      <4> QED BY <1>5, <2>4, <3>1, <4>2
    <3>2. CASE i # k
      <4>1. i \in 1..(k - 1) /\ (i # 1 => i - 1 \in 1..(k - 1))
        BY <1>2, <2>1, <3>2
      <4> QED BY <2>2, <2>4, <4>1 DEF Flattens
    <3> QED BY <3>1, <3>2
  <2>6. Flattens(s, g, k)
    BY <2>5 DEF Flattens
  <2> QED BY <1>3, <2>3, <2>6
<1> QED BY <1>4, <1>5

LEMMA FlattenUnique ==
  ASSUME NEW s, NEW f, NEW g, NEW n \in Nat, Flattens(s, f, n), Flattens(s, g, n)
  PROVE  \A i \in 1..n : f[i] = g[i]
<1> DEFINE S == {i \in 1..n : f[i] # g[i]}
<1>1. SUFFICES ASSUME S # {} PROVE FALSE
  OBVIOUS
<1>2. PICK k \in S : \A m \in S : k <= m
  <2>1. S \in SUBSET Nat
    OBVIOUS
  <2> HIDE DEF S
  <2> QED BY <1>1, <2>1, LeastCounterexample
<1>3. k # 1 => k - 1 \in 1..n /\ k - 1 \notin S
  BY <1>2
<1>4. f[k] = g[k]
  BY <1>2, <1>3 DEF Flattens
<1> QED BY <1>2, <1>4

LEMMA FlattenIs ==
  ASSUME NEW T, NEW s \in Seq(Seq(T)), Len(s) > 0,
         NEW f \in [1..Len(s) -> Seq(T)], Flattens(s, f, Len(s))
  PROVE  FlattenSeq(s) = f[Len(s)]
<1> DEFINE F == CHOOSE h : h = [i \in 1..Len(s) |-> IF i = 1 THEN s[i] ELSE h[i - 1] \o s[i]]
<1>1. FlattenSeq(s) = F[Len(s)]
  BY DEF FlattenSeq
<1>2. f = [i \in 1..Len(s) |-> IF i = 1 THEN s[i] ELSE f[i - 1] \o s[i]]
  BY DEF Flattens
<1>3. F = [i \in 1..Len(s) |-> IF i = 1 THEN s[i] ELSE F[i - 1] \o s[i]]
  BY <1>2
<1> HIDE DEF F
<1>4. Flattens(s, F, Len(s))
  BY <1>3 DEF Flattens
<1>5. Len(s) \in Nat
  OBVIOUS
<1>6. \A i \in 1..Len(s) : F[i] = f[i]
  BY <1>4, <1>5, FlattenUnique
<1> QED BY <1>1, <1>5, <1>6

LEMMA FlattenAppend ==
  ASSUME NEW T, NEW s \in Seq(Seq(T)), NEW x \in Seq(T)
  PROVE  FlattenSeq(s) \in Seq(T) /\ FlattenSeq(Append(s, x)) = FlattenSeq(s) \o x
<1> DEFINE r == Append(s, x)
           n == Len(s)
<1>1. /\ n \in Nat /\ r \in Seq(Seq(T)) /\ Len(r) = n + 1
      /\ r[n + 1] = x /\ \A i \in 1..n : r[i] = s[i]
  OBVIOUS
<1>2. PICK g \in [1..(n + 1) -> Seq(T)] : Flattens(r, g, n + 1)
  <2>1. n + 1 \in 1..Len(r)
    BY <1>1
  <2> HIDE DEF r, n
  <2> QED BY <1>1, <2>1, FlattenExists
<1>3. FlattenSeq(r) = g[n + 1]
  <2> HIDE DEF r
  <2>1. Len(r) > 0
    BY <1>1
  <2> QED BY <1>1, <1>2, <2>1, FlattenIs
<1>4. CASE n = 0
  <2>1. FlattenSeq(s) = <<>>
    BY <1>4 DEF FlattenSeq
  <2>2. g[n + 1] = x
    <3>1. r[1] = x /\ n + 1 = 1 /\ 1 \in 1..(n + 1)
      BY <1>1, <1>4
    <3> HIDE DEF r, n
    <3> QED BY <1>2, <3>1 DEF Flattens
  <2> QED BY <1>3, <2>1, <2>2
<1>5. CASE n # 0
  <2> DEFINE f == [i \in 1..n |-> g[i]]
  <2>1. f \in [1..n -> Seq(T)] /\ \A i \in 1..n : f[i] = g[i]
    BY <1>1, <1>2
  <2> HIDE DEF f
  <2>2. Flattens(s, f, n)
    <3>1. ASSUME NEW i \in 1..n
          PROVE  f[i] = IF i = 1 THEN s[i] ELSE f[i - 1] \o s[i]
      <4>1. g[i] = IF i = 1 THEN r[i] ELSE g[i - 1] \o r[i]
        <5>1. i \in 1..(n + 1)
          BY <1>1
        <5> HIDE DEF r, n
        <5> QED BY <1>2, <5>1 DEF Flattens
      <4>2. i # 1 => i - 1 \in 1..n
        BY <1>1
      <4> QED BY <1>1, <2>1, <4>1, <4>2
    <3> QED BY <3>1 DEF Flattens
  <2>3. FlattenSeq(s) = f[n]
    <3>1. Len(s) > 0
      BY <1>1, <1>5
    <3> QED BY <2>1, <2>2, <3>1, FlattenIs
  <2>4. g[n + 1] = g[n] \o x
    <3>1. n + 1 \in 1..(n + 1) /\ n + 1 # 1 /\ (n + 1) - 1 = n
      BY <1>1, <1>5
    <3> QED BY <1>1, <1>2, <3>1 DEF Flattens
  <2>5. n \in 1..n
    BY <1>1, <1>5
  <2> QED BY <1>3, <2>1, <2>3, <2>4, <2>5
<1> QED BY <1>4, <1>5
-----------------------------------------------------------------------------
\* Sequences that end in o: the last element, and those before it.

LEMMA EndOf ==
  ASSUME NEW T, NEW p \in Seq(T), NEW o \in Seq(T), o # <<>>
  PROVE  /\ p \o o \in Seq(T) /\ p \o o # <<>>
         /\ Last(p \o o) = Last(o) /\ Front(p \o o) = p \o Front(o)
<1> DEFINE r == p \o o
<1>1. /\ r \in Seq(T) /\ Len(r) = Len(p) + Len(o) /\ Len(p) \in Nat /\ Len(o) \in Nat /\ Len(o) > 0
      /\ \A i \in 1..Len(p) : r[i] = p[i]
      /\ \A i \in 1..Len(o) : r[Len(p) + i] = o[i]
  OBVIOUS
<1>2. r # <<>> /\ o \in Seq(T)
  BY <1>1
<1>3. Last(r) = Last(o)
  <2>1. Len(o) \in 1..Len(o)
    BY <1>1
  <2> HIDE DEF r
  <2> QED BY <1>1, <2>1 DEF Last
<1>4. Front(r) = p \o Front(o)
  <2>1. Front(o) \in Seq(T) /\ Len(Front(o)) = Len(o) - 1
        /\ \A i \in 1..(Len(o) - 1) : Front(o)[i] = o[i]
    <3>1. /\ Front(o) \in Seq(T) /\ Len(Front(o)) = Len(o) - 1
          /\ \A i \in DOMAIN Front(o) : Front(o)[i] = o[i]
      BY FrontLast
    <3> QED BY <3>1
  <2>2. Front(r) \in Seq(T) /\ Len(Front(r)) = Len(r) - 1
        /\ \A i \in 1..(Len(r) - 1) : Front(r)[i] = r[i]
    <3> HIDE DEF r
    <3>1. /\ Front(r) \in Seq(T) /\ Len(Front(r)) = Len(r) - 1
          /\ \A i \in DOMAIN Front(r) : Front(r)[i] = r[i]
      BY <1>1, <1>2, FrontLast
    <3> QED BY <3>1
  <2> DEFINE a == Front(r)
             b == Front(o)
             c == p \o b
  <2>3. /\ c \in Seq(T) /\ Len(c) = Len(p) + Len(o) - 1
        /\ \A i \in 1..Len(p) : c[i] = p[i]
        /\ \A i \in 1..(Len(o) - 1) : c[Len(p) + i] = b[i]
    <3> HIDE DEF b
    <3>1. b \in Seq(T) /\ Len(b) = Len(o) - 1
      BY <2>1 DEF b
    <3>2. /\ p \o b \in Seq(T) /\ Len(p \o b) = Len(p) + Len(b)
          /\ \A i \in 1..Len(p) : (p \o b)[i] = p[i]
          /\ \A i \in 1..Len(b) : (p \o b)[Len(p) + i] = b[i]
      BY <3>1
    <3> HIDE DEF r
    <3> QED BY <1>1, <3>1, <3>2
  <2>4. Len(a) = Len(c)
    <3> HIDE DEF r, c
    <3>1. Len(a) = Len(r) - 1
      BY <2>2 DEF a
    <3> HIDE DEF a
    <3> QED BY <1>1, <2>3, <3>1
  <2>5. ASSUME NEW i \in 1..Len(c)
        PROVE  a[i] = c[i]
    <3>1. a[i] = r[i]
      <4>1. i \in 1..(Len(r) - 1)
        BY <1>1, <2>3
      <4> QED BY <2>2, <4>1
    <3> HIDE DEF r, c, a, b
    <3>2. CASE i \in 1..Len(p)
      BY <1>1, <2>3, <3>1, <3>2
    <3>3. CASE i \notin 1..Len(p)
      <4>1. i - Len(p) \in 1..(Len(o) - 1) /\ i - Len(p) \in 1..Len(o)
            /\ Len(p) + (i - Len(p)) = i
        BY <1>1, <2>3, <3>3
      <4>2. b[i - Len(p)] = o[i - Len(p)]
        BY <2>1, <4>1 DEF b
      <4> QED BY <1>1, <2>3, <3>1, <4>1, <4>2
    <3> QED BY <3>2, <3>3
  <2> HIDE DEF a, c
  <2>6. a \in Seq(T) /\ c \in Seq(T)
    BY <2>2, <2>3 DEF a
  <2>7. a = c
    BY <2>4, <2>5, <2>6, SeqEqual
  <2> QED BY <2>7 DEF a, c
<1> QED BY <1>1, <1>2, <1>3, <1>4

LEMMA AppendEnd ==
  ASSUME NEW T, NEW p \in Seq(T), NEW o \in Seq(T), NEW e \in T
  PROVE  Append(p \o o, e) = p \o Append(o, e) /\ Append(o, e) = o \o <<e>>
<1> DEFINE a == Append(p \o o, e)
           b == Append(o, e)
           c == p \o b
<1>1. /\ p \o o \in Seq(T) /\ Len(p \o o) = Len(p) + Len(o)
      /\ Len(p) \in Nat /\ Len(o) \in Nat
      /\ \A i \in 1..Len(p) : (p \o o)[i] = p[i]
      /\ \A i \in 1..Len(o) : (p \o o)[Len(p) + i] = o[i]
  OBVIOUS
<1>2. /\ b \in Seq(T) /\ Len(b) = Len(o) + 1 /\ b[Len(o) + 1] = e
      /\ \A i \in 1..Len(o) : b[i] = o[i]
  OBVIOUS
<1>3. /\ a \in Seq(T) /\ Len(a) = Len(p \o o) + 1 /\ a[Len(p \o o) + 1] = e
      /\ \A i \in 1..Len(p \o o) : a[i] = (p \o o)[i]
  <2> DEFINE r == p \o o
  <2>1. r \in Seq(T)
    BY <1>1
  <2> HIDE DEF r
  <2>2. /\ Append(r, e) \in Seq(T) /\ Len(Append(r, e)) = Len(r) + 1
        /\ Append(r, e)[Len(r) + 1] = e
        /\ \A i \in 1..Len(r) : Append(r, e)[i] = r[i]
    BY <2>1
  <2> QED BY <2>2 DEF r
<1>4. b = o \o <<e>>
  OBVIOUS
<1> HIDE DEF b
<1>5. /\ c \in Seq(T) /\ Len(c) = Len(p) + Len(b)
      /\ \A i \in 1..Len(p) : c[i] = p[i]
      /\ \A i \in 1..Len(b) : c[Len(p) + i] = b[i]
  BY <1>2
<1> HIDE DEF a, c
<1>6. Len(a) = Len(c)
  BY <1>1, <1>2, <1>3, <1>5
<1>7. ASSUME NEW i \in 1..Len(c)
      PROVE  a[i] = c[i]
  <2> DEFINE r == p \o o
  <2>1. /\ Len(r) = Len(p) + Len(o) /\ a[Len(r) + 1] = e
        /\ \A k \in 1..Len(r) : a[k] = r[k]
        /\ \A k \in 1..Len(p) : r[k] = p[k]
        /\ \A k \in 1..Len(o) : r[Len(p) + k] = o[k]
    BY <1>1, <1>3
  <2> HIDE DEF r
  <2>2. CASE i \in 1..Len(p)
    BY <1>1, <1>5, <2>1, <2>2
  <2>3. CASE i \in (Len(p) + 1)..(Len(p) + Len(o))
    <3>1. i - Len(p) \in 1..Len(o) /\ i - Len(p) \in 1..Len(b) /\ Len(p) + (i - Len(p)) = i
          /\ i \in 1..Len(r)
      BY <1>1, <1>2, <2>1, <2>3
    <3>2. c[i] = b[i - Len(p)] /\ b[i - Len(p)] = o[i - Len(p)]
      BY <1>2, <1>5, <3>1
    <3>3. a[i] = r[i] /\ r[i] = o[i - Len(p)]
      BY <2>1, <3>1
    <3> QED BY <3>2, <3>3
  <2>4. CASE i = Len(p) + Len(o) + 1
    <3>1. Len(o) + 1 \in 1..Len(b) /\ Len(p) + (Len(o) + 1) = i /\ Len(r) + 1 = i
      BY <1>1, <1>2, <2>1, <2>4
    <3> QED BY <1>2, <1>5, <2>1, <3>1
  <2>5. Len(c) = Len(p) + Len(o) + 1 /\ i \in 1..Len(c) /\ Len(p) \in Nat /\ Len(o) \in Nat
    BY <1>1, <1>2, <1>5
  <2>6. i \in 1..Len(p) \/ i \in (Len(p) + 1)..(Len(p) + Len(o)) \/ i = Len(p) + Len(o) + 1
    BY <2>5
  <2> QED BY <2>2, <2>3, <2>4, <2>6
<1>8. a = c
  BY <1>3, <1>5, <1>6, <1>7, SeqEqual
<1> QED BY <1>4, <1>8 DEF a, b, c

LEMMA AppendsEnd ==
  ASSUME NEW T, NEW s \in Seq(T), NEW e
  PROVE  Front(Append(s, e)) = s /\ Last(Append(s, e)) = e
<1> DEFINE U == T \cup {e}
           r == Append(s, e)
<1>1. s \in Seq(U) /\ e \in U
  BY SeqMonotonic
<1> HIDE DEF U
<1>2. /\ r \in Seq(U) /\ Len(r) = Len(s) + 1 /\ r[Len(s) + 1] = e /\ Len(s) \in Nat
      /\ \A i \in 1..Len(s) : r[i] = s[i]
  BY <1>1
<1>3. r # <<>>
  BY <1>2
<1> HIDE DEF r
<1>4. /\ Front(r) \in Seq(U) /\ Len(Front(r)) = Len(r) - 1 /\ Last(r) = r[Len(r)]
      /\ \A i \in DOMAIN Front(r) : Front(r)[i] = r[i]
  BY <1>2, <1>3, FrontLast
<1>5. Len(Front(r)) = Len(s) /\ \A i \in 1..Len(Front(r)) : Front(r)[i] = s[i]
  BY <1>2, <1>4
<1>6. Front(r) = s
  BY <1>1, <1>4, <1>5, SeqEqual
<1> QED BY <1>2, <1>4, <1>6 DEF r

LEMMA StreamEnds == \A s : Stream!Front(s) = Front(s) /\ Stream!Last(s) = Last(s)
BY DEF Stream!Front, Stream!Last, Front, Last

LEMMA ShortEnds ==
  ASSUME NEW a, NEW b
  PROVE  /\ Front(<<a>>) = <<>> /\ Last(<<a>>) = a
         /\ Front(<<a, b>>) = <<a>> /\ Last(<<a, b>>) = b
<1> DEFINE T == {a, b}
           s == <<a>>
           t == <<a, b>>
<1>1. s \in Seq(T) /\ Len(s) = 1 /\ s[1] = a /\ t \in Seq(T) /\ Len(t) = 2 /\ t[1] = a /\ t[2] = b
  OBVIOUS
<1>2. s # <<>> /\ t # <<>>
  OBVIOUS
<1> HIDE DEF T, s, t
<1>3. /\ Front(s) \in Seq(T) /\ Len(Front(s)) = 0 /\ Last(s) = a
      /\ Front(t) \in Seq(T) /\ Len(Front(t)) = 1 /\ Last(t) = b
  <2>1. Front(s) \in Seq(T) /\ Len(Front(s)) = Len(s) - 1 /\ Last(s) = s[Len(s)]
    BY <1>1, <1>2, FrontLast
  <2>2. Front(t) \in Seq(T) /\ Len(Front(t)) = Len(t) - 1 /\ Last(t) = t[Len(t)]
    BY <1>1, <1>2, FrontLast
  <2> QED BY <1>1, <2>1, <2>2
<1>4. Front(t)[1] = a
  <2>1. /\ \A i \in DOMAIN Front(t) : Front(t)[i] = t[i]
    BY <1>1, <1>2, FrontLast
  <2>2. 1 \in DOMAIN Front(t)
    BY <1>3
  <2> QED BY <1>1, <2>1, <2>2
<1>5. Front(s) = <<>> /\ Front(t) = <<a>>
  BY <1>3, <1>4
<1> QED BY <1>3, <1>5 DEF s, t
-----------------------------------------------------------------------------
\* What the functions of the parser find open, and what a node makes of it.

Names == {"stream", "doc", "done", "seq", "key", "value"}
Opened(s) == IF s \in DOMAIN Opens THEN Opens[s] ELSE <<>>
Following(o) == Append(Front(o), Stream!After[Last(o)])

\* Function t comes after a node of function s.
Follows(s, t) ==
  /\ Opened(s) # <<>> /\ Last(Opened(s)) \in DOMAIN Stream!After
  /\ Opened(t) = Following(Opened(s))

LEMMA NamesEndOf ==
  \A p, o \in Seq(Names) : o # <<>> =>
    p \o o # <<>> /\ Last(p \o o) = Last(o) /\ Front(p \o o) = p \o Front(o)
  BY EndOf

LEMMA OpenTable ==
  /\ \A s \in Roots : Opened(s) = <<"doc">>
  /\ Opened("document_end") = <<"done">>
  /\ \A s \in Outside \ {"document_end"} : Opened(s) = <<>>
  /\ \A s \in {"block_sequence_first_entry", "block_sequence_entry", "indentless_sequence_entry",
               "flow_sequence_first_entry", "flow_sequence_entry"} : Opened(s) = <<"seq">>
  /\ \A s \in {"block_mapping_first_key", "block_mapping_key", "flow_mapping_first_key",
               "flow_mapping_key"} : Opened(s) = <<"key">>
  /\ \A s \in {"block_mapping_value", "flow_mapping_value", "flow_mapping_empty_value"} :
       Opened(s) = <<"value">>
  /\ Opened("flow_sequence_entry_mapping_key") = <<"seq", "key">>
  /\ Opened("flow_sequence_entry_mapping_value") = <<"seq", "value">>
  /\ Opened("flow_sequence_entry_mapping_end") = <<"seq", "key">>
BY DEF Opened, Opens, Roots, Outside

LEMMA OpenedType == \A s : Opened(s) \in Seq(Names)
<1> SUFFICES ASSUME NEW s PROVE Opened(s) \in Seq(Names)
  OBVIOUS
<1>1. CASE s \notin DOMAIN Opens
  BY <1>1 DEF Opened
<1>2. CASE s \in DOMAIN Opens
  <2>1. s \in Roots \cup {"document_end"} \cup Firsts \cup Inner
    BY <1>2 DEF Opens, Roots, Firsts, Inner, MarkedStates, BlockStates, FlowStates
  <2>2. Opened(s) \in {<<"doc">>, <<"done">>, <<"seq">>, <<"key">>, <<"value">>, <<"seq", "key">>,
                       <<"seq", "value">>}
    BY <2>1, OpenTable DEF Roots, Firsts, Inner, MarkedStates, BlockStates, FlowStates
  <2>3. /\ <<"doc">> \in Seq(Names) /\ <<"done">> \in Seq(Names) /\ <<"seq">> \in Seq(Names)
        /\ <<"key">> \in Seq(Names) /\ <<"value">> \in Seq(Names)
        /\ <<"seq", "key">> \in Seq(Names) /\ <<"seq", "value">> \in Seq(Names)
    BY DEF Names
  <2> QED BY <2>2, <2>3
<1> QED BY <1>1, <1>2

LEMMA ShortAppends ==
  ASSUME NEW a, NEW b
  PROVE  Append(<<>>, a) = <<a>> /\ Append(<<a>>, b) = <<a, b>>
<1> DEFINE T == {a, b}
<1>1. <<>> \in Seq(T) /\ <<a>> \in Seq(T) /\ a \in T /\ b \in T
  OBVIOUS
<1>2. Append(<<>>, a) = <<a>>
  BY <1>1
<1>3. Append(<<a>>, b) = <<a, b>>
  <2> DEFINE r == Append(<<a>>, b)
             t == <<a, b>>
  <2>1. r \in Seq(T) /\ Len(r) = 2 /\ r[1] = a /\ r[2] = b
    BY <1>1
  <2>2. t \in Seq(T) /\ Len(t) = 2 /\ t[1] = a /\ t[2] = b
    BY <1>1
  <2> HIDE DEF r, t, T
  <2>3. \A i \in 1..Len(r) : r[i] = t[i]
    <3>1. \A i \in 1..2 : i = 1 \/ i = 2
      OBVIOUS
    <3> QED BY <2>1, <2>2, <3>1
  <2>4. r = t
    BY <2>1, <2>2, <2>3, SeqEqual
  <2> QED BY <2>4 DEF r, t
<1> QED BY <1>2, <1>3

LEMMA FollowingTable ==
  /\ DOMAIN Stream!After = {"doc", "seq", "key", "value"}
  /\ Following(<<"doc">>) = <<"done">> /\ Following(<<"seq">>) = <<"seq">>
  /\ Following(<<"key">>) = <<"value">> /\ Following(<<"value">>) = <<"key">>
  /\ Following(<<"seq", "key">>) = <<"seq", "value">>
  /\ Following(<<"seq", "value">>) = <<"seq", "key">>
<1>1. /\ DOMAIN Stream!After = {"doc", "seq", "key", "value"}
      /\ Stream!After["doc"] = "done" /\ Stream!After["seq"] = "seq"
      /\ Stream!After["key"] = "value" /\ Stream!After["value"] = "key"
  BY DEF Stream!After
<1>3. \A a : Following(<<a>>) = <<Stream!After[a]>>
  BY ShortAppends, ShortEnds DEF Following
<1>4. \A a, b : Following(<<a, b>>) = <<a, Stream!After[b]>>
  BY ShortAppends, ShortEnds DEF Following
<1> QED BY <1>1, <1>3, <1>4

LEMMA FollowTable ==
  /\ \A s \in Roots : Follows(s, "document_end")
  /\ \A s \in DOMAIN Items : Follows(s, Items[s].then)
  /\ Follows("flow_sequence_entry", "flow_sequence_entry")
  /\ Follows("flow_mapping_key", "flow_mapping_empty_value")
  /\ Follows("flow_mapping_empty_value", "flow_mapping_key")
<1>1. /\ \A a : <<a>> # <<>> /\ Last(<<a>>) = a
      /\ \A a, b : <<a, b>> # <<>> /\ Last(<<a, b>>) = b
  BY ShortEnds
<1>2. \A s \in Roots : Follows(s, "document_end")
  BY <1>1, OpenTable, FollowingTable DEF Follows
<1>3. /\ Follows("flow_sequence_entry", "flow_sequence_entry")
      /\ Follows("flow_mapping_key", "flow_mapping_empty_value")
      /\ Follows("flow_mapping_empty_value", "flow_mapping_key")
  BY <1>1, OpenTable, FollowingTable DEF Follows
<1>4. ASSUME NEW s \in DOMAIN Items
      PROVE  Follows(s, Items[s].then)
  <2>1. \/ s = "block_sequence_entry" /\ Items[s].then = "block_sequence_entry"
        \/ s = "indentless_sequence_entry" /\ Items[s].then = "indentless_sequence_entry"
        \/ s = "block_mapping_key" /\ Items[s].then = "block_mapping_value"
        \/ s = "block_mapping_value" /\ Items[s].then = "block_mapping_key"
        \/ s = "flow_mapping_key" /\ Items[s].then = "flow_mapping_value"
        \/ s = "flow_mapping_value" /\ Items[s].then = "flow_mapping_key"
        \/ s = "flow_sequence_entry_mapping_key"
             /\ Items[s].then = "flow_sequence_entry_mapping_value"
        \/ s = "flow_sequence_entry_mapping_value"
             /\ Items[s].then = "flow_sequence_entry_mapping_end"
    BY DEF Items
  <2>2. \/ Opened(s) = <<"seq">> /\ Opened(Items[s].then) = <<"seq">>
        \/ Opened(s) = <<"key">> /\ Opened(Items[s].then) = <<"value">>
        \/ Opened(s) = <<"value">> /\ Opened(Items[s].then) = <<"key">>
        \/ Opened(s) = <<"seq", "key">> /\ Opened(Items[s].then) = <<"seq", "value">>
        \/ Opened(s) = <<"seq", "value">> /\ Opened(Items[s].then) = <<"seq", "key">>
    BY <2>1, OpenTable
  <2> QED BY <1>1, <2>2, FollowingTable DEF Follows
<1> QED BY <1>2, <1>3, <1>4
-----------------------------------------------------------------------------
\* Open is what the functions on the stack find open, then what the function to
\* be called does.

Flat(fs) == FlattenSeq([i \in DOMAIN fs |-> Opened(fs[i])])
Prefix == <<"stream">> \o Flat(IF Pending THEN Front(states) ELSE states)
States == Outside \cup Roots \cup Firsts \cup Inner

LEMMA FlatAppend ==
  ASSUME NEW fs \in Seq(States), NEW f
  PROVE  Flat(fs) \in Seq(Names) /\ Flat(Append(fs, f)) = Flat(fs) \o Opened(f)
<1> DEFINE os == [i \in DOMAIN fs |-> Opened(fs[i])]
           gs == Append(fs, f)
           ps == [i \in DOMAIN gs |-> Opened(gs[i])]
<1>1. DOMAIN fs = 1..Len(fs) /\ Len(fs) \in Nat
  OBVIOUS
<1>2. \A s : Opened(s) \in Seq(Names)
  BY OpenedType
<1>3. os \in Seq(Seq(Names)) /\ Len(os) = Len(fs) /\ DOMAIN os = DOMAIN fs
      /\ \A i \in DOMAIN fs : os[i] = Opened(fs[i])
  BY <1>1, <1>2
<1>4. ps = Append(os, Opened(f))
  <2>1. DOMAIN gs = 1..(Len(fs) + 1) /\ gs[Len(fs) + 1] = f /\ \A i \in 1..Len(fs) : gs[i] = fs[i]
    <3> DEFINE U == States \cup {f}
    <3>1. fs \in Seq(U) /\ f \in U
      BY SeqMonotonic
    <3> HIDE DEF U
    <3> QED BY <3>1
  <2> HIDE DEF gs, os
  <2>2. /\ DOMAIN Append(os, Opened(f)) = 1..(Len(fs) + 1)
        /\ Append(os, Opened(f))[Len(fs) + 1] = Opened(f)
        /\ \A i \in 1..Len(fs) : Append(os, Opened(f))[i] = os[i]
        /\ Append(os, Opened(f)) \in Seq(Seq(Names))
    BY <1>1, <1>2, <1>3
  <2>3. DOMAIN ps = 1..(Len(fs) + 1) /\ \A i \in 1..(Len(fs) + 1) : ps[i] = Opened(gs[i])
    BY <2>1
  <2>4. ps \in Seq(Seq(Names)) /\ Len(ps) = Len(fs) + 1
    <3>1. Len(fs) + 1 \in Nat
      BY <1>1
    <3> QED BY <1>2, <2>3, <3>1
  <2> HIDE DEF ps
  <2>5. \A i \in 1..(Len(fs) + 1) : ps[i] = Append(os, Opened(f))[i]
    <3> SUFFICES ASSUME NEW i \in 1..(Len(fs) + 1)
                 PROVE  ps[i] = Append(os, Opened(f))[i]
      OBVIOUS
    <3>1. CASE i \in 1..Len(fs)
      BY <1>1, <1>3, <2>1, <2>2, <2>3, <3>1
    <3>2. CASE i = Len(fs) + 1
      BY <2>1, <2>2, <2>3, <3>2
    <3>3. i \in 1..Len(fs) \/ i = Len(fs) + 1
      BY <1>1
    <3> QED BY <3>1, <3>2, <3>3
  <2>6. Len(Append(os, Opened(f))) = Len(fs) + 1
    BY <1>2, <1>3
  <2> QED BY <2>2, <2>4, <2>5, <2>6, SeqEqual
<1> HIDE DEF os, ps, gs
<1>5. FlattenSeq(os) \in Seq(Names) /\ FlattenSeq(Append(os, Opened(f))) = FlattenSeq(os) \o Opened(f)
  BY <1>2, <1>3, FlattenAppend
<1>6. Flat(fs) = FlattenSeq(os)
  BY DEF Flat, os
<1>7. Flat(Append(fs, f)) = FlattenSeq(ps)
  BY DEF Flat, ps, gs
<1> QED BY <1>4, <1>5, <1>6, <1>7

LEMMA FlatEmpty == Flat(<<>>) = <<>>
<1>1. [i \in DOMAIN <<>> |-> Opened(<<>>[i])] = <<>>
  OBVIOUS
<1>2. FlattenSeq(<<>>) = <<>>
  BY DEF FlattenSeq
<1> QED BY <1>1, <1>2 DEF Flat

\* Below the function to be called.
LEMMA PrefixType ==
  ASSUME NEW fs \in Seq(States)
  PROVE  /\ <<"stream">> \o Flat(fs) \in Seq(Names)
         /\ \A f : <<"stream">> \o Flat(Append(fs, f)) = (<<"stream">> \o Flat(fs)) \o Opened(f)
<1>1. Flat(fs) \in Seq(Names) /\ \A f : Flat(Append(fs, f)) = Flat(fs) \o Opened(f)
  BY FlatAppend
<1>2. <<"stream">> \in Seq(Names)
  BY DEF Names
<1>3. ASSUME NEW a \in Seq(Names), NEW b \in Seq(Names), NEW c \in Seq(Names)
      PROVE  a \o (b \o c) = (a \o b) \o c
  OBVIOUS
<1>4. \A f : <<"stream">> \o (Flat(fs) \o Opened(f)) = (<<"stream">> \o Flat(fs)) \o Opened(f)
  BY <1>1, <1>2, <1>3, OpenedType
<1>5. <<"stream">> \o Flat(fs) \in Seq(Names)
  BY <1>1, <1>2
<1> QED BY <1>1, <1>4, <1>5

\* What is open, of a stack of which the functions below are fs.
LEMMA OpenIs ==
  ASSUME NEW fs \in Seq(States), NEW s
  PROVE  <<"stream">> \o FlattenSeq([i \in DOMAIN Append(fs, s) |->
              IF Append(fs, s)[i] \in DOMAIN Opens THEN Opens[Append(fs, s)[i]] ELSE <<>>])
           = (<<"stream">> \o Flat(fs)) \o Opened(s)
<1>1. FlattenSeq([i \in DOMAIN Append(fs, s) |->
        IF Append(fs, s)[i] \in DOMAIN Opens THEN Opens[Append(fs, s)[i]] ELSE <<>>])
          = Flat(Append(fs, s))
  BY DEF Flat, Opened
<1> QED BY <1>1, PrefixType

Below == IF Pending THEN Front(states) ELSE states

LEMMA BelowType ==
  ASSUME StackOK
  PROVE  states \in Seq(States) /\ Below \in Seq(States)
         /\ (state \notin Outside => Front(states) \in Seq(States)
               /\ states = Append(Front(states), Last(states)))
<1>1. Inner \cup {"document_end"} \subseteq States
  BY DEF States, Outside
<1>2. states \in Seq(States)
  BY <1>1, SeqMonotonic DEF StackOK
<1>3. state \notin Outside => states # <<>>
  BY DEF StackOK
<1>4. states # <<>> => Front(states) \in Seq(States) /\ states = Append(Front(states), Last(states))
  BY <1>2, FrontLast
<1>5. Pending => state \notin Outside
  BY LevelsAreInner DEF Pending, StackOK, Roots
<1> QED BY <1>2, <1>3, <1>4, <1>5 DEF Below

Elsewhere == {"stream_start", "None"}

LEMMA OpenNow ==
  ASSUME StackOK, state \notin Elsewhere
  PROVE  Prefix \in Seq(Names) /\ Open = Prefix \o Opened(state)
<1>1. Below \in Seq(States)
  BY BelowType
<1>2. Prefix = <<"stream">> \o Flat(Below)
  BY DEF Prefix, Below
<1>3. Open = <<"stream">> \o FlattenSeq([i \in DOMAIN Append(Below, state) |->
              IF Append(Below, state)[i] \in DOMAIN Opens THEN Opens[Append(Below, state)[i]]
              ELSE <<>>])
  BY DEF Open, Below, Elsewhere
<1> QED BY <1>1, <1>2, <1>3, OpenIs, PrefixType

LEMMA OpenNowImplies ==
  StackOK /\ state \notin Elsewhere => Prefix \in Seq(Names) /\ Open = Prefix \o Opened(state)
BY OpenNow

LEMMA OpenNext ==
  ASSUME StackOK', state' \notin Elsewhere
  PROVE  Prefix' \in Seq(Names) /\ Open' = Prefix' \o Opened(state')
<1>1. (StackOK /\ state \notin Elsewhere
         => Prefix \in Seq(Names) /\ Open = Prefix \o Opened(state))'
  BY OpenNowImplies, PTL
<1> QED BY <1>1 DEF Elsewhere, Opened, Opens, Names

-----------------------------------------------------------------------------
\* What waits for a node says where it goes.
NestInv == StackOK /\ (Pending => Follows(state, Last(states)))

\* The next node of the function to be called.
LEMMA NodeOpens ==
  ASSUME StackOK, state \notin Elsewhere, NEW t, Follows(state, t)
  PROVE  Stream!NodeComes /\ Stream!WithNode = Prefix \o Opened(t)
<1> DEFINE o == Opened(state)
           e == Stream!After[Last(o)]
<1>1. Prefix \in Seq(Names) /\ Open = Prefix \o o /\ o \in Seq(Names)
  BY OpenNow, OpenedType
<1>2. o # <<>> /\ Last(o) \in DOMAIN Stream!After /\ Opened(t) = Append(Front(o), e)
  BY DEF Follows, Following
<1>3. e \in Names
  BY <1>2 DEF Stream!After, Names
<1> HIDE DEF o
<1>4. Front(o) \in Seq(Names)
  BY <1>1, <1>2, FrontLast
<1>5. Open # <<>> /\ Last(Open) = Last(o) /\ Front(Open) = Prefix \o Front(o)
  BY <1>1, <1>2, NamesEndOf
<1>6. Append(Prefix \o Front(o), e) = Prefix \o Append(Front(o), e)
  <2> DEFINE f == Front(o)
             p == Prefix
  <2>1. p \in Seq(Names) /\ f \in Seq(Names) /\ e \in Names
    BY <1>1, <1>3, <1>4
  <2> HIDE DEF e, f, p
  <2>2. Append(p \o f, e) = p \o Append(f, e)
    BY <2>1, AppendEnd
  <2> QED BY <2>2 DEF f, p
<1>7. Stream!WithNode = Append(Prefix \o Front(o), e)
  BY <1>5, StreamEnds DEF Stream!WithNode
<1> QED BY <1>2, <1>5, <1>6, <1>7, StreamEnds DEF Stream!NodeComes

\* Back to the function on top of the stack, after a node.
LEMMA NodeEnds ==
  ASSUME NestInv, Pending, StackOK',
         state' = Last(states), states' = Front(states), pos' = "call"
  PROVE  NestInv' /\ Stream!NodeComes /\ Open' = Stream!WithNode
<1>1. state \notin Outside /\ state \notin Elsewhere
  BY LevelsAreInner DEF NestInv, StackOK, Pending, Roots, Outside, Elsewhere
<1>2. state' \in Inner \cup {"document_end"}
  <2>1. states # <<>> /\ states \in Seq(Inner \cup {"document_end"})
    BY <1>1 DEF NestInv, StackOK
  <2> QED BY <2>1, FrontLast
<1>3. ~Pending' /\ state' \notin Elsewhere
  BY <1>2, LevelsAreInner DEF Pending, Roots, Elsewhere, Outside
<1>4. Prefix' = Prefix
  BY <1>3 DEF Prefix
<1>5. Open' = Prefix \o Opened(state')
  BY <1>3, <1>4, OpenNext
<1>6. Stream!NodeComes /\ Stream!WithNode = Prefix \o Opened(Last(states))
  BY <1>1, NodeOpens DEF NestInv
<1> QED BY <1>3, <1>5, <1>6 DEF NestInv

\* A collection is the node that was to come.
LEMMA CollectionOpens ==
  ASSUME NestInv, Pending, StackOK', states' = states, ~Pending', state' \notin Elsewhere,
         NEW e \in Names, Opened(state') = <<e>>
  PROVE  NestInv' /\ Stream!NodeComes /\ Open' = Append(Stream!WithNode, e)
<1>1. state \notin Outside /\ state \notin Elsewhere
  BY LevelsAreInner DEF NestInv, StackOK, Pending, Roots, Outside, Elsewhere
<1>2. Stream!NodeComes /\ Stream!WithNode = Prefix \o Opened(Last(states))
  BY <1>1, NodeOpens DEF NestInv
<1>3. Prefix' = Prefix \o Opened(Last(states))
  <2>1. Front(states) \in Seq(States) /\ states = Append(Front(states), Last(states))
    BY <1>1, BelowType DEF NestInv
  <2>2. Prefix' = <<"stream">> \o Flat(Append(Front(states), Last(states)))
    BY <2>1 DEF Prefix
  <2> QED BY <2>1, <2>2, PrefixType DEF Prefix
<1>4. Prefix' \in Seq(Names) /\ Open' = Prefix' \o <<e>>
  BY OpenNext
<1>5. Stream!WithNode \in Seq(Names)
  BY <1>2, <1>3, <1>4
<1>6. Append(Stream!WithNode, e) = Stream!WithNode \o <<e>>
  BY <1>5, AppendEnd
<1> QED BY <1>2, <1>3, <1>4, <1>6 DEF NestInv

\* The end of the innermost thing: back to the function below.
LEMMA CollectionEnds ==
  ASSUME NestInv, ~Pending, state \notin Outside, StackOK', NEW e, Opened(state) = <<e>>,
         state' = Last(states), states' = Front(states), pos' = "call"
  PROVE  NestInv' /\ Open # <<>> /\ Last(Open) = e /\ Open' = Front(Open)
<1>1. state \notin Elsewhere /\ Prefix \in Seq(Names) /\ Open = Prefix \o <<e>>
  BY OpenNow DEF NestInv, Elsewhere, Outside
<1>2. <<e>> \in Seq(Names) /\ <<e>> # <<>>
  BY OpenedType
<1>3. Open # <<>> /\ Last(Open) = e /\ Front(Open) = Prefix \o <<>>
  <2> DEFINE o == <<e>>
  <2>1. Front(o) = <<>> /\ Last(o) = e
    BY ShortEnds
  <2>2. o \in Seq(Names) /\ o # <<>> /\ Open = Prefix \o o
    BY <1>1, <1>2
  <2> HIDE DEF o
  <2>3. Open # <<>> /\ Last(Open) = Last(o) /\ Front(Open) = Prefix \o Front(o)
    BY <1>1, <2>2, NamesEndOf
  <2> QED BY <2>1, <2>3
<1>4. Prefix \o <<>> = Prefix
  BY <1>1
<1>5. state' \in Inner \cup {"document_end"}
  <2>1. states # <<>> /\ states \in Seq(Inner \cup {"document_end"})
    BY DEF NestInv, StackOK
  <2> QED BY <2>1, FrontLast
<1>6. ~Pending' /\ state' \notin Elsewhere
  BY <1>5, LevelsAreInner DEF Pending, Roots, Elsewhere, Outside
<1>7. Open' = Prefix' \o Opened(state')
  BY <1>6, OpenNext
<1>8. Prefix = Prefix' \o Opened(state')
  <2>1. Front(states) \in Seq(States) /\ states = Append(Front(states), Last(states))
    BY BelowType DEF NestInv
  <2>2. Prefix = <<"stream">> \o Flat(Append(Front(states), Last(states)))
    BY <2>1 DEF Prefix
  <2>3. Prefix' = <<"stream">> \o Flat(Front(states))
    BY <1>6 DEF Prefix
  <2> QED BY <2>1, <2>2, <2>3, PrefixType
<1> QED BY <1>3, <1>4, <1>6, <1>7, <1>8 DEF NestInv

\* Another function at the same place.
LEMMA FunctionChanges ==
  ASSUME NestInv, StackOK', states' = states, ~Pending, ~Pending',
         state \notin Elsewhere, state' \notin Elsewhere
  PROVE  /\ NestInv' /\ Prefix \in Seq(Names) /\ Open = Prefix \o Opened(state)
         /\ Open' = Prefix \o Opened(state')
<1>1. Prefix' = Prefix
  BY DEF Prefix
<1> QED BY <1>1, OpenNow, OpenNext DEF NestInv
-----------------------------------------------------------------------------
\* The parser's steps.
Streams == Stream!EventNext \/ UNCHANGED Stream!eventVars

LEMMA Produced ==
  ASSUME Called, NEW e \in Stream!Events, current_event' = e, Stream!Opening(e)
  PROVE  Streams
BY DEF Called, Streams, Stream!EventNext, Stream!Produce

LEMMA Openings ==
  /\ Stream!NodeComes /\ Open' = Stream!WithNode
       => Stream!Opening("Scalar") /\ Stream!Opening("Alias")
  /\ Stream!NodeComes /\ Open' = Append(Stream!WithNode, "seq") => Stream!Opening("SequenceStart")
  /\ Stream!NodeComes /\ Open' = Append(Stream!WithNode, "key") => Stream!Opening("MappingStart")
  /\ Open # <<>> /\ Last(Open) = "seq" /\ Open' = Front(Open) => Stream!Opening("SequenceEnd")
  /\ Open # <<>> /\ Last(Open) = "key" /\ Open' = Front(Open) => Stream!Opening("MappingEnd")
  /\ Open = <<>> /\ Open' = <<"stream">> => Stream!Opening("StreamStart")
  /\ Open = <<"stream">> /\ Open' = <<"stream", "doc">> => Stream!Opening("DocumentStart")
  /\ Open = <<"stream", "done">> /\ Open' = <<"stream">> => Stream!Opening("DocumentEnd")
  /\ Open = <<"stream">> /\ Open' = <<"ended">> => Stream!Opening("StreamEnd")
BY StreamEnds DEF Stream!Opening, Stream!Leaves

LEMMA EventNames ==
  {"Scalar", "Alias", "SequenceStart", "MappingStart", "SequenceEnd", "MappingEnd", "StreamStart",
   "DocumentStart", "DocumentEnd", "StreamEnd"} \subseteq Stream!Events
BY DEF Stream!Events, Stream!Leaves

\* No event, and nothing opens or ends.
LEMMA NothingOpens ==
  ASSUME NestInv, StackOK', states' = states, state' = state, Pending' <=> Pending
  PROVE  NestInv' /\ Open' = Open
<1>1. Open' = Open
  BY DEF Open
<1> QED BY <1>1 DEF NestInv

LEMMA Silent ==
  ASSUME Open' = Open, current_event' = current_event
  PROVE  Streams
BY DEF Streams, Stream!eventVars

\* Between documents, and at their roots.
LEMMA AtDocuments ==
  StackOK /\ state \notin Elsewhere /\ (states = <<>> \/ (states = <<"document_end">> /\ Pending))
    => Open = <<"stream">> \o Opened(state)
<1> SUFFICES ASSUME StackOK, state \notin Elsewhere,
                    states = <<>> \/ (states = <<"document_end">> /\ Pending)
             PROVE  Open = <<"stream">> \o Opened(state)
  OBVIOUS
<1>1. (IF Pending THEN Front(states) ELSE states) = <<>>
  <2>1. CASE states = <<>> /\ ~Pending
    BY <2>1
  <2>2. CASE states = <<>> /\ Pending
    BY <2>2, LevelsAreInner DEF StackOK, Pending, Roots
  <2>3. CASE states = <<"document_end">> /\ Pending
    BY <2>3, ShortEnds
  <2> QED BY <2>1, <2>2, <2>3
<1>2. Prefix = <<"stream">>
  <2>1. Prefix = <<"stream">> \o <<>>
    BY <1>1, FlatEmpty DEF Prefix
  <2> QED BY <2>1
<1> QED BY <1>2, OpenNow

LEMMA AtDocumentsNext ==
  ASSUME StackOK', state' \notin Elsewhere,
         states' = <<>> \/ (states' = <<"document_end">> /\ Pending')
  PROVE  Open' = <<"stream">> \o Opened(state')
<1>1. (StackOK /\ state \notin Elsewhere /\ (states = <<>> \/ (states = <<"document_end">> /\ Pending))
         => Open = <<"stream">> \o Opened(state))'
  BY AtDocuments, PTL
<1> QED BY <1>1 DEF Elsewhere, Opened, Opens

LEMMA StreamAnd ==
  /\ \A s \in Roots : <<"stream">> \o Opened(s) = <<"stream", "doc">>
  /\ <<"stream">> \o Opened("document_end") = <<"stream", "done">>
  /\ \A s \in Outside \ {"document_end"} : <<"stream">> \o Opened(s) = <<"stream">>
<1>1. /\ <<"stream">> \o <<"doc">> = <<"stream", "doc">>
      /\ <<"stream">> \o <<"done">> = <<"stream", "done">>
  <2>1. <<"stream">> \in Seq(Names) /\ "doc" \in Names /\ "done" \in Names
    BY DEF Names
  <2>2. \A e \in Names : Append(<<"stream">>, e) = <<"stream">> \o <<e>>
    BY <2>1, AppendEnd
  <2>3. \A e : Append(<<"stream">>, e) = <<"stream", e>>
    BY ShortAppends
  <2> QED BY <2>1, <2>2, <2>3
<1>2. <<"stream">> \o <<>> = <<"stream">>
  OBVIOUS
<1> QED BY <1>1, <1>2, OpenTable

LEMMA StreamSteps ==
  ASSUME NestInv, StackOK',
         \/ StreamStart \/ ImplicitDocumentStart \/ ProcessDirectives \/ Directive
         \/ ExplicitDocumentStart \/ ExtraDocumentEnd \/ StreamEnd \/ DocumentEnd
  PROVE  NestInv' /\ Streams
<1>1. state \in Outside /\ states = <<>> /\ ~Pending /\ Called
  <2>1. state \in Outside /\ Called /\ pos # "node"
    BY DEF StreamStart, ImplicitDocumentStart, ProcessDirectives, Directive,
           ExplicitDocumentStart, ExtraDocumentEnd, StreamEnd, DocumentEnd, At, Outside
  <2> QED BY <2>1, LevelsAreInner DEF NestInv, StackOK, Pending, Roots
<1>2. state \in {"implicit_document_start", "document_start"} => Open = <<"stream">>
  BY <1>1, AtDocuments, StreamAnd DEF NestInv, Elsewhere, Outside
<1>3. ASSUME state \in {"implicit_document_start", "document_start"},
             state' \in Roots, states' = Append(states, "document_end"),
             current_event' = "DocumentStart"
      PROVE  NestInv' /\ Streams
  <2>1. states' = <<"document_end">> /\ Pending' /\ state' \notin Elsewhere
    BY <1>1, <1>3, LevelsAreInner DEF Pending, Roots, Elsewhere
  <2>2. Open' = <<"stream", "doc">>
    BY <1>3, <2>1, AtDocumentsNext, StreamAnd
  <2>3. Streams
    BY <1>1, <1>2, <1>3, <2>2, Openings, EventNames, Produced
  <2>4. Follows(state', Last(states'))
    <3>1. Last(states') = "document_end"
      BY <2>1, ShortEnds
    <3>2. Follows(state', "document_end")
      BY <1>3, FollowTable
    <3> QED BY <3>1, <3>2
  <2> QED BY <2>3, <2>4 DEF NestInv
<1>4. ASSUME state' \in Outside, states' = states
      PROVE  /\ NestInv'
             /\ state' \in {"implicit_document_start", "document_start"} => Open' = <<"stream">>
  <2>1. ~Pending'
    BY <1>4, LevelsAreInner DEF StackOK, Pending, Roots
  <2>2. state' \in {"implicit_document_start", "document_start"} => Open' = <<"stream">>
    BY <1>1, <1>4, AtDocumentsNext, StreamAnd DEF Elsewhere, Outside
  <2> QED BY <2>1, <2>2 DEF NestInv
<1>5. CASE StreamStart
  <2>1. /\ state = "stream_start" /\ state' = "implicit_document_start" /\ states' = states
        /\ current_event' = "StreamStart"
    BY <1>5 DEF StreamStart, At, Goto, TakeFor
  <2>2. Open = <<>>
    BY <2>1 DEF Open
  <2>3. NestInv' /\ Open' = <<"stream">>
    BY <1>4, <2>1 DEF Outside
  <2> QED BY <1>1, <2>1, <2>2, <2>3, Openings, EventNames, Produced
<1>6. CASE StreamEnd
  <2>1. /\ state = "document_start" /\ state' = "None" /\ states' = states
        /\ current_event' = "StreamEnd"
    BY <1>6 DEF StreamEnd, At, Goto, TakeFor
  <2>2. Open' = <<"ended">>
    BY <2>1 DEF Open
  <2>3. NestInv'
    BY <1>4, <2>1 DEF Outside
  <2> QED BY <1>1, <1>2, <2>1, <2>2, <2>3, Openings, EventNames, Produced
<1>7. CASE DocumentEnd
  <2>1. /\ state = "document_end" /\ state' = "document_start" /\ states' = states
        /\ current_event' = "DocumentEnd"
    BY <1>7 DEF DocumentEnd, At, Goto, TakeFor, LookFor
  <2>2. Open = <<"stream", "done">>
    BY <1>1, <2>1, AtDocuments, StreamAnd DEF NestInv, Elsewhere
  <2>3. NestInv' /\ Open' = <<"stream">>
    BY <1>4, <2>1 DEF Outside
  <2> QED BY <1>1, <2>1, <2>2, <2>3, Openings, EventNames, Produced
<1>8. ASSUME state \in {"implicit_document_start", "document_start"}, state' = "document_start",
             states' = states, current_event' = current_event
      PROVE  NestInv' /\ Streams
  BY <1>2, <1>4, <1>8, Silent DEF Outside
<1>9. CASE ImplicitDocumentStart
  BY <1>3, <1>8, <1>9 DEF ImplicitDocumentStart, At, Look, LookFor, Goto, Roots
<1>10. CASE ExplicitDocumentStart
  BY <1>3, <1>8, <1>10 DEF ExplicitDocumentStart, At, TakeFor, Refuse, stack, Roots
<1>11. CASE ProcessDirectives \/ Directive \/ ExtraDocumentEnd
  BY <1>8, <1>11
     DEF ProcessDirectives, Directive, ExtraDocumentEnd, At, Look, Take, Goto, Refuse, stack
<1> QED BY <1>5, <1>6, <1>7, <1>9, <1>10, <1>11

LEMMA NodeStepsNest ==
  ASSUME NestInv, StackOK',
         Root \/ Property \/ Alias \/ Collection \/ Scalar \/ NoContent \/ UnknownHandle
  PROVE  NestInv' /\ Streams
<1>1. Pending /\ Called
  BY DEF Root, Property, Alias, Collection, Scalar, NoContent, UnknownHandle, ContentComes,
         InNode, At, Pending
<1>2. ASSUME Pop, current_event' \in {"Scalar", "Alias"}
      PROVE  NestInv' /\ Streams
  <2>1. state' = Last(states) /\ states' = Front(states) /\ pos' = "call"
    BY <1>2 DEF Pop
  <2>2. NestInv' /\ Stream!NodeComes /\ Open' = Stream!WithNode
    BY <1>1, <2>1, NodeEnds
  <2>3. Stream!Opening("Scalar") /\ Stream!Opening("Alias")
    BY <2>2, Openings
  <2> QED BY <1>1, <1>2, <2>2, <2>3, EventNames, Produced
<1>3. ASSUME states' = states, state' = state, pos' \in {pos, "node"},
             current_event' = current_event
      PROVE  NestInv' /\ Streams
  <2>1. Pending'
    BY <1>1, <1>3 DEF Pending
  <2> QED BY <1>1, <1>3, <2>1, NothingOpens, Silent
<1>4. CASE Collection
  <2>1. /\ tok \in {"BlockEntry", "FlowSequenceStart", "FlowMappingStart", "BlockSequenceStart",
                    "BlockMappingStart"}
        /\ current_event' = StartEvent(tok) /\ pos' = "call" /\ states' = states
        /\ state' = IF tok = "BlockEntry" THEN "indentless_sequence_entry" ELSE FirstStates[tok]
    BY <1>4 DEF Collection, Contents, LookFor, Goto
  <2>2. /\ FirstStates["FlowSequenceStart"] = "flow_sequence_first_entry"
        /\ FirstStates["FlowMappingStart"] = "flow_mapping_first_key"
        /\ FirstStates["BlockSequenceStart"] = "block_sequence_first_entry"
        /\ FirstStates["BlockMappingStart"] = "block_mapping_first_key"
    BY DEF FirstStates
  <2>3. \/ /\ state' \in {"block_sequence_first_entry", "indentless_sequence_entry",
                          "flow_sequence_first_entry"}
           /\ current_event' = "SequenceStart"
        \/ /\ state' \in {"block_mapping_first_key", "flow_mapping_first_key"}
           /\ current_event' = "MappingStart"
    BY <2>1, <2>2 DEF StartEvent
  <2>4. state' \notin Roots /\ state' \notin Elsewhere
    BY <2>3 DEF Roots, Elsewhere
  <2>5. ~Pending'
    BY <2>1, <2>4 DEF Pending, Roots
  <2>6. "seq" \in Names /\ "key" \in Names
    BY DEF Names
  <2>7. CASE current_event' = "SequenceStart"
    <3>1. Opened(state') = <<"seq">>
      BY <2>3, <2>7, OpenTable
    <3>2. NestInv' /\ Stream!NodeComes /\ Open' = Append(Stream!WithNode, "seq")
      BY <1>1, <2>1, <2>4, <2>5, <2>6, <3>1, CollectionOpens
    <3>3. Stream!Opening("SequenceStart")
      BY <3>2, Openings
    <3> QED BY <1>1, <2>7, <3>2, <3>3, EventNames, Produced
  <2>8. CASE current_event' = "MappingStart"
    <3>1. Opened(state') = <<"key">>
      BY <2>3, <2>8, OpenTable
    <3>2. NestInv' /\ Stream!NodeComes /\ Open' = Append(Stream!WithNode, "key")
      BY <1>1, <2>1, <2>4, <2>5, <2>6, <3>1, CollectionOpens
    <3>3. Stream!Opening("MappingStart")
      BY <3>2, Openings
    <3> QED BY <1>1, <2>8, <3>2, <3>3, EventNames, Produced
  <2> QED BY <2>3, <2>7, <2>8
<1>5. CASE Root
  BY <1>2, <1>3, <1>5 DEF Root, Look, LookFor, Goto
<1>6. CASE Alias \/ Scalar
  BY <1>2, <1>6 DEF Alias, Scalar, TakeFor
<1>7. CASE NoContent
  BY <1>2, <1>3, <1>7 DEF NoContent, LookFor, Refuse, stack
<1>8. CASE Property \/ UnknownHandle
  BY <1>3, <1>8 DEF Property, UnknownHandle, Take, Refuse, stack
<1> QED BY <1>4, <1>5, <1>6, <1>7, <1>8

\* Items, from a function of a collection to the next.
LEMMA ItemStepsNest ==
  ASSUME NestInv, StackOK',
         First \/ Item \/ ItemNode \/ NoItem \/ Comma \/ FlowEntryNode \/ NotInCollection
  PROVE  NestInv' /\ Streams
<1>1. ~Pending /\ Called /\ state \in Inner \cup Firsts /\ state \notin Elsewhere
  <2>1. state \in DOMAIN Items \cup DOMAIN EndTokens \cup FlowEntries \cup DOMAIN FirstEntry
               \cup {"flow_mapping_empty_value", "flow_sequence_entry_mapping_end"}
    BY DEF First, Item, ItemNode, NoItem, Comma, FlowEntryNode, NotInCollection, ItemComes, At
  <2>2. state \in Inner \cup Firsts
    BY <2>1, StateTables, ItemTable DEF Inner, MarkedStates, BlockStates, FlowStates
  <2>3. pos # "node" /\ Called
    BY DEF First, Item, ItemNode, NoItem, Comma, FlowEntryNode, NotInCollection, ItemComes, At
  <2>4. state \notin Roots /\ state \notin Outside
    BY <2>2, LevelsAreInner
  <2> QED BY <2>2, <2>3, <2>4 DEF Pending, Roots, Elsewhere, Outside
<1>2. ASSUME state' \in Inner, states' = states, pos' # "node"
      PROVE  /\ NestInv' /\ Prefix \in Seq(Names) /\ Open = Prefix \o Opened(state)
             /\ Open' = Prefix \o Opened(state')
  <2>1. state' \notin Roots /\ state' \notin Elsewhere
    BY <1>2, LevelsAreInner DEF Elsewhere, Outside
  <2>2. ~Pending'
    BY <1>2, <2>1 DEF Pending, Roots
  <2> QED BY <1>1, <1>2, <2>1, <2>2, FunctionChanges
<1>3. ASSUME state' \in Inner, states' = states, pos' # "node", Opened(state') = Opened(state),
             current_event' = current_event
      PROVE  NestInv' /\ Streams
  BY <1>2, <1>3, Silent
<1>4. ASSUME NEW t \in Inner, Follows(state, t), state' = t, states' = states, pos' = "call",
             current_event' = "Scalar"
      PROVE  NestInv' /\ Streams
  <2>1. NestInv' /\ Open' = Prefix \o Opened(t)
    BY <1>2, <1>4
  <2>2. Stream!NodeComes /\ Stream!WithNode = Prefix \o Opened(t)
    BY <1>1, <1>4, NodeOpens DEF NestInv
  <2>3. Stream!Opening("Scalar")
    BY <2>1, <2>2, Openings
  <2> QED BY <1>1, <1>4, <2>1, <2>3, EventNames, Produced
<1>5. ASSUME NEW t, Follows(state, t), NEW k, Node(k, t), current_event' = current_event
      PROVE  NestInv' /\ Streams
  <2>1. states' = Append(states, t) /\ pos' = "node" /\ state' = state
    BY <1>5 DEF Node
  <2>2. Pending' /\ state' \notin Elsewhere
    BY <1>1, <2>1 DEF Pending
  <2>3. Front(states') = states /\ Last(states') = t
    BY <2>1, AppendsEnd, BelowType DEF NestInv
  <2>4. Prefix' = Prefix
    BY <1>1, <2>2, <2>3 DEF Prefix
  <2>5. Open' = Open
    BY <1>1, <2>1, <2>2, <2>4, OpenNow, OpenNext DEF NestInv
  <2> QED BY <1>5, <2>1, <2>3, <2>5, Silent DEF NestInv
<1>6. CASE First
  <2>1. /\ state \in DOMAIN FirstEntry /\ state' = FirstEntry[state] /\ states' = states
        /\ pos' # "node" /\ current_event' = current_event
    BY <1>6 DEF First, Take
  <2>2. state' \in Inner
    BY <2>1, StateTables
  <2>3. Opened(FirstEntry[state]) = Opened(state)
    <3>1. \/ state = "block_sequence_first_entry" /\ FirstEntry[state] = "block_sequence_entry"
          \/ state = "block_mapping_first_key" /\ FirstEntry[state] = "block_mapping_key"
          \/ state = "flow_sequence_first_entry" /\ FirstEntry[state] = "flow_sequence_entry"
          \/ state = "flow_mapping_first_key" /\ FirstEntry[state] = "flow_mapping_key"
      BY <2>1 DEF FirstEntry
    <3> QED BY <3>1, OpenTable
  <2> QED BY <1>3, <2>1, <2>2, <2>3
<1>7. CASE Item \/ Comma \/ NotInCollection
  <2>1. /\ state' = state /\ states' = states /\ pos' # "node" /\ current_event' = current_event
    BY <1>1, <1>7 DEF Item, Comma, NotInCollection, Take, Goto, Refuse, stack, Pending
  <2>2. state \in Inner
    <3>1. state \in DOMAIN Items \cup FlowEntries \cup DOMAIN EndTokens
      BY <1>7 DEF Item, Comma, NotInCollection, ItemComes
    <3> QED BY <3>1, StateTables, ItemTable DEF Inner, MarkedStates, BlockStates, FlowStates
  <2> QED BY <1>3, <2>1, <2>2
<1>8. CASE ItemNode
  <2>1. state \in DOMAIN Items /\ Items[state].then \in Inner /\ Follows(state, Items[state].then)
    BY <1>8, ItemTable, FollowTable DEF ItemNode
  <2>2. \/ /\ current_event' = "Scalar" /\ state' = Items[state].then /\ states' = states
           /\ pos' = "call"
        \/ /\ current_event' = current_event /\ Node(Items[state].kind, Items[state].then)
    BY <1>8 DEF ItemNode, Look, LookFor, Goto
  <2> QED BY <1>4, <1>5, <2>1, <2>2
<1>9. CASE NoItem
  <2>1. CASE /\ state \in DOMAIN Items /\ current_event' = "Scalar"
             /\ state' = Items[state].then /\ states' = states /\ pos' = "call"
    BY <1>4, <2>1, ItemTable, FollowTable
  <2>2. CASE /\ state = "flow_mapping_empty_value" /\ current_event' = "Scalar"
             /\ state' = "flow_mapping_key" /\ states' = states /\ pos' = "call"
    BY <1>4, <2>2, FollowTable DEF Inner, MarkedStates, FlowStates
  <2>3. CASE /\ state = "flow_sequence_entry_mapping_end" /\ current_event' = "MappingEnd"
             /\ state' = "flow_sequence_entry" /\ states' = states /\ pos' = "call"
    <3>1. state' \in Inner
      BY <2>3 DEF Inner, MarkedStates, FlowStates
    <3>2. /\ NestInv' /\ Prefix \in Seq(Names) /\ Open = Prefix \o <<"seq", "key">>
          /\ Open' = Prefix \o <<"seq">>
      BY <1>2, <2>3, <3>1, OpenTable
    <3>3. Open # <<>> /\ Last(Open) = "key" /\ Front(Open) = Prefix \o <<"seq">>
      <4> DEFINE o == <<"seq", "key">>
      <4>1. Front(o) = <<"seq">> /\ Last(o) = "key"
        BY ShortEnds
      <4>2. o \in Seq(Names) /\ o # <<>> /\ Open = Prefix \o o
        BY <3>2 DEF Names
      <4>3. Prefix \in Seq(Names)
        BY <3>2
      <4> HIDE DEF o
      <4>4. Open # <<>> /\ Last(Open) = Last(o) /\ Front(Open) = Prefix \o Front(o)
        BY <4>2, <4>3, NamesEndOf
      <4> QED BY <4>1, <4>4
    <3>4. Stream!Opening("MappingEnd")
      BY <3>2, <3>3, Openings
    <3> QED BY <1>1, <2>3, <3>2, <3>4, EventNames, Produced
  <2> QED BY <1>9, <2>1, <2>2, <2>3 DEF NoItem, At, LookFor, Goto
<1>10. CASE FlowEntryNode
  <2>1. CASE /\ state = "flow_sequence_entry" /\ current_event' = "MappingStart"
             /\ state' = "flow_sequence_entry_mapping_key" /\ states' = states /\ pos' = "call"
    <3>1. state' \in Inner
      BY <2>1 DEF Inner, MarkedStates, FlowStates
    <3>2. /\ NestInv' /\ Prefix \in Seq(Names) /\ Open' = Prefix \o <<"seq", "key">>
      BY <1>2, <2>1, <3>1, OpenTable
    <3>3. Stream!NodeComes /\ Stream!WithNode = Prefix \o <<"seq">>
      BY <1>1, <2>1, NodeOpens, FollowTable, OpenTable DEF NestInv
    <3>4. Append(Prefix \o <<"seq">>, "key") = Prefix \o <<"seq", "key">>
      <4> DEFINE o == <<"seq">>
      <4>1. o \in Seq(Names) /\ "key" \in Names
        BY DEF Names
      <4>2. Append(o, "key") = <<"seq", "key">>
        BY ShortAppends
      <4> DEFINE p == Prefix
                 k == "key"
      <4>3. p \in Seq(Names) /\ o \in Seq(Names) /\ k \in Names
        BY <3>2, <4>1
      <4> HIDE DEF o, p, k
      <4>4. Append(p \o o, k) = p \o Append(o, k)
        BY <4>3, AppendEnd
      <4> QED BY <4>2, <4>4 DEF o, p, k
    <3>5. Stream!Opening("MappingStart")
      BY <3>2, <3>3, <3>4, Openings
    <3> QED BY <1>1, <2>1, <3>2, <3>5, EventNames, Produced
  <2>2. CASE /\ state = "flow_sequence_entry" /\ Node("flow", "flow_sequence_entry")
             /\ current_event' = current_event
    BY <1>5, <2>2, FollowTable
  <2>3. CASE /\ state = "flow_mapping_key" /\ Node("flow", "flow_mapping_empty_value")
             /\ current_event' = current_event
    BY <1>5, <2>3, FollowTable
  <2> QED BY <1>10, <2>1, <2>2, <2>3 DEF FlowEntryNode, Look, LookFor, Goto
<1> QED BY <1>6, <1>7, <1>8, <1>9, <1>10

LEMMA EndStepNest ==
  ASSUME NestInv, StackOK', End
  PROVE  NestInv' /\ Streams
<1>1. /\ Called /\ pos # "node"
      /\ state' = Last(states) /\ states' = Front(states) /\ pos' = "call"
      /\ \/ /\ state \in {"block_sequence_entry", "flow_sequence_entry",
                          "indentless_sequence_entry"}
            /\ current_event' = "SequenceEnd"
         \/ state \in {"block_mapping_key", "flow_mapping_key"} /\ current_event' = "MappingEnd"
  <2>1. /\ Called /\ pos # "node"
        /\ state' = Last(states) /\ states' = Front(states) /\ pos' = "call"
        /\ \/ state \in DOMAIN EndTokens /\ current_event' = EndEvent(state)
           \/ state = "indentless_sequence_entry" /\ current_event' = "SequenceEnd"
    BY DEF End, TakeFor, LookFor, Pop, PopCollection
  <2> QED BY <2>1, StateTables DEF EndEvent
<1>2. state \notin Roots /\ state \notin Outside /\ ~Pending
  BY <1>1 DEF Roots, Outside, Pending
<1>3. CASE current_event' = "SequenceEnd"
  <2>1. Opened(state) = <<"seq">>
    BY <1>1, <1>3, OpenTable
  <2>2. NestInv' /\ Open # <<>> /\ Last(Open) = "seq" /\ Open' = Front(Open)
    BY <1>1, <1>2, <2>1, CollectionEnds
  <2>3. Stream!Opening("SequenceEnd")
    BY <2>2, Openings
  <2> QED BY <1>1, <1>3, <2>2, <2>3, EventNames, Produced
<1>4. CASE current_event' = "MappingEnd"
  <2>1. Opened(state) = <<"key">>
    BY <1>1, <1>4, OpenTable
  <2>2. NestInv' /\ Open # <<>> /\ Last(Open) = "key" /\ Open' = Front(Open)
    BY <1>1, <1>2, <2>1, CollectionEnds
  <2>3. Stream!Opening("MappingEnd")
    BY <2>2, Openings
  <2> QED BY <1>1, <1>4, <2>2, <2>3, EventNames, Produced
<1> QED BY <1>1, <1>3, <1>4

LEMMA NextNests == NestInv /\ [Next]_vars => NestInv' /\ Streams
<1> SUFFICES ASSUME NestInv, [Next]_vars PROVE NestInv' /\ Streams
  OBVIOUS
<1>1. StackOK'
  BY ParserSteps, ScannerLeavesTheStack
     DEF NestInv, Next, ParserStep, SameDepth, StartsCollection, EndsCollection
<1>2. CASE Parse
  BY <1>1, <1>2, StreamSteps, NodeStepsNest, ItemStepsNest, EndStepNest DEF Parse
<1>3. CASE get_event
  <2>1. states' = states /\ state' = state /\ pos' = pos
        /\ current_event # "none" /\ current_event' = "none"
    BY <1>3 DEF get_event, stack
  <2>2. NestInv' /\ Open' = Open
    BY <1>1, <2>1, NothingOpens DEF Pending
  <2> QED BY <2>1, <2>2 DEF Streams, Stream!EventNext, Stream!Consume
<1>4. CASE Peek \/ ScanMore \/ UNCHANGED vars
  <2>1. states' = states /\ state' = state /\ pos' = pos /\ current_event' = current_event
    BY <1>4 DEF Peek, ScanMore, parserVars, stack, vars
  <2> QED BY <1>1, <2>1, NothingOpens, Silent DEF Pending
<1> QED BY <1>2, <1>3, <1>4 DEF Next, ParserStep

LEMMA InitNests == Init => NestInv /\ Stream!EventInit
<1> SUFFICES ASSUME Init PROVE NestInv /\ Stream!EventInit
  OBVIOUS
<1>1. state = "stream_start" /\ pos = "call" /\ current_event = "none"
  BY DEF Init, ParserInit
<1>2. StackOK
  BY MarkInvInit DEF MarkInv
<1>3. ~Pending
  BY <1>1 DEF Pending
<1> QED BY <1>1, <1>2, <1>3 DEF NestInv, Stream!EventInit, Open

\* On any text, of whatever depth, the parser's events are those of documents
\* with one root each, in which nodes are nested and every key has a value.
THEOREM EventsAreNested == Spec => WellNested
<1>1. NestInv /\ [Next]_vars => [Stream!EventNext]_(Stream!eventVars)
  BY NextNests DEF Streams
<1>2. NestInv /\ [Next]_vars => NestInv'
  BY NextNests
<1> QED BY <1>1, <1>2, InitNests, PTL DEF Spec, WellNested, Stream!EventSpec
-----------------------------------------------------------------------------
\* The emitter: what was prepared for a node.

\* A writer that has p prepared, and p field by field.
Writing(o, p) == "prepared" \in DOMAIN o /\ o.prepared = p
Prepared(a, t, n, s) == [anchor |-> a, tag |-> t, analysis |-> n, style |-> s]


LEMMA PutKeeps ==
  ASSUME NEW o, NEW p, Writing(o, p)
  PROVE  /\ Writing(E!write_line_break(o), p)
         /\ \A ch, col, lines, end, ind, hint : Writing(E!Put(o, ch, col, lines, end, ind, hint), p)
BY DEF Writing, E!write_line_break, E!Put

LEMMA VersionKeeps ==
  ASSUME NEW o, NEW p, Writing(o, p)
  PROVE  Writing(E!write_version_directive(o), p)
<1> DEFINE q == E!Put(o, "%YAML", o.column, "past", 0, 0, FALSE)
           r == E!write_line_break(q)
<1>1. Writing(q, p)
  BY PutKeeps
<1> HIDE DEF q
<1>2. Writing(r, p)
  BY <1>1, PutKeeps
<1>3. E!write_version_directive(o) = [r EXCEPT !.nl = FALSE]
  BY DEF E!write_version_directive, q
<1> HIDE DEF r
<1> QED BY <1>2, <1>3 DEF Writing

LEMMA WriteWithKeeps ==
  ASSUME NEW o, NEW p, Writing(o, p)
  PROVE  \A ch, length, need, white, indention : Writing(E!WriteWith(o, ch, length, need, white, indention), p)
<1> SUFFICES ASSUME NEW ch, NEW length, NEW need, NEW white, NEW indention
             PROVE  Writing(E!WriteWith(o, ch, length, need, white, indention), p)
  OBVIOUS
<1> DEFINE col == IF o.whitespace \/ ~need THEN o.column ELSE o.column + 1
           r == E!Put(o, ch, col, "same", col + length, 0, FALSE)
<1>1. Writing(r, p)
  BY PutKeeps
<1>2. E!WriteWith(o, ch, length, need, white, indention)
        = [r EXCEPT !.whitespace = white, !.indention = @ /\ indention, !.open_ended = FALSE]
  BY DEF E!WriteWith
<1> HIDE DEF r
<1> QED BY <1>1, <1>2 DEF Writing

LEMMA IndentKeeps ==
  ASSUME NEW o, NEW p, Writing(o, p)
  PROVE  \A ind : Writing(E!write_indent(o, ind), p)
<1> SUFFICES ASSUME NEW ind PROVE Writing(E!write_indent(o, ind), p)
  OBVIOUS
<1> DEFINE at == IF ind = -1 THEN 0 ELSE ind
           line == IF ~o.indention \/ o.column > at \/ (o.column = at /\ ~o.whitespace)
                   THEN E!write_line_break(o) ELSE o
<1>1. Writing(line, p)
  BY PutKeeps
<1>2. E!write_indent(o, ind) =
        IF line.column < at THEN [line EXCEPT !.column = at, !.whitespace = TRUE] ELSE line
  BY DEF E!write_indent
<1> HIDE DEF line, at
<1>3. Writing([line EXCEPT !.column = at, !.whitespace = TRUE], p)
  BY <1>1 DEF Writing
<1> QED BY <1>1, <1>2, <1>3

LEMMA WritersKeep ==
  ASSUME NEW o, NEW p, Writing(o, p)
  PROVE  \A ch : /\ Writing(E!write_indicator(o, ch), p) /\ Writing(E!WriteClose(o, ch), p)
                 /\ Writing(E!WriteOpen(o, ch), p) /\ Writing(E!WriteItem(o, ch), p)
BY WriteWithKeeps DEF E!write_indicator, E!WriteClose, E!WriteOpen, E!WriteItem

LEMMA FlowKeeps ==
  ASSUME NEW o, NEW p, Writing(o, p)
  PROVE  /\ Writing(E!CloseOpenEnded(o), p) /\ Writing(E!BreakLong(o), p)
         /\ \A first : Writing(E!Comma(o, first), p)
         /\ \A ch, first : Writing(E!CloseFlow(o, ch, first), p)
<1>1. Writing(E!CloseOpenEnded(o), p)
  BY WritersKeep, IndentKeeps DEF E!CloseOpenEnded
<1>2. Writing(E!BreakLong(o), p)
  BY IndentKeeps DEF E!BreakLong
<1>3. \A first : Writing(E!Comma(o, first), p)
  BY WritersKeep DEF E!Comma
<1>4. ASSUME NEW ch, NEW first
      PROVE  Writing(E!CloseFlow(o, ch, first), p)
  <2> DEFINE r == IF Cases[case].canonical /\ ~first
                  THEN E!write_indent(E!WriteClose(o, ","), E!Last(E!Front(e_indents))) ELSE o
  <2>1. Writing(r, p)
    BY WritersKeep, IndentKeeps
  <2>2. E!CloseFlow(o, ch, first) = E!WriteClose(r, ch)
    BY DEF E!CloseFlow
  <2> HIDE DEF r
  <2> QED BY <2>1, <2>2, WritersKeep
<1> QED BY <1>1, <1>2, <1>3, <1>4

LEMMA ScalarWritersKeep ==
  ASSUME NEW o, NEW p, Writing(o, p), NEW a, NEW ctx, NEW ind
  PROVE  /\ Writing(E!write_plain(o, a, ctx, ind), p)
         /\ \A double : Writing(E!WriteQuoted(o, a, ctx, ind, double), p)
         /\ Writing(E!WriteBlock(o, a, ind), p)
<1> DEFINE col == IF o.whitespace THEN o.column ELSE o.column + 1
<1>1. Writing(E!write_plain(o, a, ctx, ind), p)
  <2> DEFINE opened == [o EXCEPT !.open_ended = @ \/ ctx = "root"]
             broken == E!Broken(a, col, ctx)
             r == E!Put(opened, "a", col, IF broken THEN "across" ELSE "same",
                        IF broken THEN ind + 1 ELSE col + a.length, ind, FALSE)
  <2>1. Writing(opened, p)
    BY DEF Writing
  <2>2. E!write_plain(o, a, ctx, ind) =
          IF a.empty THEN opened ELSE [r EXCEPT !.whitespace = FALSE, !.indention = FALSE]
    BY DEF E!write_plain
  <2> HIDE DEF opened
  <2>3. Writing(r, p)
    BY <2>1, PutKeeps
  <2> HIDE DEF r
  <2>4. Writing([r EXCEPT !.whitespace = FALSE, !.indention = FALSE], p)
    BY <2>3 DEF Writing
  <2> QED BY <2>1, <2>2, <2>4
<1>2. ASSUME NEW double
      PROVE  Writing(E!WriteQuoted(o, a, ctx, ind, double), p)
  <2> DEFINE across == E!Broken(a, col + 1, ctx) \/ (a.multiline /\ ~double)
             end == IF ~across THEN col + a.length + 2 + (IF double THEN a.escapes ELSE 0)
                    ELSE ind + (IF double THEN 4 ELSE 2)
             r == E!Put(o, "q", col, IF across THEN "across" ELSE "same", end, ind, FALSE)
  <2>1. Writing(r, p)
    BY PutKeeps
  <2>2. E!WriteQuoted(o, a, ctx, ind, double)
          = [r EXCEPT !.whitespace = FALSE, !.indention = FALSE, !.open_ended = FALSE]
    BY DEF E!WriteQuoted
  <2> HIDE DEF r
  <2> QED BY <2>1, <2>2 DEF Writing
<1>3. Writing(E!WriteBlock(o, a, ind), p)
  <2> DEFINE r == E!write_line_break(E!Put(o, "|", col, "past", 0, ind, a.leading))
  <2>1. Writing(r, p)
    BY PutKeeps
  <2>2. E!WriteBlock(o, a, ind) = [r EXCEPT !.open_ended = a.keep]
    BY DEF E!WriteBlock
  <2> HIDE DEF r
  <2> QED BY <2>1, <2>2 DEF Writing
<1> QED BY <1>1, <1>2, <1>3

\* The fields of what is prepared, set one at a time.
LEMMA FieldsSet ==
  ASSUME NEW o, NEW a, NEW t, NEW n, NEW s, Writing(o, Prepared(a, t, n, s))
  PROVE  \A x : /\ Writing([o EXCEPT !.prepared.anchor = x], Prepared(x, t, n, s))
                /\ Writing([o EXCEPT !.prepared.tag = x], Prepared(a, x, n, s))
                /\ Writing([o EXCEPT !.prepared.analysis = x], Prepared(a, t, x, s))
                /\ Writing([o EXCEPT !.prepared.style = x], Prepared(a, t, n, x))
BY DEF Writing, Prepared

LEMMA StyleOf ==
  ASSUME NEW o, NEW a, NEW t, NEW n, NEW s, Writing(o, Prepared(a, t, n, s))
  PROVE  o.prepared.style = s
BY DEF Writing, Prepared

\* A writer to which a node may be given: what check_simple_key() prepared is
\* what the node's functions will clear.
Given(o) ==
  \E a, t, n : /\ Writing(o, Prepared(a, t, n, "None"))
               /\ E!event.type # "Scalar" => n = "None"
               /\ E!event.type = "Alias" => t = 0

LEMMA AnchorCleared ==
  ASSUME NEW o, NEW a, NEW t, NEW n, NEW s, Writing(o, Prepared(a, t, n, s)), NEW ch
  PROVE  Writing(E!process_anchor(o, ch), Prepared(0, t, n, s))
<1> DEFINE length == IF o.prepared.anchor = 0 THEN E!event.anchor ELSE o.prepared.anchor
           r == E!WriteWith(o, ch, 1 + length, TRUE, FALSE, FALSE)
<1>1. Writing(r, Prepared(a, t, n, s))
  BY WriteWithKeeps
<1>2. E!process_anchor(o, ch) = IF E!event.anchor = 0 THEN [o EXCEPT !.prepared.anchor = 0]
                                ELSE [r EXCEPT !.prepared.anchor = 0]
  BY DEF E!process_anchor
<1> HIDE DEF r, length
<1>3. Writing([o EXCEPT !.prepared.anchor = 0], Prepared(0, t, n, s))
  BY FieldsSet
<1>4. Writing([r EXCEPT !.prepared.anchor = 0], Prepared(0, t, n, s))
  BY <1>1, FieldsSet
<1> QED BY <1>2, <1>3, <1>4, Zenon

LEMMA TagCleared ==
  ASSUME NEW o, NEW a, NEW t, NEW n, NEW s, Writing(o, Prepared(a, t, n, s))
  PROVE  Writing(E!process_tag(o), Prepared(a, 0, n, s))
<1> DEFINE r == E!WriteWith(o, "!", E!TagLength(o), TRUE, FALSE, FALSE)
<1>1. Writing(r, Prepared(a, t, n, s))
  BY WriteWithKeeps
<1>2. E!process_tag(o) = IF E!TagHidden(o) THEN [o EXCEPT !.prepared.tag = 0]
                         ELSE [r EXCEPT !.prepared.tag = 0]
  BY DEF E!process_tag
<1> HIDE DEF r
<1>3. Writing([o EXCEPT !.prepared.tag = 0], Prepared(a, 0, n, s))
  BY FieldsSet
<1>4. Writing([r EXCEPT !.prepared.tag = 0], Prepared(a, 0, n, s))
  BY <1>1, FieldsSet
<1> QED BY <1>2, <1>3, <1>4, Zenon

Styles == {"", "block", "single", "double"}

LEMMA StyleIsKnown == \A ctx : E!choose_scalar_style(ctx) \in Styles
BY DEF E!choose_scalar_style, Styles

LEMMA StyleChosen ==
  ASSUME NEW o, NEW a, NEW t, NEW n, Writing(o, Prepared(a, t, n, "None")), NEW ctx
  PROVE  \E s : /\ Writing(E!Styled(o, ctx), Prepared(a, t, n, s))
                /\ IF E!event.type = "Scalar" THEN s \in Styles ELSE s = "None"
<1> DEFINE s == IF E!event.type = "Scalar" /\ o.prepared.style = "None"
                THEN E!choose_scalar_style(ctx) ELSE o.prepared.style
<1>1. E!Styled(o, ctx) = [o EXCEPT !.prepared.style = s]
  BY DEF E!Styled
<1>2. o.prepared.style = "None"
  BY StyleOf
<1>3. IF E!event.type = "Scalar" THEN s \in Styles ELSE s = "None"
  BY <1>2, StyleIsKnown
<1> HIDE DEF s
<1>4. Writing([o EXCEPT !.prepared.style = s], Prepared(a, t, n, s))
  BY FieldsSet
<1> QED BY <1>1, <1>3, <1>4, Zenon

LEMMA ScalarCleared ==
  ASSUME NEW o, NEW n, NEW s, Writing(o, Prepared(0, 0, n, s)), NEW ctx, NEW ind,
         s \in Styles
  PROVE  Writing(E!process_scalar(o, ctx, ind), E!Unprepared)
<1> DEFINE a == Analysis[IF o.prepared.analysis = "None" THEN E!event.value
                         ELSE o.prepared.analysis]
           style == o.prepared.style
           r == CASE style = "" -> E!write_plain(o, a, ctx, ind)
                  [] style = "block" -> E!WriteBlock(o, a, ind)
                  [] style \in {"single", "double"} ->
                       E!WriteQuoted(o, a, ctx, ind, style = "double")
<1>1. E!process_scalar(o, ctx, ind)
        = [r EXCEPT !.prepared.analysis = "None", !.prepared.style = "None"]
  BY DEF E!process_scalar
<1>2. style = s
  BY StyleOf, Zenon
<1> HIDE DEF a, style
<1>3. Writing(r, Prepared(0, 0, n, s))
  BY <1>2, ScalarWritersKeep DEF Styles
<1> HIDE DEF r
<1> DEFINE q == [r EXCEPT !.prepared.analysis = "None"]
<1>4. Writing(q, Prepared(0, 0, "None", s))
  BY <1>3, FieldsSet, Zenon
<1>5. E!process_scalar(o, ctx, ind) = [q EXCEPT !.prepared.style = "None"]
  BY <1>1, Zenon
<1> HIDE DEF q
<1>6. Writing([q EXCEPT !.prepared.style = "None"], Prepared(0, 0, "None", "None"))
  BY <1>4, FieldsSet, Zenon
<1> QED BY <1>5, <1>6, Zenon DEF Prepared, E!Unprepared

LEMMA NothingPrepared ==
  ASSUME NEW o, Writing(o, E!Unprepared)
  PROVE  Writing(o, Prepared(0, 0, "None", "None"))
BY DEF Prepared, E!Unprepared

\* An event that has a tag is no alias.
AliasUntagged == E!event.type = "Alias" => E!event.tag = 0

LEMMA MayBeGiven ==
  ASSUME NEW o, Writing(o, E!Unprepared), AliasUntagged
  PROVE  Given(o) /\ Given(E!Checked(o))
<1> DEFINE value == IF E!event.type = "Scalar" THEN E!event.value ELSE "None"
           x == [o EXCEPT !.prepared.anchor = E!event.anchor]
           y == [x EXCEPT !.prepared.tag = E!event.tag]
<1>1. Writing(o, Prepared(0, 0, "None", "None"))
  BY NothingPrepared
<1>2. E!Checked(o) = [y EXCEPT !.prepared.analysis = value]
  BY DEF E!Checked
<1>3. Writing(x, Prepared(E!event.anchor, 0, "None", "None"))
  BY <1>1, FieldsSet, Zenon
<1> HIDE DEF x
<1>4. Writing(y, Prepared(E!event.anchor, E!event.tag, "None", "None"))
  BY <1>3, FieldsSet, Zenon
<1> HIDE DEF y
<1>5. Writing([y EXCEPT !.prepared.analysis = value],
              Prepared(E!event.anchor, E!event.tag, value, "None"))
  BY <1>4, FieldsSet, Zenon
<1>6. E!event.type # "Scalar" => value = "None"
  OBVIOUS
<1> HIDE DEF value
<1> QED BY <1>1, <1>2, <1>5, <1>6, Zenon DEF Given, AliasUntagged

LEMMA NodeClears ==
  ASSUME NEW o, Given(o), Writing(out, E!Unprepared),
         NEW ctx, NEW then, E!expect_node(o, ctx, then)
  PROVE  Writing(out', E!Unprepared)
<1> DEFINE p == E!process_anchor(E!Styled(o, ctx), "&")
           q == E!process_tag(p)
<1>1. PICK a, t, n : /\ Writing(o, Prepared(a, t, n, "None"))
                     /\ E!event.type # "Scalar" => n = "None"
                     /\ E!event.type = "Alias" => t = 0
  BY DEF Given
<1>2. PICK s : /\ Writing(E!Styled(o, ctx), Prepared(a, t, n, s))
               /\ IF E!event.type = "Scalar" THEN s \in Styles ELSE s = "None"
  BY <1>1, StyleChosen
<1>3. Writing(p, Prepared(0, t, n, s))
  BY <1>2, AnchorCleared
<1> HIDE DEF p
<1>4. Writing(q, Prepared(0, 0, n, s))
  BY <1>3, TagCleared
<1>5. \/ E!expect_alias(o, then) \/ E!Raise
      \/ E!expect_scalar(q, ctx, then) \/ E!ExpectFlow(q, then) \/ E!ExpectBlock(q, ctx, then)
  BY DEF E!expect_node, p
<1> HIDE DEF q
<1>6. CASE E!expect_alias(o, then)
  <2>0. E!Raise \/ (E!event.type = "Alias" /\ out' = E!process_anchor(o, "*"))
    BY <1>6 DEF E!expect_alias
  <2>1. SUFFICES ASSUME E!event.type = "Alias", out' = E!process_anchor(o, "*")
                 PROVE  Writing(out', E!Unprepared)
    BY <2>0 DEF E!Raise
  <2>2. t = 0 /\ n = "None"
    BY <1>1, <2>1
  <2>3. Writing(out', Prepared(0, t, n, "None"))
    BY <1>1, <2>1, AnchorCleared
  <2> QED BY <2>2, <2>3 DEF Prepared, E!Unprepared
<1>7. CASE E!Raise
  BY <1>7 DEF E!Raise
<1>8. CASE E!expect_scalar(q, ctx, then)
  <2>1. /\ E!event.type = "Scalar"
        /\ out' = E!process_scalar(q, ctx, E!Last(E!increase_indent(TRUE, FALSE)))
    BY <1>8 DEF E!expect_scalar
  <2> QED BY <1>2, <1>4, <2>1, ScalarCleared
<1>9. ASSUME E!ExpectFlow(q, then) \/ E!ExpectBlock(q, ctx, then)
      PROVE  Writing(out', E!Unprepared)
  <2>1. E!event.type # "Scalar"
    BY <1>9 DEF E!ExpectFlow, E!ExpectBlock, E!IsSequence
  <2>2. Writing(q, E!Unprepared)
    BY <1>1, <1>2, <1>4, <2>1 DEF Prepared, E!Unprepared
  <2>3. out' = q \/ out' = E!WriteOpen(q, "[") \/ out' = E!WriteOpen(q, "{")
    BY <1>9 DEF E!ExpectFlow, E!ExpectBlock
  <2> QED BY <2>2, <2>3, WritersKeep
<1> QED BY <1>5, <1>6, <1>7, <1>8, <1>9

LEMMA KeyClears ==
  ASSUME NEW o, NEW q, Writing(o, E!Unprepared), Writing(q, E!Unprepared),
         Writing(out, E!Unprepared), AliasUntagged,
         NEW simple_value, NEW value, E!KeyNode(o, q, simple_value, value)
  PROVE  Writing(out', E!Unprepared)
<1>1. Given(E!Checked(o)) /\ Given(q) /\ Given(E!Checked(q))
  BY MayBeGiven
<1>2. \/ E!expect_node(E!Checked(o), "simple_key", simple_value)
      \/ E!expect_node(q, "mapping", value) \/ E!expect_node(E!Checked(q), "mapping", value)
  BY DEF E!KeyNode
<1> QED BY <1>1, <1>2, NodeClears

LEMMA DocumentsClear ==
  ASSUME Writing(out, E!Unprepared), AliasUntagged,
         \/ E!stream_start \/ E!document_start \/ E!StreamEnd
         \/ E!document_root \/ E!document_end \/ E!Unexpected
  PROVE  Writing(out', E!Unprepared)
<1>1. CASE E!stream_start
  BY <1>1 DEF E!stream_start
<1>2. CASE E!document_start
  <2> DEFINE o1 == IF E!event.version THEN E!CloseOpenEnded(out) ELSE out
             o2 == IF E!event.version
                   THEN E!write_version_directive(o1) ELSE o1
             o3 == E!write_indicator(E!write_indent(o2, E!indent), "---")
  <2>1. out' \in {o2, o3, E!write_indent(o3, E!indent)}
    BY <1>2 DEF E!document_start
  <2>2. Writing(o1, E!Unprepared)
    BY FlowKeeps
  <2> HIDE DEF o1
  <2>4. Writing(o2, E!Unprepared)
    BY <2>2, VersionKeeps
  <2> HIDE DEF o2
  <2>5. Writing(E!write_indent(o2, E!indent), E!Unprepared)
    BY <2>4, IndentKeeps
  <2>6. Writing(o3, E!Unprepared)
    BY <2>5, WritersKeep
  <2> HIDE DEF o3
  <2> QED BY <2>1, <2>4, <2>6, IndentKeeps
<1>3. CASE E!StreamEnd
  <2> DEFINE o == E!CloseOpenEnded(out)
  <2>1. out' = E!Put(o, "end", o.column, "same", o.column, 0, FALSE)
    BY <1>3 DEF E!StreamEnd
  <2>2. Writing(o, E!Unprepared)
    BY FlowKeeps
  <2> HIDE DEF o
  <2> QED BY <2>1, <2>2, PutKeeps
<1>4. CASE E!document_root
  BY <1>4, MayBeGiven, NodeClears DEF E!document_root
<1>5. CASE E!document_end
  <2> DEFINE o == E!write_indent(out, E!indent)
  <2>1. out' \in {o, E!write_indent(E!write_indicator(o, "..."), E!indent)}
    BY <1>5 DEF E!document_end
  <2>2. Writing(o, E!Unprepared)
    BY IndentKeeps
  <2> HIDE DEF o
  <2>3. Writing(E!write_indicator(o, "..."), E!Unprepared)
    BY <2>2, WritersKeep
  <2> QED BY <2>1, <2>2, <2>3, IndentKeeps
<1>6. CASE E!Unexpected
  BY <1>6 DEF E!Unexpected, E!Raise
<1> QED BY <1>1, <1>2, <1>3, <1>4, <1>5, <1>6

LEMMA FlowClears ==
  ASSUME Writing(out, E!Unprepared), AliasUntagged,
         E!flow_sequence_item \/ E!flow_mapping_key \/ E!SimpleValue \/ E!flow_mapping_value
  PROVE  Writing(out', E!Unprepared)
<1>1. CASE E!flow_sequence_item
  <2> DEFINE first == e_state = "first_flow_sequence_item"
             item == E!BreakLong(E!Comma(out, first))
  <2>1. \/ out' = E!CloseFlow(out, "]", first)
        \/ E!expect_node(item, "sequence", "flow_sequence_item")
    BY <1>1 DEF E!flow_sequence_item, E!EndsIt
  <2>2. Writing(E!Comma(out, first), E!Unprepared)
    BY FlowKeeps
  <2>3. Writing(item, E!Unprepared)
    BY <2>2, FlowKeeps
  <2> HIDE DEF item, first
  <2> QED BY <2>1, <2>3, FlowKeeps, MayBeGiven, NodeClears
<1>2. CASE E!flow_mapping_key
  <2> DEFINE first == e_state = "first_flow_mapping_key"
             key == E!BreakLong(E!Comma(out, first))
  <2>1. \/ out' = E!CloseFlow(out, "}", first)
        \/ E!KeyNode(key, E!write_indicator(key, "?"), "flow_mapping_simple_value",
                     "flow_mapping_value")
    BY <1>2 DEF E!flow_mapping_key, E!EndsIt
  <2>2. Writing(E!Comma(out, first), E!Unprepared)
    BY FlowKeeps
  <2>3. Writing(key, E!Unprepared)
    BY <2>2, FlowKeeps
  <2> HIDE DEF key, first
  <2>4. Writing(E!write_indicator(key, "?"), E!Unprepared)
    BY <2>3, WritersKeep
  <2> QED BY <2>1, <2>3, <2>4, FlowKeeps, KeyClears
<1>3. CASE E!SimpleValue
  <2>1. Writing(E!WriteClose(out, ":"), E!Unprepared)
    BY WritersKeep
  <2> QED BY <1>3, <2>1, MayBeGiven, NodeClears DEF E!SimpleValue
<1>4. CASE E!flow_mapping_value
  <2>1. Writing(E!BreakLong(out), E!Unprepared)
    BY FlowKeeps
  <2>2. Writing(E!write_indicator(E!BreakLong(out), ":"), E!Unprepared)
    BY <2>1, WritersKeep
  <2> QED BY <1>4, <2>2, MayBeGiven, NodeClears DEF E!flow_mapping_value
<1> QED BY <1>1, <1>2, <1>3, <1>4

LEMMA BlocksClear ==
  ASSUME Writing(out, E!Unprepared), AliasUntagged,
         E!block_sequence_item \/ E!block_mapping_key \/ E!block_mapping_value
  PROVE  Writing(out', E!Unprepared)
<1> DEFINE line == E!write_indent(out, E!indent)
<1>1. Writing(line, E!Unprepared)
  BY IndentKeeps
<1>2. CASE E!block_sequence_item
  <2>1. out' = out \/ E!expect_node(E!WriteItem(line, "-"), "sequence", "block_sequence_item")
    BY <1>2 DEF E!block_sequence_item, E!EndsIt
  <2> HIDE DEF line
  <2>2. Writing(E!WriteItem(line, "-"), E!Unprepared)
    BY <1>1, WritersKeep
  <2> QED BY <2>1, <2>2, MayBeGiven, NodeClears
<1>3. CASE E!block_mapping_key
  <2>1. \/ out' = out
        \/ E!KeyNode(line, E!WriteItem(line, "?"), "block_mapping_simple_value",
                     "block_mapping_value")
    BY <1>3 DEF E!block_mapping_key, E!EndsIt
  <2> HIDE DEF line
  <2>2. Writing(E!WriteItem(line, "?"), E!Unprepared)
    BY <1>1, WritersKeep
  <2> QED BY <1>1, <2>1, <2>2, KeyClears
<1>4. CASE E!block_mapping_value
  <2>1. E!expect_node(E!WriteItem(line, ":"), "mapping", "block_mapping_key")
    BY <1>4 DEF E!block_mapping_value
  <2> HIDE DEF line
  <2>2. Writing(E!WriteItem(line, ":"), E!Unprepared)
    BY <1>1, WritersKeep
  <2> QED BY <2>1, <2>2, MayBeGiven, NodeClears
<1> QED BY <1>2, <1>3, <1>4

\* The inductive invariant: between two events nothing is prepared, in whatever
\* state of the emitter, and the events in the queue are of the case at hand.
EmitInv ==
  /\ case \in DOMAIN Cases /\ events \in Seq(Cases[case].inputs)
  /\ Writing(out, E!Unprepared)

LEMMA EmitStep ==
  ASSUME EmitInv, TripNext \/ UNCHANGED tripVars
  PROVE  EmitInv'
<1> USE DEF EmitInv
<1>1. CASE Read
  <2>1. UNCHANGED <<events, case>>
    BY <1>1 DEF Read, ScanText, ParseToken, TakeEvent, emitterVars
  <2>2. out' = out \/ out' = [out EXCEPT !.text = Tail(@)]
    BY <1>1 DEF Read, ScanText, ParseToken, TakeEvent, emitterVars
  <2>3. Writing(out', E!Unprepared)
    BY <2>2 DEF Writing
  <2> QED BY <2>1, <2>3 DEF Writing, E!Unprepared
<1>2. CASE Emit
  <2>1. E!Handle /\ UNCHANGED case
    BY <1>2 DEF Emit
  <2>2. events # <<>> /\ events' = Tail(events)
    BY <2>1 DEF E!Handle, E!need_more_events
  <2>3. E!event \in Cases[case].inputs
    BY <2>2 DEF E!event
  <2>4. AliasUntagged
    BY <2>3, RoundTripAssumption DEF AliasUntagged
  <2>5. Writing(out', E!Unprepared)
    BY <2>1, <2>4, DocumentsClear, FlowClears, BlocksClear DEF E!Handle
  <2> QED BY <2>1, <2>2, <2>5 DEF Writing, E!Unprepared
<1>3. CASE Give
  <2>1. PICK e \in Cases[case].inputs : events' = Append(events, e)
    BY <1>3 DEF Give
  <2> QED BY <1>3, <2>1 DEF Give, Writing, E!Unprepared
<1>4. CASE Done \/ UNCHANGED tripVars
  BY <1>4 DEF Done, tripVars, emitterVars, Writing, E!Unprepared
<1> QED BY <1>1, <1>2, <1>3, <1>4 DEF TripNext

LEMMA EmitInit == TripInit => EmitInv
BY DEF TripInit, E!EmitterInit, EmitInv, Writing, E!Unprepared

\* Whatever the events, options and analysed scalars, what the emitter prepares
\* for one node (anchor, tag, analysis, style) is never written for another.
THEOREM EmitterForgets == TripSpec => []NothingStale
<1>1. EmitInv => NothingStale
  BY DEF EmitInv, NothingStale, E!NothingStale, Writing
<1>2. EmitInv /\ [TripNext]_tripVars => EmitInv'
  BY EmitStep
<1> QED BY <1>1, <1>2, EmitInit, PTL DEF TripSpec
=============================================================================
