---------------------------- MODULE ReaderProofs ----------------------------
(***************************************************************************)
(* Theorems about Reader, for any characters, widths, pieces of the file,  *)
(* lengths of the text and distances that the scanner looks ahead.         *)
(***************************************************************************)
EXTENDS Reader, SequenceTheorems, FiniteSetTheorems, TLAPS

-----------------------------------------------------------------------------
\* The invariant.

Byte == Chars \X (Nat \ {0})
Character == Chars \cup {"NUL"}

\* The stream as it was at the beginning.
CutBytes == IF cut THEN Front(Bytes(Broken)) ELSE <<>>
Total == Encoded(text) \o CutBytes

\* How many characters of the text are in the buffer, or were and are read.
Buffered == index - pointer + Len(buffer)

ReaderTypeOK ==
  /\ text \in Seq(Chars) /\ cut \in BOOLEAN /\ (cut => \E c \in Chars : Width[c] > 1)
  /\ input \in {"file", "str", "unicode"} /\ stream \in Seq(Byte) /\ eof \in BOOLEAN
  /\ buffer \in Seq(Character)
  /\ pointer \in Nat /\ index \in Nat /\ line \in Nat /\ column \in Nat /\ stream_pointer \in Nat
  /\ call \in [what : {"none", "determine_encoding", "peek", "prefix", "forward"},
               length : Nat, need : Nat]
  /\ error \in [what : {"none", "decode", "special characters are not allowed"}, at : Int]

\* The bytes that are decoded are those of the characters before the buffer's end;
\* none of these is cut, and none is not printable.
Decodes(done) ==
  /\ Total = (done \o raw_buffer) \o stream
  /\ IF input = "file" THEN stream_pointer = Len(done) + Len(raw_buffer) ELSE done = <<>>
  /\ done # <<>> => Len(done) \in Ends(done)
  /\ Len(Decoded(done)) = Buffered
  /\ \A i \in 1..Buffered : text[i] # "x"
Undecoded == raw_buffer \in Seq(Byte) /\ \E done \in Seq(Byte) : Decodes(done)
Exhausted == raw_buffer = None /\ Buffered = Len(Whole)

BufferIsText ==
  /\ pointer <= Len(buffer) /\ pointer <= index /\ index <= Len(text)
  /\ Buffered <= Len(Whole)
  /\ \A i \in 1..Len(buffer) : buffer[i] = Whole[index - pointer + i]
  /\ eof => stream = <<>>
  /\ input # "file" => eof
  /\ error = NoError => Undecoded \/ Exhausted

\* A call stays within the text, and update() is asked for enough of it.
Enough(n) == raw_buffer = None \/ pointer + n <= Len(buffer) \/ (pointer = 0 /\ call.need = n)
CallsAreServed ==
  /\ call.what \in {"peek", "forward"} =>
       index + call.length <= Len(text) /\ Enough(call.length + 1)
  /\ call.what = "prefix" => Enough(call.length)

ReaderInv == ReaderTypeOK /\ BufferIsText /\ CallsAreServed /\ PlacesAreRight
-----------------------------------------------------------------------------
\* Recursive functions on the numbers up to n.

\* A set of numbers that is not empty has a least one.
LEMMA LeastElement ==
  ASSUME NEW S \in SUBSET Nat, S # {}
  PROVE  \E n \in S : \A m \in S : n <= m
<1>1. PICK n \in S : \A m \in S : ~(<<m, n>> \in OpToRel(<, Nat))
  BY WFMin, NatLessThanWellFounded, Zenon
<1>2. \A m \in S : ~(m < n)
  BY <1>1 DEF OpToRel
<1> QED BY <1>2

\* Two functions that begin alike, and go on alike, are alike.
Alike(f, g, n) == f[0] = g[0] /\ \A i \in 1..n : f[i - 1] = g[i - 1] => f[i] = g[i]
LEMMA Agreement ==
  ASSUME NEW f, NEW g, NEW n \in Nat, Alike(f, g, n)
  PROVE  \A i \in 0..n : f[i] = g[i]
<1> DEFINE S == {i \in 0..n : f[i] # g[i]}
<1>1. SUFFICES ASSUME S # {} PROVE FALSE
  OBVIOUS
<1>2. PICK k \in S : \A m \in S : k <= m
  <2>1. S \in SUBSET Nat
    OBVIOUS
  <2> HIDE DEF S
  <2> QED BY <1>1, <2>1, LeastElement
<1>3. k \in 1..n
  BY <1>2 DEF Alike
<1>4. f[k - 1] = g[k - 1]
  BY <1>2, <1>3
<1> QED BY <1>2, <1>3, <1>4 DEF Alike

\* A function defined by a first value and a step exists.
Recurses(f, n, base, step) == f[0] = base /\ \A i \in 1..n : f[i] = step[<<i, f[i - 1]>>]
LEMMA RecursionExists ==
  ASSUME NEW S, NEW base \in S, NEW n \in Nat, NEW step \in [(1..n) \X S -> S]
  PROVE  \E f \in [0..n -> S] : Recurses(f, n, base, step)
<1> DEFINE Is(f, k) == Recurses(f, k, base, step)
           T == {k \in 0..n : ~\E f \in [0..k -> S] : Is(f, k)}
<1>1. SUFFICES ASSUME T # {} PROVE FALSE
  <2>1. n \in 0..n
    OBVIOUS
  <2>2. n \notin T
    BY <1>1
  <2> QED BY <2>1, <2>2
<1>2. PICK k \in T : \A m \in T : k <= m
  <2>1. T \in SUBSET Nat
    OBVIOUS
  <2> HIDE DEF T
  <2> QED BY <1>1, <2>1, LeastElement
<1>3. k \in 0..n
  BY <1>2
<1>4. CASE k = 0
  <2> DEFINE f == [i \in 0..0 |-> base]
  <2>1. f \in [0..k -> S] /\ Is(f, k)
    BY <1>4 DEF Recurses
  <2> QED BY <1>2, <2>1
<1>5. CASE k # 0
  <2>1. k - 1 \in 0..n /\ k - 1 \notin T
    BY <1>2, <1>3, <1>5
  <2>2. PICK f \in [0..(k - 1) -> S] : Is(f, k - 1)
    BY <2>1
  <2> DEFINE g == [i \in 0..k |-> IF i = k THEN step[<<k, f[k - 1]>>] ELSE f[i]]
  <2>3. f[k - 1] \in S /\ step[<<k, f[k - 1]>>] \in S
    <3>1. k - 1 \in 0..(k - 1) /\ k \in 1..n
      BY <1>3, <1>5
    <3>2. f[k - 1] \in S
      BY <2>2, <3>1
    <3> QED BY <3>1, <3>2
  <2>4. g \in [0..k -> S]
    BY <1>3, <2>2, <2>3
  <2>5. g[k] = step[<<k, f[k - 1]>>] /\ \A i \in 0..(k - 1) : g[i] = f[i]
    BY <1>3
  <2> HIDE DEF g
  <2>6. ASSUME NEW i \in 1..k PROVE g[i] = step[<<i, g[i - 1]>>]
    <3>1. i - 1 \in 0..(k - 1) /\ g[i - 1] = f[i - 1]
      BY <1>3, <2>5
    <3>2. CASE i = k
      BY <2>5, <3>1, <3>2
    <3>3. CASE i # k
      <4>1. i \in 1..(k - 1) /\ i \in 0..(k - 1)
        BY <1>3, <3>3
      <4> QED BY <2>2, <2>5, <3>1, <4>1 DEF Recurses
    <3> QED BY <3>2, <3>3
  <2>7. g[0] = base
    <3>1. 0 \in 0..(k - 1)
      BY <1>3, <1>5
    <3> QED BY <2>2, <2>5, <3>1 DEF Recurses
  <2>8. Is(g, k)
    BY <2>6, <2>7 DEF Recurses
  <2> QED BY <1>2, <2>4, <2>8
<1> QED BY <1>4, <1>5
-----------------------------------------------------------------------------
\* What the codec makes of bytes.

LEMMA ByteFacts ==
  ASSUME NEW raw \in Seq(Byte)
  PROVE  /\ Ends(raw) \subseteq 1..Len(raw) /\ Len(raw) \in Nat
         /\ \A i \in 1..Len(raw) : i \in Ends(raw) <=> raw[i][2] = Width[raw[i][1]]
         /\ \A i \in 1..Len(raw) : raw[i] \in Byte /\ raw[i][1] \in Chars
BY DEF Ends, Byte

\* Decoded is a recursive function.
LEMMA DecodedIs ==
  ASSUME NEW raw \in Seq(Byte)
  PROVE  \E f \in [0..Len(raw) -> Seq(Chars)] :
           /\ f[0] = <<>> /\ Decoded(raw) = f[Len(raw)]
           /\ \A i \in 1..Len(raw) :
                f[i] = IF i \in Ends(raw) THEN Append(f[i - 1], raw[i][1]) ELSE f[i - 1]
<1> DEFINE n == Len(raw)
           Next1(p) == IF p[1] \in Ends(raw) THEN Append(p[2], raw[p[1]][1]) ELSE p[2]
           step == [p \in (1..n) \X Seq(Chars) |-> Next1(p)]
           F == CHOOSE h : h = [i \in 0..n |->
                  IF i = 0 THEN <<>>
                  ELSE IF i \in Ends(raw) THEN Append(h[i - 1], raw[i][1]) ELSE h[i - 1]]
<1>1. n \in Nat /\ \A i \in 1..n : raw[i][1] \in Chars
  BY ByteFacts
<1>2. step \in [(1..n) \X Seq(Chars) -> Seq(Chars)]
  <2>1. ASSUME NEW p \in (1..n) \X Seq(Chars) PROVE Next1(p) \in Seq(Chars)
    <3>1. p[1] \in 1..n /\ p[2] \in Seq(Chars) /\ raw[p[1]][1] \in Chars
      BY <1>1
    <3>2. Append(p[2], raw[p[1]][1]) \in Seq(Chars)
      BY <3>1
    <3> QED BY <3>1, <3>2
  <2> HIDE DEF Next1
  <2> QED BY <2>1
<1>3. PICK f \in [0..n -> Seq(Chars)] : Recurses(f, n, <<>>, step)
  <2> <<>> \in Seq(Chars)
    OBVIOUS
  <2> HIDE DEF n, step
  <2> QED BY <1>1, <1>2, RecursionExists
<1>4. ASSUME NEW i \in 1..n
      PROVE  f[i] = IF i \in Ends(raw) THEN Append(f[i - 1], raw[i][1]) ELSE f[i - 1]
  <2>1. i - 1 \in 0..n
    BY <1>1
  <2>2. <<i, f[i - 1]>> \in (1..n) \X Seq(Chars)
    BY <1>3, <2>1
  <2>3. step[<<i, f[i - 1]>>] = Next1(<<i, f[i - 1]>>)
    BY <2>2
  <2> QED BY <1>3, <2>3 DEF Recurses
<1>5. f = [i \in 0..n |->
             IF i = 0 THEN <<>>
             ELSE IF i \in Ends(raw) THEN Append(f[i - 1], raw[i][1]) ELSE f[i - 1]]
  <2>1. ASSUME NEW i \in 0..n
        PROVE  f[i] = IF i = 0 THEN <<>>
                      ELSE IF i \in Ends(raw) THEN Append(f[i - 1], raw[i][1]) ELSE f[i - 1]
    <3>1. i = 0 \/ i \in 1..n
      BY <1>1
    <3>2. CASE i = 0
      BY <1>3, <3>2 DEF Recurses
    <3>3. CASE i \in 1..n
      <4>1. i # 0
        BY <3>3
      <4> QED BY <1>4, <3>3, <4>1
    <3> QED BY <3>1, <3>2, <3>3
  <2> QED BY <1>3, <2>1
<1>6. F = [i \in 0..n |->
             IF i = 0 THEN <<>>
             ELSE IF i \in Ends(raw) THEN Append(F[i - 1], raw[i][1]) ELSE F[i - 1]]
  BY <1>5
<1>7. Decoded(raw) = F[n]
  BY DEF Decoded
<1>8. F[n] = f[n]
  <2> HIDE DEF F
  <2>1. F[0] = f[0]
    BY <1>1, <1>3, <1>6 DEF Recurses
  <2>2. ASSUME NEW i \in 1..n, F[i - 1] = f[i - 1] PROVE F[i] = f[i]
    <3>1. i \in 0..n /\ i # 0
      BY <1>1
    <3>2. F[i] = IF i \in Ends(raw) THEN Append(F[i - 1], raw[i][1]) ELSE F[i - 1]
      BY <1>6, <3>1
    <3> QED BY <1>4, <2>2, <3>2
  <2>3. \A i \in 0..n : F[i] = f[i]
    <3> HIDE DEF n
    <3>1. Alike(F, f, n)
      BY <2>1, <2>2 DEF Alike
    <3> QED BY <1>1, <3>1, Agreement
  <2> QED BY <1>1, <2>3
<1> QED BY <1>3, <1>4, <1>7, <1>8 DEF Recurses

LEMMA DecodedType ==
  ASSUME NEW raw \in Seq(Byte)
  PROVE  Decoded(raw) \in Seq(Chars)
<1>1. Len(raw) \in 0..Len(raw)
  BY ByteFacts
<1> QED BY <1>1, DecodedIs

\* Bytes without an end are no character; the bytes of a character are that one.
LEMMA DecodedNothing ==
  ASSUME NEW raw \in Seq(Byte), Ends(raw) = {}
  PROVE  Decoded(raw) = <<>>
<1>1. PICK f \in [0..Len(raw) -> Seq(Chars)] :
        /\ f[0] = <<>> /\ Decoded(raw) = f[Len(raw)]
        /\ \A i \in 1..Len(raw) :
             f[i] = IF i \in Ends(raw) THEN Append(f[i - 1], raw[i][1]) ELSE f[i - 1]
  BY DecodedIs
<1> DEFINE g == [i \in 0..Len(raw) |-> <<>>]
<1>2. Len(raw) \in Nat /\ \A i \in 0..Len(raw) : g[i] = <<>>
  BY ByteFacts
<1>3. \A i \in 1..Len(raw) : i - 1 \in 0..Len(raw) /\ i \in 0..Len(raw)
  BY <1>2
<1> HIDE DEF g
<1>4. f[0] = g[0] /\ \A i \in 1..Len(raw) : f[i - 1] = g[i - 1] => f[i] = g[i]
  <2>1. 0 \in 0..Len(raw)
    BY <1>2
  <2> QED BY <1>1, <1>2, <1>3, <2>1
<1>5. \A i \in 0..Len(raw) : f[i] = g[i]
  <2>1. Alike(f, g, Len(raw))
    BY <1>4 DEF Alike
  <2> QED BY <1>2, <2>1, Agreement
<1> QED BY <1>1, <1>2, <1>5

LEMMA AppendConcat ==
  \A p, q \in Seq(Chars) : \A e \in Chars : Append(p \o q, e) = p \o Append(q, e)
OBVIOUS

LEMMA DecodedConcat ==
  ASSUME NEW a \in Seq(Byte), NEW b \in Seq(Byte)
  PROVE  Decoded(a \o b) = Decoded(a) \o Decoded(b)
<1> DEFINE r == a \o b
           m == Len(a)
           n == Len(b)
<1>1. /\ r \in Seq(Byte) /\ m \in Nat /\ n \in Nat /\ Len(r) = m + n
      /\ \A i \in 1..m : r[i] = a[i]
      /\ \A i \in 1..n : r[m + i] = b[i]
  OBVIOUS
<1>2. /\ \A i \in 1..m : i \in Ends(r) <=> i \in Ends(a)
      /\ \A i \in 1..n : m + i \in Ends(r) <=> i \in Ends(b)
  BY <1>1 DEF Ends
<1> HIDE DEF r
<1>3. PICK f \in [0..Len(r) -> Seq(Chars)] :
        /\ f[0] = <<>> /\ Decoded(r) = f[Len(r)]
        /\ \A i \in 1..Len(r) : f[i] = IF i \in Ends(r) THEN Append(f[i - 1], r[i][1]) ELSE f[i - 1]
  BY <1>1, DecodedIs
<1>4. PICK g \in [0..m -> Seq(Chars)] :
        /\ g[0] = <<>> /\ Decoded(a) = g[m]
        /\ \A i \in 1..m : g[i] = IF i \in Ends(a) THEN Append(g[i - 1], a[i][1]) ELSE g[i - 1]
  BY DecodedIs
<1>5. PICK h \in [0..n -> Seq(Chars)] :
        /\ h[0] = <<>> /\ Decoded(b) = h[n]
        /\ \A i \in 1..n : h[i] = IF i \in Ends(b) THEN Append(h[i - 1], b[i][1]) ELSE h[i - 1]
  BY DecodedIs
<1> HIDE DEF m, n
<1>6. \A i \in 0..m : f[i] = g[i]
  <2>1. ASSUME NEW i \in 1..m, f[i - 1] = g[i - 1] PROVE f[i] = g[i]
    <3>1. i \in 1..Len(r)
      BY <1>1
    <3> QED BY <1>1, <1>2, <1>3, <1>4, <2>1, <3>1
  <2>2. Alike(f, g, m)
    BY <1>3, <1>4, <2>1 DEF Alike
  <2>3. m \in Nat
    BY <1>1
  <2> QED BY <2>2, <2>3, Agreement
<1> DEFINE F == [i \in 0..n |-> f[m + i]]
           G == [i \in 0..n |-> g[m] \o h[i]]
<1>7. F[0] = G[0]
  <2>1. 0 \in 0..n /\ m \in 0..m /\ m + 0 = m
    BY <1>1
  <2>2. g[m] \in Seq(Chars) /\ g[m] \o <<>> = g[m]
    BY <1>4, <2>1
  <2> QED BY <1>5, <1>6, <2>1, <2>2
<1>8. ASSUME NEW i \in 1..n, F[i - 1] = G[i - 1] PROVE F[i] = G[i]
  <2>1. /\ i \in 0..n /\ i - 1 \in 0..n /\ m + i \in 1..Len(r) /\ (m + i) - 1 = m + (i - 1)
        /\ m \in 0..m
    BY <1>1
  <2>2. f[m + (i - 1)] = g[m] \o h[i - 1]
    BY <1>8, <2>1
  <2>3. f[m + i] = IF i \in Ends(b) THEN Append(g[m] \o h[i - 1], b[i][1]) ELSE g[m] \o h[i - 1]
    BY <1>1, <1>2, <1>3, <2>1, <2>2
  <2>4. g[m] \in Seq(Chars) /\ h[i - 1] \in Seq(Chars) /\ b[i][1] \in Chars
    BY <1>4, <1>5, <2>1, ByteFacts DEF n
  <2>5. Append(g[m] \o h[i - 1], b[i][1]) = g[m] \o Append(h[i - 1], b[i][1])
    BY <2>4, AppendConcat, Zenon
  <2>6. f[m + i] = g[m] \o h[i]
    BY <1>5, <2>3, <2>5
  <2> QED BY <2>1, <2>6
<1>9. F[n] = G[n]
  <2> HIDE DEF F, G
  <2>1. \A i \in 0..n : F[i] = G[i]
    <3>1. Alike(F, G, n)
      BY <1>7, <1>8 DEF Alike
    <3> QED BY <1>1, <3>1, Agreement
  <2> QED BY <1>1, <2>1
<1>10. f[m + n] = g[m] \o h[n]
  <2>1. n \in 0..n
    BY <1>1
  <2> QED BY <1>9, <2>1
<1> QED BY <1>1, <1>3, <1>4, <1>5, <1>10 DEF r
-----------------------------------------------------------------------------
\* What the bytes of a text are.

LEMMA BytesOf ==
  ASSUME NEW c \in Chars
  PROVE  /\ Bytes(c) \in Seq(Byte) /\ Len(Bytes(c)) = Width[c] /\ Width[c] \in 1..4
         /\ \A i \in 1..Width[c] : Bytes(c)[i] = <<c, i>>
         /\ Ends(Bytes(c)) = {Width[c]}
<1>1. Width[c] \in 1..4
  BY ReaderAssumption
<1>2. Bytes(c) \in Seq(Byte) /\ Len(Bytes(c)) = Width[c]
  BY <1>1 DEF Bytes, Byte
<1>3. \A i \in 1..Width[c] : Bytes(c)[i] = <<c, i>>
  BY DEF Bytes
<1>4. DOMAIN Bytes(c) = 1..Width[c]
  BY DEF Bytes
<1>5. Ends(Bytes(c)) = {Width[c]}
  <2>1. \A i \in 1..Width[c] : Bytes(c)[i][1] = c /\ Bytes(c)[i][2] = i
    BY <1>3
  <2> QED BY <1>1, <1>4, <2>1 DEF Ends
<1> QED BY <1>1, <1>2, <1>3, <1>5

LEMMA FrontOfBytes ==
  ASSUME NEW c \in Chars
  PROVE  /\ Front(Bytes(c)) \in Seq(Byte) /\ Ends(Front(Bytes(c))) = {}
         /\ Len(Front(Bytes(c))) = Width[c] - 1
         /\ Bytes(c) = Front(Bytes(c)) \o <<<<c, Width[c]>>>>
<1> DEFINE b == Bytes(c)
           w == Width[c]
           p == SubSeq(b, 1, w - 1)
<1>1. /\ b \in Seq(Byte) /\ Len(b) = w /\ w \in 1..4 /\ \A i \in 1..w : b[i] = <<c, i>>
      /\ Ends(b) = {w}
  BY BytesOf
<1>2. Front(b) = p
  BY <1>1 DEF Front
<1> HIDE DEF b
<1>3. p \in Seq(Byte) /\ Len(p) = w - 1 /\ \A i \in 1..(w - 1) : p[i] = <<c, i>>
  BY <1>1
<1> HIDE DEF p, w
<1>4. Ends(p) = {}
  <2>1. DOMAIN p = 1..(w - 1)
    BY <1>1, <1>3
  <2>2. \A i \in 1..(w - 1) : p[i][2] # Width[p[i][1]]
    BY <1>1, <1>3 DEF w
  <2> QED BY <2>1, <2>2 DEF Ends
<1>5. b = p \o <<<<c, w>>>>
  <2> DEFINE q == p \o <<<<c, w>>>>
  <2>1. <<c, w>> \in Byte
    BY <1>1 DEF Byte
  <2>2. q \in Seq(Byte) /\ Len(q) = w
        /\ (\A i \in 1..(w - 1) : q[i] = p[i]) /\ q[w] = <<c, w>>
    BY <1>1, <1>3, <2>1
  <2> HIDE DEF q
  <2>3. \A i \in 1..w : b[i] = q[i]
    <3>1. \A i \in 1..w : i = w \/ i \in 1..(w - 1)
      BY <1>1
    <3> QED BY <1>1, <1>3, <2>2, <3>1
  <2>4. b = q
    BY <1>1, <2>2, <2>3, SeqEqual
  <2> QED BY <2>4 DEF q
<1> QED BY <1>2, <1>3, <1>4, <1>5 DEF b, w

\* The bytes of a character make the character.
LEMMA DecodedBytes ==
  ASSUME NEW c \in Chars
  PROVE  Decoded(Bytes(c)) = <<c>>
<1> DEFINE p == Front(Bytes(c))
           e == <<<<c, Width[c]>>>>
<1>1. p \in Seq(Byte) /\ Ends(p) = {} /\ Bytes(c) = p \o e
  BY FrontOfBytes
<1>2. e \in Seq(Byte) /\ Len(e) = 1 /\ e[1] = <<c, Width[c]>> /\ DOMAIN e = {1}
  BY BytesOf DEF Byte
<1>3. Ends(e) = {1}
  BY <1>2 DEF Ends
<1>4. Decoded(p) = <<>>
  BY <1>1, DecodedNothing
<1> HIDE DEF e, p
<1>5. Decoded(e) = <<c>>
  <2>1. PICK f \in [0..Len(e) -> Seq(Chars)] :
          /\ f[0] = <<>> /\ Decoded(e) = f[Len(e)]
          /\ \A i \in 1..Len(e) :
               f[i] = IF i \in Ends(e) THEN Append(f[i - 1], e[i][1]) ELSE f[i - 1]
    BY <1>2, DecodedIs
  <2>2. f[1] = Append(<<>>, c)
    BY <1>2, <1>3, <2>1
  <2> QED BY <1>2, <2>1, <2>2
<1>6. Decoded(p \o e) = Decoded(p) \o Decoded(e)
  BY <1>1, <1>2, DecodedConcat
<1>7. <<>> \o <<c>> = <<c>>
  OBVIOUS
<1> QED BY <1>1, <1>4, <1>5, <1>6, <1>7

\* Encoded adds the bytes of one character after the other.
LEMMA EncodedIs ==
  ASSUME NEW s \in Seq(Chars)
  PROVE  \E e \in [0..Len(s) -> Seq(Byte)] :
           /\ e[0] = <<>> /\ Encoded(s) = e[Len(s)]
           /\ \A i \in 1..Len(s) : e[i] = e[i - 1] \o Bytes(s[i])
<1> DEFINE n == Len(s)
           q == [i \in DOMAIN s |-> Bytes(s[i])]
           step == [p \in (1..n) \X Seq(Byte) |-> p[2] \o q[p[1]]]
           F == CHOOSE h : h = [i \in 1..Len(q) |-> IF i = 1 THEN q[i] ELSE h[i - 1] \o q[i]]
           G == [i \in 0..n |-> IF i = 0 THEN <<>> ELSE F[i]]
<1>1. n \in Nat /\ DOMAIN s = 1..n /\ \A i \in 1..n : s[i] \in Chars
  OBVIOUS
<1>2. \A i \in 1..n : q[i] = Bytes(s[i]) /\ q[i] \in Seq(Byte)
  <2>1. \A i \in 1..n : q[i] = Bytes(s[i])
    BY <1>1
  <2> QED BY <1>1, <2>1, BytesOf
<1>3. q \in Seq(Seq(Byte)) /\ Len(q) = n
  <2>1. q \in [1..n -> Seq(Byte)]
    BY <1>1, <1>2
  <2> HIDE DEF q, n
  <2> QED BY <1>1, <2>1
<1> HIDE DEF q
<1>4. step \in [(1..n) \X Seq(Byte) -> Seq(Byte)]
  <2>1. ASSUME NEW p \in (1..n) \X Seq(Byte) PROVE p[2] \o q[p[1]] \in Seq(Byte)
    <3>1. p[2] \in Seq(Byte) /\ q[p[1]] \in Seq(Byte)
      BY <1>2
    <3> QED BY <3>1
  <2> QED BY <2>1
<1>5. PICK e \in [0..n -> Seq(Byte)] : Recurses(e, n, <<>>, step)
  <2> <<>> \in Seq(Byte)
    OBVIOUS
  <2> HIDE DEF n, step
  <2> QED BY <1>1, <1>4, RecursionExists
<1>6. e[0] = <<>>
  BY <1>5 DEF Recurses
<1>7. ASSUME NEW i \in 1..n PROVE e[i] = e[i - 1] \o q[i]
  <2>1. i - 1 \in 0..n
    BY <1>1
  <2>2. <<i, e[i - 1]>> \in (1..n) \X Seq(Byte)
    BY <1>5, <2>1
  <2>3. step[<<i, e[i - 1]>>] = e[i - 1] \o q[i]
    BY <2>2
  <2> QED BY <1>5, <2>3 DEF Recurses
<1>8. CASE n = 0
  <2>1. FlattenSeq(q) = q
    BY <1>3, <1>8 DEF FlattenSeq
  <2>2. q = <<>>
    BY <1>3, <1>8
  <2> QED BY <1>2, <1>5, <1>6, <1>7, <1>8, <2>1, <2>2 DEF Encoded, q
<1>9. CASE n # 0
  <2>0. 1 \in 1..n /\ e[1] = q[1]
    <3>1. 1 \in 1..n /\ 1 - 1 = 0
      BY <1>1, <1>9
    <3>2. q[1] \in Seq(Byte)
      BY <1>2, <3>1
    <3>3. <<>> \o q[1] = q[1]
      BY <3>2
    <3>4. e[1] = e[1 - 1] \o q[1]
      BY <1>7, <3>1
    <3> QED BY <1>6, <3>1, <3>3, <3>4
  <2>1. FlattenSeq(q) = F[n]
    BY <1>3, <1>9 DEF FlattenSeq
  <2> DEFINE d == [i \in 1..n |-> e[i]]
  <2>2. d = [i \in 1..n |-> IF i = 1 THEN q[i] ELSE d[i - 1] \o q[i]]
    <3>1. ASSUME NEW i \in 1..n PROVE d[i] = IF i = 1 THEN q[i] ELSE d[i - 1] \o q[i]
      <4>1. CASE i = 1
        BY <2>0, <4>1
      <4>2. CASE i # 1
        <5>1. i - 1 \in 1..n
          BY <1>1, <4>2
        <5> QED BY <1>7, <4>2, <5>1
      <4> QED BY <4>1, <4>2
    <3>2. d = [i \in 1..n |-> d[i]]
      OBVIOUS
    <3> HIDE DEF d
    <3> QED BY <3>1, <3>2
  <2>3. F = [i \in 1..n |-> IF i = 1 THEN q[i] ELSE F[i - 1] \o q[i]]
    <3> HIDE DEF d
    <3> QED BY <1>3, <2>2
  <2> HIDE DEF F
  <2>4. /\ G[0] = <<>>
        /\ \A i \in 1..n : G[i] = F[i]
    <3>1. 0 \in 0..n /\ \A i \in 1..n : i \in 0..n /\ i # 0
      BY <1>1
    <3> QED BY <3>1
  <2> HIDE DEF G
  <2>5. ASSUME NEW i \in 1..n, G[i - 1] = e[i - 1] PROVE G[i] = e[i]
    <3>1. F[i] = IF i = 1 THEN q[i] ELSE F[i - 1] \o q[i]
      BY <2>3
    <3>2. CASE i = 1
      BY <2>0, <2>4, <3>1, <3>2
    <3>3. CASE i # 1
      <4>1. i - 1 \in 1..n
        BY <1>1, <3>3
      <4> QED BY <1>7, <2>4, <2>5, <3>1, <3>3, <4>1
    <3> QED BY <3>2, <3>3
  <2>6. Alike(G, e, n)
    BY <1>6, <2>4, <2>5 DEF Alike
  <2>7. n \in Nat /\ n \in 0..n /\ n \in 1..n
    BY <1>1, <1>9
  <2>8. G[n] = e[n]
    <3> HIDE DEF n
    <3> QED BY <2>6, <2>7, Agreement
  <2>9. Encoded(s) = e[n]
    <3>1. Encoded(s) = FlattenSeq(q)
      BY DEF Encoded, q
    <3> QED BY <2>1, <2>4, <2>7, <2>8, <3>1
  <2> QED BY <1>2, <1>5, <1>6, <1>7, <2>9
<1> QED BY <1>8, <1>9
LEMMA EndsConcat ==
  ASSUME NEW a \in Seq(Byte), NEW b \in Seq(Byte)
  PROVE  /\ a \o b \in Seq(Byte) /\ Len(a \o b) = Len(a) + Len(b)
         /\ \A i \in 1..Len(a) : i \in Ends(a \o b) <=> i \in Ends(a)
         /\ \A i \in 1..Len(b) : Len(a) + i \in Ends(a \o b) <=> i \in Ends(b)
<1> DEFINE r == a \o b
<1>1. /\ r \in Seq(Byte) /\ Len(a) \in Nat /\ Len(b) \in Nat /\ Len(r) = Len(a) + Len(b)
      /\ \A i \in 1..Len(a) : r[i] = a[i]
      /\ \A i \in 1..Len(b) : r[Len(a) + i] = b[i]
  OBVIOUS
<1>2. DOMAIN a = 1..Len(a) /\ DOMAIN b = 1..Len(b) /\ DOMAIN r = 1..Len(r)
  BY <1>1
<1> HIDE DEF r
<1>3. \A i \in 1..Len(a) : i \in Ends(r) <=> i \in Ends(a)
  BY <1>1, <1>2 DEF Ends
<1>4. \A i \in 1..Len(b) : Len(a) + i \in Ends(r) <=> i \in Ends(b)
  BY <1>1, <1>2 DEF Ends
<1> QED BY <1>1, <1>3, <1>4 DEF r

\* A text is what its bytes make.
LEMMA EncodedText ==
  ASSUME NEW s \in Seq(Chars)
  PROVE  /\ Encoded(s) \in Seq(Byte) /\ Decoded(Encoded(s)) = s
         /\ Encoded(s) # <<>> => Len(Encoded(s)) \in Ends(Encoded(s))
<1> DEFINE n == Len(s)
<1>1. PICK e \in [0..n -> Seq(Byte)] :
        /\ e[0] = <<>> /\ Encoded(s) = e[n]
        /\ \A i \in 1..n : e[i] = e[i - 1] \o Bytes(s[i])
  BY EncodedIs
<1>2. n \in Nat /\ n \in 0..n /\ \A i \in 1..n : s[i] \in Chars
  OBVIOUS
<1> DEFINE F == [i \in 0..n |-> Decoded(e[i])]
           G == [i \in 0..n |-> SubSeq(s, 1, i)]
<1>3. ASSUME NEW i \in 1..n, F[i - 1] = G[i - 1] PROVE F[i] = G[i]
  <2>1. i - 1 \in 0..n /\ i \in 0..n
    BY <1>2
  <2>2. e[i - 1] \in Seq(Byte) /\ Bytes(s[i]) \in Seq(Byte) /\ e[i] = e[i - 1] \o Bytes(s[i])
    BY <1>1, <1>2, <2>1, BytesOf
  <2>3. Decoded(e[i]) = Decoded(e[i - 1]) \o Decoded(Bytes(s[i]))
    BY <2>2, DecodedConcat
  <2>4. Decoded(Bytes(s[i])) = <<s[i]>>
    BY <1>2, DecodedBytes
  <2>5. Decoded(e[i - 1]) = SubSeq(s, 1, i - 1)
    BY <1>3, <2>1
  <2>6. SubSeq(s, 1, i) = SubSeq(s, 1, i - 1) \o <<s[i]>>
    <3> DEFINE p == SubSeq(s, 1, i - 1)
               q == SubSeq(s, 1, i)
               r == p \o <<s[i]>>
    <3>1. /\ p \in Seq(Chars) /\ Len(p) = i - 1 /\ q \in Seq(Chars) /\ Len(q) = i
          /\ (\A j \in 1..(i - 1) : p[j] = s[j]) /\ \A j \in 1..i : q[j] = s[j]
      BY <1>2
    <3> HIDE DEF p, q
    <3>2. /\ r \in Seq(Chars) /\ Len(r) = i /\ r[i] = s[i]
          /\ \A j \in 1..(i - 1) : r[j] = p[j]
      BY <1>2, <3>1
    <3> HIDE DEF r
    <3>3. \A j \in 1..i : j = i \/ j \in 1..(i - 1)
      BY <1>2
    <3>4. q = r
      BY <3>1, <3>2, <3>3, SeqEqual
    <3> QED BY <3>4 DEF p, q, r
  <2> QED BY <2>1, <2>3, <2>4, <2>5, <2>6
<1>4. F[0] = G[0]
  <2>1. 0 \in 0..n /\ SubSeq(s, 1, 0) = <<>>
    BY <1>2
  <2>2. <<>> \in Seq(Byte) /\ Ends(<<>>) = {}
    BY DEF Ends
  <2>3. Decoded(<<>>) = <<>>
    BY <2>2, DecodedNothing
  <2> QED BY <1>1, <2>1, <2>3
<1>5. F[n] = G[n]
  <2> HIDE DEF F, G, n
  <2>1. Alike(F, G, n)
    BY <1>3, <1>4 DEF Alike
  <2> QED BY <1>2, <2>1, Agreement
<1>6. Decoded(e[n]) = s
  <2>1. Decoded(e[n]) = SubSeq(s, 1, n)
    BY <1>2, <1>5
  <2> QED BY <2>1, SubSeqFull
<1>7. ASSUME e[n] # <<>> PROVE Len(e[n]) \in Ends(e[n])
  <2>1. n \in 1..n /\ n - 1 \in 0..n
    BY <1>1, <1>2, <1>7
  <2> DEFINE a == e[n - 1]
             b == Bytes(s[n])
  <2>2. a \in Seq(Byte) /\ e[n] = a \o b /\ s[n] \in Chars
    BY <1>1, <1>2, <2>1
  <2>3. b \in Seq(Byte) /\ Len(b) \in 1..Len(b) /\ Len(b) \in Ends(b)
    <3>1. /\ b \in Seq(Byte) /\ Len(b) = Width[s[n]] /\ Width[s[n]] \in 1..4
          /\ Ends(b) = {Width[s[n]]}
      BY <2>2, BytesOf
    <3> HIDE DEF b
    <3> QED BY <3>1
  <2> HIDE DEF a, b, n
  <2>4. Len(a) + Len(b) \in Ends(a \o b) /\ Len(a \o b) = Len(a) + Len(b)
    BY <2>2, <2>3, EndsConcat
  <2> QED BY <2>2, <2>4
<1> QED BY <1>1, <1>2, <1>6, <1>7

\* The bytes that are decoded, and those that are left.
LEMMA ConvertedIs ==
  ASSUME NEW raw \in Seq(Byte)
  PROVE  LET n == Converted(raw)
             done == SubSeq(raw, 1, n)
             left == SubSeq(raw, n + 1, Len(raw)) IN
         /\ n \in 0..Len(raw) /\ done \in Seq(Byte) /\ left \in Seq(Byte)
         /\ Len(done) = n /\ Len(left) = Len(raw) - n /\ raw = done \o left
         /\ done # <<>> => n \in Ends(done)
         /\ Ends(left) = {} /\ Decoded(done) = Decoded(raw)
<1> DEFINE n == Converted(raw)
           done == SubSeq(raw, 1, n)
           left == SubSeq(raw, n + 1, Len(raw))
<1>1. Ends(raw) \subseteq 1..Len(raw) /\ Len(raw) \in Nat
  BY ByteFacts
<1>2. n \in 0..Len(raw) /\ (n # 0 => n \in Ends(raw)) /\ \A j \in Ends(raw) : j <= n
  <2>1. CASE Ends(raw) = {}
    BY <1>1, <2>1 DEF Converted
  <2>2. CASE Ends(raw) # {}
    <3> DEFINE S == {Len(raw) - i : i \in Ends(raw)}
    <3>1. S \in SUBSET Nat /\ S # {}
      BY <1>1, <2>2
    <3>2. PICK k \in S : \A m \in S : k <= m
      <4> HIDE DEF S
      <4> QED BY <3>1, LeastElement
    <3>3. PICK i \in Ends(raw) : k = Len(raw) - i
      BY <3>2
    <3>4. ASSUME NEW j \in Ends(raw) PROVE j <= i
      <4>1. Len(raw) - j \in S
        OBVIOUS
      <4>2. k <= Len(raw) - j
        <5> HIDE DEF S
        <5> QED BY <3>2, <4>1
      <4> QED BY <1>1, <3>3, <4>2
    <3>5. n \in Ends(raw) /\ \A j \in Ends(raw) : j <= n
      <4>1. n = CHOOSE m \in Ends(raw) : \A j \in Ends(raw) : j <= m
        BY <2>2 DEF Converted
      <4> HIDE DEF n
      <4> QED BY <3>4, <4>1
    <3> QED BY <1>1, <3>5
  <2> QED BY <2>1, <2>2
<1> HIDE DEF n
<1>3. /\ done \in Seq(Byte) /\ left \in Seq(Byte) /\ Len(done) = n /\ Len(left) = Len(raw) - n
      /\ \A i \in 1..n : done[i] = raw[i]
      /\ \A i \in 1..(Len(raw) - n) : left[i] = raw[n + i]
  BY <1>1, <1>2
<1>4. raw = done \o left
  <2> HIDE DEF done, left
  <2> DEFINE r == done \o left
  <2>1. /\ r \in Seq(Byte) /\ Len(r) = Len(raw)
        /\ (\A i \in 1..n : r[i] = done[i]) /\ \A i \in 1..(Len(raw) - n) : r[n + i] = left[i]
    <3>1. /\ r \in Seq(Byte) /\ Len(r) = Len(done) + Len(left)
          /\ \A i \in 1..Len(done) : r[i] = done[i]
          /\ \A i \in 1..Len(left) : r[Len(done) + i] = left[i]
      BY <1>3
    <3> HIDE DEF r
    <3> QED BY <1>1, <1>2, <1>3, <3>1
  <2> HIDE DEF r
  <2>2. ASSUME NEW i \in 1..Len(raw) PROVE raw[i] = r[i]
    <3>1. CASE i <= n
      BY <1>2, <1>3, <2>1, <3>1
    <3>2. CASE i > n
      <4>1. i - n \in 1..(Len(raw) - n) /\ n + (i - n) = i
        BY <1>1, <1>2, <3>2
      <4> QED BY <1>3, <2>1, <4>1
    <3> QED BY <1>2, <3>1, <3>2
  <2>3. raw = r
    BY <2>1, <2>2, SeqEqual
  <2> QED BY <2>3 DEF r
<1> HIDE DEF done, left
<1>5. /\ \A i \in 1..n : i \in Ends(raw) <=> i \in Ends(done)
      /\ \A i \in 1..Len(left) : n + i \in Ends(raw) <=> i \in Ends(left)
  BY <1>3, <1>4, EndsConcat
<1>6. done # <<>> => n \in Ends(done)
  BY <1>2, <1>3, <1>5
<1>7. Ends(left) = {}
  <2>1. Ends(left) \subseteq 1..Len(left)
    BY <1>3, ByteFacts
  <2>2. ASSUME NEW i \in Ends(left) PROVE FALSE
    BY <1>1, <1>2, <1>3, <1>5, <2>1, <2>2
  <2> QED BY <2>2
<1>8. Decoded(raw) = Decoded(done)
  <2>1. Decoded(raw) = Decoded(done) \o Decoded(left)
    BY <1>3, <1>4, DecodedConcat
  <2>2. Decoded(left) = <<>> /\ Decoded(done) \in Seq(Chars)
    BY <1>3, <1>7, DecodedNothing, DecodedType
  <2> HIDE DEF done
  <2> QED BY <2>1, <2>2
<1> QED BY <1>2, <1>3, <1>4, <1>6, <1>7, <1>8 DEF n, done, left
-----------------------------------------------------------------------------
\* The stream as a whole, and how much of it is decoded.

LEMMA NoneIsNoBytes == None \notin Seq(Byte)
<1>1. None[1] = <<"None", 0>> /\ Len(None) = 1
  BY DEF None
<1>2. ASSUME None \in Seq(Byte) PROVE None[1] \in Byte
  BY <1>1, <1>2
<1> QED BY <1>1, <1>2 DEF Byte

LEMMA TotalIs ==
  ASSUME text \in Seq(Chars), cut \in BOOLEAN, cut => \E c \in Chars : Width[c] > 1
  PROVE  /\ Encoded(text) \in Seq(Byte) /\ CutBytes \in Seq(Byte) /\ Ends(CutBytes) = {}
         /\ CutBytes # <<>> => cut
         /\ Total \in Seq(Byte) /\ Decoded(Total) = text
<1>1. CutBytes \in Seq(Byte) /\ Ends(CutBytes) = {}
  <2>1. CASE cut
    <3>1. Broken \in Chars
      BY <2>1 DEF Broken
    <3> QED BY <2>1, <3>1, FrontOfBytes DEF CutBytes
  <2>2. CASE ~cut
    BY <2>2 DEF CutBytes, Ends
  <2> QED BY <2>1, <2>2
<1>2. CutBytes # <<>> => cut
  BY DEF CutBytes
<1>3. /\ Encoded(text) \in Seq(Byte) /\ Decoded(Encoded(text)) = text
  BY EncodedText
<1>4. Total \in Seq(Byte)
  BY <1>1, <1>3 DEF Total
<1>5. Decoded(Total) = Decoded(Encoded(text)) \o Decoded(CutBytes)
  BY <1>1, <1>3, DecodedConcat DEF Total
<1>6. Decoded(CutBytes) = <<>>
  BY <1>1, DecodedNothing
<1>7. text \o <<>> = text
  OBVIOUS
<1> QED BY <1>1, <1>2, <1>3, <1>4, <1>5, <1>6, <1>7

LEMMA ByteConcat == \A p, q, r \in Seq(Byte) : p \o (q \o r) = (p \o q) \o r
BY ConcatAssociative

LEMMA ByteJoin ==
  ASSUME NEW p \in Seq(Byte), NEW q \in Seq(Byte)
  PROVE  /\ p \o q \in Seq(Byte) /\ Len(p \o q) = Len(p) + Len(q)
         /\ \A i \in 1..Len(p) : (p \o q)[i] = p[i]
         /\ \A i \in 1..Len(q) : (p \o q)[Len(p) + i] = q[i]
OBVIOUS

LEMMA CharsAreCharacters == \A s \in Seq(Chars) : s \in Seq(Character)
BY DEF Character

LEMMA CharacterJoin ==
  ASSUME NEW p \in Seq(Character), NEW q \in Seq(Character)
  PROVE  /\ p \o q \in Seq(Character) /\ Len(p \o q) = Len(p) + Len(q)
         /\ \A i \in 1..Len(p) : (p \o q)[i] = p[i]
         /\ \A i \in 1..Len(q) : (p \o q)[Len(p) + i] = q[i]
OBVIOUS

LEMMA LastEnd ==
  ASSUME NEW a \in Seq(Byte), NEW b \in Seq(Byte), NEW c \in Seq(Byte), NEW d \in Seq(Byte),
         a \o b = c \o d, a # <<>> => Len(a) \in Ends(a), Ends(d) = {}
  PROVE  Len(a) <= Len(c)
<1>1. /\ Len(a) \in Nat /\ Len(b) \in Nat /\ Len(c) \in Nat /\ Len(d) \in Nat
      /\ a = <<>> <=> Len(a) = 0
  OBVIOUS
<1>2. SUFFICES ASSUME Len(a) > Len(c) PROVE FALSE
  BY <1>1
<1>3. Len(a) \in 1..Len(a) /\ Len(a) \in Ends(a)
  BY <1>1, <1>2
<1>4. Len(a) \in Ends(a \o b) /\ Len(a \o b) = Len(a) + Len(b)
  BY <1>3, EndsConcat
<1> DEFINE i == Len(a) - Len(c)
<1>5. Len(c \o d) = Len(c) + Len(d)
  BY EndsConcat
<1>6. i \in 1..Len(d) /\ Len(c) + i = Len(a)
  BY <1>1, <1>2, <1>4, <1>5
<1>7. Len(c) + i \in Ends(c \o d) <=> i \in Ends(d)
  <2> HIDE DEF i
  <2> QED BY <1>6, EndsConcat
<1> QED BY <1>4, <1>6, <1>7

\* What decoding more of the stream yields.
Yields(done, raw, rest) ==
  LET k == Len(Decoded(done))
      data == Decoded(raw)
      n == Converted(raw)
      left == SubSeq(raw, n + 1, Len(raw)) IN
  /\ data \in Seq(Chars) /\ k \in Nat /\ k + Len(data) <= Len(text)
  /\ \A i \in 1..Len(data) : data[i] = text[k + i]
  /\ rest = <<>> => k + Len(data) = Len(text)
  /\ left \in Seq(Byte) /\ n \in Nat /\ n + Len(left) = Len(raw)
  /\ rest = <<>> /\ left # <<>> => cut /\ Len(done) + n = Len(Encoded(text))
  /\ \E more \in Seq(Byte) :
       /\ Total = (more \o left) \o rest /\ Len(more) = Len(done) + n
       /\ more # <<>> => Len(more) \in Ends(more)
       /\ Len(Decoded(more)) = k + Len(data)

LEMMA Decoding ==
  ASSUME ReaderTypeOK, NEW done \in Seq(Byte), NEW raw \in Seq(Byte), NEW rest \in Seq(Byte),
         Total = (done \o raw) \o rest, done # <<>> => Len(done) \in Ends(done)
  PROVE  Yields(done, raw, rest)
<1> DEFINE k == Len(Decoded(done))
           data == Decoded(raw)
           n == Converted(raw)
           left == SubSeq(raw, n + 1, Len(raw))
           now == SubSeq(raw, 1, n)
           more == done \o now
<1>1. /\ n \in 0..Len(raw) /\ now \in Seq(Byte) /\ left \in Seq(Byte)
      /\ Len(now) = n /\ Len(left) = Len(raw) - n /\ raw = now \o left
      /\ now # <<>> => n \in Ends(now)
      /\ Ends(left) = {} /\ Decoded(now) = data
  BY ConvertedIs
<1>2. Len(raw) \in Nat /\ Len(done) \in Nat /\ Len(rest) \in Nat
  OBVIOUS
<1> HIDE DEF n, left, now
<1>3. more \in Seq(Byte) /\ Len(more) = Len(done) + n
  BY <1>1, EndsConcat
<1>4. more # <<>> => Len(more) \in Ends(more)
  <2>1. CASE now = <<>>
    <3>1. more = done
      BY <2>1
    <3> HIDE DEF more
    <3> QED BY <3>1
  <2>2. CASE now # <<>>
    <3>1. Len(now) \in 1..Len(now) /\ Len(now) \in Ends(now)
      BY <1>1, <2>2
    <3>2. Len(done) + Len(now) \in Ends(more)
      BY <1>1, <3>1, EndsConcat
    <3> HIDE DEF more
    <3> QED BY <1>1, <1>3, <3>2
  <2> QED BY <2>1, <2>2
<1>5. Total = (more \o left) \o rest
  <2>1. done \o (now \o left) = (done \o now) \o left
    BY <1>1, ByteConcat, Zenon
  <2> QED BY <1>1, <2>1
<1>6. Decoded(done) \in Seq(Chars) /\ data \in Seq(Chars) /\ Decoded(rest) \in Seq(Chars)
  BY DecodedType
<1>7. Decoded(more) = Decoded(done) \o data
  BY <1>1, DecodedConcat
<1> HIDE DEF data, more
<1>8. text = (Decoded(done) \o data) \o Decoded(rest)
  <2>1. Decoded(Total) = text
    BY TotalIs DEF ReaderTypeOK
  <2>2. done \o raw \in Seq(Byte)
    BY EndsConcat
  <2>3. Decoded(Total) = Decoded(done \o raw) \o Decoded(rest)
    BY <2>2, DecodedConcat
  <2>4. Decoded(done \o raw) = Decoded(done) \o data
    BY DecodedConcat DEF data
  <2> QED BY <2>1, <2>3, <2>4
<1>9. rest = <<>> => Decoded(rest) = <<>>
  <2>1. rest = <<>> => Ends(rest) = {}
    BY DEF Ends
  <2> QED BY <2>1, DecodedNothing
<1>10. /\ k \in Nat /\ k + Len(data) <= Len(text) /\ Len(data) \in Nat
       /\ \A i \in 1..Len(data) : data[i] = text[k + i]
       /\ rest = <<>> => k + Len(data) = Len(text)
       /\ Len(Decoded(more)) = k + Len(data)
  <2> DEFINE p == Decoded(done)
             r == Decoded(rest)
             q == p \o data
  <2> HIDE DEF p, r
  <2>1. p \in Seq(Chars) /\ r \in Seq(Chars) /\ data \in Seq(Chars)
    BY <1>6 DEF p, r
  <2>2. /\ q \in Seq(Chars) /\ Len(p) \in Nat /\ Len(data) \in Nat /\ Len(r) \in Nat
        /\ Len(q) = Len(p) + Len(data)
        /\ \A i \in 1..Len(data) : q[Len(p) + i] = data[i]
    BY <2>1
  <2> HIDE DEF q
  <2>3. Len(q \o r) = Len(q) + Len(r) /\ \A i \in 1..Len(q) : (q \o r)[i] = q[i]
    BY <2>1, <2>2, CharsAreCharacters, CharacterJoin
  <2>4. text = q \o r /\ Decoded(more) = q /\ k = Len(p)
    BY <1>7, <1>8 DEF q, p, r
  <2>5. rest = <<>> => Len(r) = 0
    BY <1>9 DEF r
  <2> HIDE DEF k
  <2>6. ASSUME NEW i \in 1..Len(data) PROVE data[i] = text[k + i]
    <3>1. Len(p) + i \in 1..Len(q) /\ q[Len(p) + i] = data[i]
      BY <2>2
    <3>2. (q \o r)[Len(p) + i] = q[Len(p) + i]
      BY <2>3, <3>1
    <3>3. text[k + i] = (q \o r)[Len(p) + i]
      BY <2>4, Zenon
    <3> QED BY <3>1, <3>2, <3>3, Zenon
  <2>7. Len(text) = Len(q) + Len(r) /\ Len(Decoded(more)) = Len(q)
    BY <2>3, <2>4, Zenon
  <2>8. k \in Nat /\ k + Len(data) = Len(q) /\ Len(q) \in Nat
    BY <2>2, <2>4
  <2> HIDE DEF k
  <2>9. k + Len(data) <= Len(text) /\ (rest = <<>> => k + Len(data) = Len(text))
    <3>1. /\ Len(r) \in Nat /\ Len(q) \in Nat /\ Len(text) = Len(q) + Len(r)
          /\ k + Len(data) = Len(q) /\ (rest = <<>> => Len(r) = 0)
      BY <2>2, <2>5, <2>7, <2>8, Zenon
    <3> QED BY <3>1
  <2> QED BY <2>2, <2>6, <2>7, <2>8, <2>9
<1>11. ASSUME rest = <<>>, left # <<>> PROVE cut /\ Len(done) + n = Len(Encoded(text))
  <2> DEFINE e == Encoded(text)
  <2>1. /\ e \in Seq(Byte) /\ CutBytes \in Seq(Byte) /\ Ends(CutBytes) = {}
        /\ (CutBytes # <<>> => cut) /\ Total = e \o CutBytes
        /\ e # <<>> => Len(e) \in Ends(e)
    BY TotalIs, EncodedText DEF ReaderTypeOK, Total
  <2>2. more \o left = e \o CutBytes
    <3>1. more \o left \in Seq(Byte)
      BY <1>1, <1>3, EndsConcat
    <3>2. (more \o left) \o <<>> = more \o left
      BY <3>1
    <3> QED BY <1>5, <1>11, <2>1, <3>2
  <2> HIDE DEF e
  <2>3. Len(more) <= Len(e)
    BY <1>1, <1>3, <1>4, <2>1, <2>2, LastEnd
  <2>4. Len(e) <= Len(more)
    BY <1>1, <1>3, <2>1, <2>2, LastEnd
  <2>5. Len(more) = Len(e)
    <3>1. Len(more) \in Nat /\ Len(e) \in Nat
      BY <1>3, <2>1
    <3> QED BY <2>3, <2>4, <3>1
  <2>6. Len(left) = Len(CutBytes) /\ Len(left) # 0
    <3>1. Len(more \o left) = Len(more) + Len(left) /\ Len(e \o CutBytes) = Len(e) + Len(CutBytes)
      BY <1>1, <1>3, <2>1, EndsConcat
    <3>2. /\ Len(more) \in Nat /\ Len(left) \in Nat /\ Len(CutBytes) \in Nat
          /\ Len(left) # 0
      <4>1. left \in Seq(Byte) /\ left # <<>> /\ more \in Seq(Byte) /\ CutBytes \in Seq(Byte)
        BY <1>1, <1>3, <1>11, <2>1
      <4> QED BY <4>1
    <3> QED BY <2>2, <2>5, <3>1, <3>2
  <2>7. CutBytes # <<>>
    BY <2>6
  <2> QED BY <1>3, <2>1, <2>5, <2>7 DEF e
<1>12. \E m \in Seq(Byte) :
         /\ Total = (m \o left) \o rest /\ Len(m) = Len(done) + n
         /\ m # <<>> => Len(m) \in Ends(m)
         /\ Len(Decoded(m)) = k + Len(data)
  BY <1>3, <1>4, <1>5, <1>10
<1>13. n \in Nat /\ n + Len(left) = Len(raw)
  BY <1>1, <1>2
<1> QED BY <1>1, <1>6, <1>10, <1>11, <1>12, <1>13, Zenon DEF k, data, n, left, Yields
-----------------------------------------------------------------------------
\* Every step keeps the invariant.

LEMMA WholeIs ==
  ASSUME text \in Seq(Chars)
  PROVE  /\ Len(Whole) = Len(text) + 1 /\ Whole[Len(text) + 1] = "NUL"
         /\ \A i \in 1..Len(text) : Whole[i] = text[i] /\ text[i] \in Chars
BY DEF Whole

LEMMA SourceKept ==
  ASSUME UNCHANGED sourceVars
  PROVE  /\ text' = text /\ cut' = cut /\ input' = input /\ Total' = Total /\ Whole' = Whole
BY DEF sourceVars, Total, Whole, CutBytes, Encoded

LEMMA PlacesKept ==
  ASSUME PlacesAreRight, UNCHANGED <<sourceVars, markVars, error>>
  PROVE  PlacesAreRight'
<1>1. UNCHANGED <<text, cut, index, line, column, error>>
  BY DEF sourceVars, markVars
<1>2. LineEnds(index)' = LineEnds(index)
  BY <1>1 DEF LineEnds, Whole
<1> QED BY <1>1, <1>2 DEF PlacesAreRight, Encoded

LEMMA Numbers ==
  ASSUME ReaderTypeOK
  PROVE  /\ buffer \in Seq(Character) /\ Len(buffer) \in Nat
         /\ pointer \in Nat /\ index \in Nat /\ Len(text) \in Nat
<1>1. buffer \in Seq(Character) /\ text \in Seq(Chars) /\ pointer \in Nat /\ index \in Nat
  BY DEF ReaderTypeOK
<1> QED BY <1>1

\* What is decoded stays so.
LEMMA DecodedKept ==
  ASSUME Undecoded \/ Exhausted, Buffered' = Buffered,
         UNCHANGED <<sourceVars, stream, raw_buffer, stream_pointer>>
  PROVE  (Undecoded \/ Exhausted)'
<1>1. CASE Undecoded
  <2>1. PICK done \in Seq(Byte) : Decodes(done)
    BY <1>1 DEF Undecoded
  <2>2. Decodes(done)'
    BY <2>1, SourceKept DEF Decodes
  <2> QED BY <1>1, <2>2 DEF Undecoded
<1>2. CASE Exhausted
  BY <1>2, SourceKept DEF Exhausted
<1> QED BY <1>1, <1>2

\* update() drops what was read: the rest keeps its place.
LEMMA DropKeeps ==
  ASSUME ReaderTypeOK, BufferIsText, DropRead
  PROVE  /\ buffer' \in Seq(Character) /\ pointer' = 0
         /\ Len(buffer') = Len(buffer) - pointer
         /\ \A i \in 1..Len(buffer') : buffer'[i] = Whole[index + i]
<1> DEFINE b == SubSeq(buffer, pointer + 1, Len(buffer))
<1>1. /\ buffer \in Seq(Character) /\ pointer \in Nat /\ index \in Nat /\ Len(buffer) \in Nat
      /\ pointer <= Len(buffer)
      /\ \A i \in 1..Len(buffer) : buffer[i] = Whole[index - pointer + i]
  BY Numbers DEF BufferIsText
<1>2. /\ b \in Seq(Character) /\ Len(b) = Len(buffer) - pointer
      /\ \A i \in 1..Len(b) : b[i] = buffer[pointer + i]
  <2> DEFINE first == pointer + 1
             n == Len(buffer)
  <2>1. first \in Nat /\ n \in Nat /\ \A i \in first..n : buffer[i] \in Character
    BY <1>1
  <2>2. b = SubSeq(buffer, first, n)
    OBVIOUS
  <2>3. /\ n - first + 1 = n - pointer /\ first <= n + 1
        /\ \A i \in 1..(n - pointer) : first + i - 1 = pointer + i
    BY <1>1
  <2> HIDE DEF first, n, b
  <2>4. /\ b \in Seq(Character) /\ Len(b) = (IF first <= n THEN n - first + 1 ELSE 0)
        /\ \A i \in 1..(n - first + 1) : b[i] = buffer[first + i - 1]
    BY <2>1, <2>2, SubSeqProperties
  <2>5. Len(b) = n - pointer
    BY <2>1, <2>3, <2>4
  <2>6. \A i \in 1..(n - pointer) : b[i] = buffer[pointer + i]
    BY <2>3, <2>4
  <2> QED BY <2>4, <2>5, <2>6 DEF n
<1> HIDE DEF b
<1>3. ASSUME NEW i \in 1..Len(b) PROVE b[i] = Whole[index + i]
  <2>1. pointer + i \in 1..Len(buffer) /\ index - pointer + (pointer + i) = index + i
    BY <1>1, <1>2
  <2> QED BY <1>1, <1>2, <2>1
<1> QED BY <1>2, <1>3 DEF DropRead, b

LEMMA CallStep ==
  ASSUME ReaderInv, NEW what \in {"peek", "prefix", "forward"}, NEW k \in Nat,
         NEW test \in BOOLEAN, NEW need \in Nat, Call(what, k, test, need),
         what # "prefix" => index + k <= Len(text) /\ need = k + 1,
         what = "prefix" => need = k,
         ~test => pointer + need <= Len(buffer)
  PROVE  ReaderInv'
<1>1. ReaderTypeOK /\ BufferIsText /\ CallsAreServed /\ PlacesAreRight
  BY DEF ReaderInv
<1>2. /\ UNCHANGED <<sourceVars, stream, eof, raw_buffer, markVars, stream_pointer, error>>
      /\ error = NoError
      /\ call' = [what |-> what, length |-> k, need |-> IF test THEN need ELSE 0]
  BY DEF Call
<1>3. /\ text' = text /\ cut' = cut /\ input' = input /\ stream' = stream /\ eof' = eof
      /\ raw_buffer' = raw_buffer /\ index' = index /\ line' = line /\ column' = column
      /\ stream_pointer' = stream_pointer /\ error' = error
  BY <1>2 DEF sourceVars, markVars
<1>4. /\ buffer' \in Seq(Character) /\ pointer' \in Nat /\ pointer' <= Len(buffer')
      /\ pointer' <= index' /\ Buffered' = Buffered
      /\ \A i \in 1..Len(buffer') : buffer'[i] = Whole[index - pointer' + i]
      /\ raw_buffer' = None \/ pointer' + need <= Len(buffer')
           \/ (pointer' = 0 /\ test)
  <2>1. CASE test /\ raw_buffer # None
    <3>1. DropRead
      BY <2>1 DEF Call
    <3>2. /\ buffer' \in Seq(Character) /\ pointer' = 0
          /\ Len(buffer') = Len(buffer) - pointer
          /\ \A i \in 1..Len(buffer') : buffer'[i] = Whole[index + i]
      BY <1>1, <3>1, DropKeeps
    <3>3. index \in Nat /\ pointer \in Nat /\ Len(buffer) \in Nat /\ Len(buffer') \in Nat
      BY <1>1, <3>2, Numbers
    <3>4. Buffered' = Buffered
      BY <1>3, <3>2, <3>3 DEF Buffered
    <3> QED BY <1>3, <2>1, <3>2, <3>3, <3>4
  <2>2. CASE ~(test /\ raw_buffer # None)
    <3>1. buffer' = buffer /\ pointer' = pointer
      BY <2>2 DEF Call
    <3> QED BY <1>1, <1>3, <2>2, <3>1 DEF Buffered, ReaderTypeOK, BufferIsText
  <2> QED BY <2>1, <2>2
<1>5. ReaderTypeOK'
  <2>1. call' \in [what : {"none", "determine_encoding", "peek", "prefix", "forward"},
                   length : Nat, need : Nat]
    BY <1>2
  <2> QED BY <1>1, <1>3, <1>4, <2>1 DEF ReaderTypeOK
<1>6. BufferIsText'
  <2>1. (Undecoded \/ Exhausted)'
    BY <1>1, <1>2, <1>4, DecodedKept DEF BufferIsText
  <2>2. Whole' = Whole
    BY <1>2, SourceKept
  <2> QED BY <1>1, <1>3, <1>4, <2>1, <2>2 DEF BufferIsText
<1>7. CallsAreServed'
  <2>1. call'.what = what /\ call'.length = k /\ (test => call'.need = need)
    BY <1>2
  <2> QED BY <1>3, <1>4, <2>1 DEF CallsAreServed, Enough
<1>8. PlacesAreRight'
  BY <1>1, <1>2, PlacesKept
<1> QED BY <1>5, <1>6, <1>7, <1>8 DEF ReaderInv

LEMMA Calls ==
  ASSUME ReaderInv, NEW k \in 0..MaxAhead, peek(k) \/ prefix(k) \/ forward(k)
  PROVE  ReaderInv'
<1>1. k \in Nat
  BY ReaderAssumption
<1>2. pointer \in Nat /\ Len(buffer) \in Nat /\ index \in Nat
  BY Numbers DEF ReaderInv
<1>3. CASE peek(k)
  <2>1. /\ index + k <= Len(text) /\ Call("peek", k, pointer + k >= Len(buffer), k + 1)
        /\ (~(pointer + k >= Len(buffer)) => pointer + (k + 1) <= Len(buffer))
        /\ (pointer + k >= Len(buffer)) \in BOOLEAN /\ k + 1 \in Nat
    BY <1>1, <1>2, <1>3 DEF peek
  <2> QED BY <1>1, <2>1, CallStep
<1>4. CASE prefix(k)
  <2>1. /\ Call("prefix", k, pointer + k >= Len(buffer), k)
        /\ (~(pointer + k >= Len(buffer)) => pointer + k <= Len(buffer))
        /\ (pointer + k >= Len(buffer)) \in BOOLEAN
    BY <1>1, <1>2, <1>4 DEF prefix
  <2> QED BY <1>1, <2>1, CallStep
<1>5. CASE forward(k)
  <2>1. /\ index + k <= Len(text) /\ Call("forward", k, pointer + k + 1 >= Len(buffer), k + 1)
        /\ (~(pointer + k + 1 >= Len(buffer)) => pointer + (k + 1) <= Len(buffer))
        /\ (pointer + k + 1 >= Len(buffer)) \in BOOLEAN /\ k + 1 \in Nat
    BY <1>1, <1>2, <1>5 DEF forward
  <2> QED BY <1>1, <2>1, CallStep
<1> QED BY <1>3, <1>4, <1>5

LEMMA MinOfTwo ==
  ASSUME NEW m \in Nat, NEW n \in Nat
  PROVE  Min({m, n}) = IF m <= n THEN m ELSE n
<1> DEFINE S == {m, n}
           k == Min(S)
<1>1. \E x \in S : \A y \in S : x <= y
  OBVIOUS
<1>2. k = CHOOSE x \in S : \A y \in S : x <= y
  BY DEF Min
<1> HIDE DEF k
<1>3. k \in S /\ \A y \in S : k <= y
  <2> HIDE DEF S
  <2> QED BY <1>1, <1>2
<1> QED BY <1>3 DEF k

\* A piece is the beginning of what is left.
LEMMA PieceIs ==
  ASSUME ReaderTypeOK, NEW size \in Sizes
  PROVE  LET rest == SubSeq(stream, Given(size) + 1, Len(stream)) IN
         /\ piece(size) \in Seq(Byte) /\ rest \in Seq(Byte) /\ stream = piece(size) \o rest
         /\ Given(size) \in Nat /\ Len(piece(size)) = Given(size)
<1> DEFINE rest == SubSeq(stream, Given(size) + 1, Len(stream))
           n == Given(size)
           first == piece(size)
<1>1. stream \in Seq(Byte) /\ size \in Nat \ {0}
  BY ReaderAssumption DEF ReaderTypeOK
<1>2. Len(stream) \in Nat
  BY <1>1
<1>3. n = IF size <= Len(stream) THEN size ELSE Len(stream)
  BY <1>1, <1>2, MinOfTwo DEF Given
<1>4. n \in 0..Len(stream)
  BY <1>1, <1>2, <1>3
<1> HIDE DEF n, first
<1>5. /\ first \in Seq(Byte) /\ rest \in Seq(Byte) /\ Len(first) = n /\ Len(rest) = Len(stream) - n
      /\ \A i \in 1..n : first[i] = stream[i]
      /\ \A i \in 1..(Len(stream) - n) : rest[i] = stream[n + i]
  <2>1. first = SubSeq(stream, 1, n) /\ rest = SubSeq(stream, n + 1, Len(stream))
    BY DEF piece, first, n
  <2> HIDE DEF rest
  <2> QED BY <1>1, <1>4, <2>1
<1> DEFINE r == first \o rest
<1> HIDE DEF rest
<1>6. /\ r \in Seq(Byte) /\ Len(r) = Len(first) + Len(rest)
      /\ \A i \in 1..Len(first) : r[i] = first[i]
      /\ \A i \in 1..Len(rest) : r[Len(first) + i] = rest[i]
  BY <1>5, ByteJoin
<1> HIDE DEF r
<1>7. ASSUME NEW i \in 1..Len(stream) PROVE stream[i] = r[i]
  <2>1. CASE i <= n
    BY <1>2, <1>4, <1>5, <1>6, <2>1
  <2>2. CASE i > n
    <3> DEFINE j == i - n
    <3>1. j \in 1..(Len(stream) - n) /\ n + j = i
      BY <1>2, <1>4, <2>2
    <3> HIDE DEF j
    <3>2. rest[j] = stream[n + j]
      BY <1>5, <3>1
    <3>3. r[Len(first) + j] = rest[j]
      BY <1>5, <1>6, <3>1
    <3>4. Len(first) + j = i
      BY <1>5, <3>1
    <3> QED BY <3>1, <3>2, <3>3, <3>4
  <2> QED BY <1>4, <2>1, <2>2
<1>8. Len(stream) = Len(r)
  BY <1>2, <1>4, <1>5, <1>6
<1>9. stream = r
  BY <1>1, <1>6, <1>7, <1>8, SeqEqual
<1>10. n \in Nat
  BY <1>4
<1> QED BY <1>5, <1>9, <1>10, Zenon DEF r, rest, n, first

\* update_raw() takes a piece of the stream to the raw bytes.
LEMMA RawRead ==
  ASSUME ReaderTypeOK, eof => stream = <<>>, NEW size \in Sizes, update_raw(size),
         UNCHANGED sourceVars, input = "file",
         NEW done \in Seq(Byte), raw_buffer \in Seq(Byte), Decodes(done)
  PROVE  LET raw == raw_buffer \o piece(size) IN
         /\ raw \in Seq(Byte) /\ stream' \in Seq(Byte) /\ eof' \in BOOLEAN
         /\ Total = (done \o raw) \o stream' /\ stream_pointer' = Len(done) + Len(raw)
         /\ stream_pointer' \in Nat /\ (eof' => stream' = <<>>)
<1> DEFINE p == piece(size)
           raw == raw_buffer \o p
<1>1. /\ p \in Seq(Byte) /\ stream' \in Seq(Byte) /\ stream = p \o stream'
      /\ Len(p) = Given(size) /\ Given(size) \in Nat
  BY PieceIs DEF update_raw
<1> HIDE DEF p
<1>2. raw \in Seq(Byte) /\ Len(raw) = Len(raw_buffer) + Len(p)
  BY <1>1, EndsConcat
<1>3. Len(raw_buffer) \in Nat /\ Len(done) \in Nat
  OBVIOUS
<1>4. Total = (done \o raw) \o stream'
  <2>1. done \o raw_buffer \in Seq(Byte)
    BY EndsConcat
  <2>2. (done \o raw_buffer) \o (p \o stream') = ((done \o raw_buffer) \o p) \o stream'
    BY <1>1, <2>1, ByteConcat, Zenon
  <2>3. done \o (raw_buffer \o p) = (done \o raw_buffer) \o p
    BY <1>1, ByteConcat, Zenon
  <2>4. Total = (done \o raw_buffer) \o stream
    BY DEF Decodes
  <2> QED BY <1>1, <2>2, <2>3, <2>4, Zenon
<1>5. stream_pointer' = Len(done) + Len(raw)
  <2>1. stream_pointer' = stream_pointer + Given(size) /\ stream_pointer = Len(done) + Len(raw_buffer)
    BY DEF update_raw, Decodes
  <2> QED BY <1>1, <1>2, <1>3, <2>1
<1>6. eof' \in BOOLEAN
  BY DEF update_raw, ReaderTypeOK
<1>7. ASSUME eof' PROVE stream' = <<>>
  <2>1. stream = <<>>
    BY <1>7 DEF update_raw
  <2>2. Len(p) + Len(stream') = 0
    <3>1. Len(p \o stream') = Len(p) + Len(stream')
      BY <1>1, ByteJoin
    <3>2. p \o stream' = <<>>
      BY <1>1, <2>1
    <3> QED BY <3>1, <3>2
  <2> HIDE DEF raw
  <2>3. Len(p) \in Nat /\ Len(stream') \in Nat
    BY <1>1
  <2>4. Len(stream') = 0
    BY <2>2, <2>3
  <2> QED BY <1>1, <2>4
<1>8. stream_pointer' \in Nat
  <2>1. Len(raw) \in Nat
    BY <1>2
  <2> QED BY <1>3, <1>5, <2>1
<1> QED BY <1>1, <1>2, <1>4, <1>5, <1>6, <1>7, <1>8 DEF p

LEMMA DetectStep ==
  ASSUME ReaderInv, Detect
  PROVE  ReaderInv'
<1>1. ReaderTypeOK /\ BufferIsText /\ CallsAreServed /\ PlacesAreRight
  BY DEF ReaderInv
<1>0. PICK size \in Sizes : update_raw(size) /\ raw_buffer' = raw_buffer \o piece(size)
  BY DEF Detect
<1>2. /\ raw_buffer # None /\ error = NoError /\ ~eof
      /\ UNCHANGED <<sourceVars, buffer, pointer, markVars, call, got, error>>
  BY DEF Detect, Short, Detecting
<1>file. input = "file"
  BY <1>1, <1>2 DEF BufferIsText
<1>3. /\ text' = text /\ cut' = cut /\ input' = input /\ buffer' = buffer /\ pointer' = pointer
      /\ index' = index /\ line' = line /\ column' = column /\ call' = call /\ error' = error
  BY <1>2 DEF sourceVars, markVars
<1>4. raw_buffer \in Seq(Byte) /\ \E done \in Seq(Byte) : Decodes(done)
  BY <1>1, <1>2 DEF BufferIsText, Undecoded, Exhausted
<1>5. PICK done \in Seq(Byte) : Decodes(done)
  BY <1>4
<1>6. /\ raw_buffer' \in Seq(Byte) /\ stream' \in Seq(Byte) /\ eof' \in BOOLEAN
      /\ Total = (done \o raw_buffer') \o stream'
      /\ stream_pointer' = Len(done) + Len(raw_buffer')
      /\ stream_pointer' \in Nat /\ (eof' => stream' = <<>>)
  BY <1>0, <1>1, <1>2, <1>4, <1>5, <1>file, RawRead DEF BufferIsText
<1>7. ReaderTypeOK'
  BY <1>1, <1>3, <1>6 DEF ReaderTypeOK
<1>8. BufferIsText'
  <2>1. Decodes(done)'
    BY <1>2, <1>3, <1>5, <1>6, <1>file, SourceKept DEF Decodes, Buffered
  <2>2. Undecoded'
    BY <1>6, <2>1 DEF Undecoded
  <2>3. Whole' = Whole
    BY <1>2, SourceKept
  <2> QED BY <1>1, <1>3, <1>6, <1>file, <2>2, <2>3 DEF BufferIsText, Buffered
<1>9. CallsAreServed'
  BY <1>1, <1>2, <1>3 DEF CallsAreServed, Enough
<1>10. PlacesAreRight'
  BY <1>1, <1>2, PlacesKept
<1> QED BY <1>7, <1>8, <1>9, <1>10 DEF ReaderInv

LEMMA UnPrintableIs ==
  ASSUME NEW s \in Seq(Chars)
  PROVE  /\ UnPrintable(s) = 0 => \A i \in 1..Len(s) : s[i] # "x"
         /\ UnPrintable(s) # 0 =>
              /\ UnPrintable(s) \in 1..Len(s) /\ s[UnPrintable(s)] = "x"
              /\ \A i \in 1..(UnPrintable(s) - 1) : s[i] # "x"
<1> DEFINE I == {i \in 1..Len(s) : s[i] = "x"}
<1>1. UnPrintable(s) = IF I # {} THEN Min(I) ELSE 0
  BY DEF UnPrintable, SelectInSeq
<1>2. Len(s) \in Nat
  OBVIOUS
<1>3. CASE I = {}
  BY <1>1, <1>3
<1>4. CASE I # {}
  <2>1. I \in SUBSET Nat
    BY <1>2
  <2>2. \E x \in I : \A y \in I : x <= y
    <3> HIDE DEF I
    <3> QED BY <1>4, <2>1, LeastElement
  <2>3. Min(I) \in I /\ \A y \in I : Min(I) <= y
    <3> HIDE DEF I
    <3> QED BY <2>2 DEF Min
  <2> DEFINE m == Min(I)
  <2>4. UnPrintable(s) = m
    BY <1>1, <1>4
  <2> HIDE DEF m
  <2>5. m \in 1..Len(s) /\ s[m] = "x" /\ \A y \in 1..Len(s) : s[y] = "x" => m <= y
    BY <2>3 DEF m
  <2>6. \A i \in 1..(m - 1) : s[i] # "x"
    BY <1>2, <2>5
  <2> QED BY <1>2, <2>4, <2>5, <2>6
<1> QED BY <1>3, <1>4

\* The buffer with what was decoded, and the NUL at the end.
LEMMA BufferExtended ==
  ASSUME NEW b \in Seq(Character), NEW d \in Seq(Chars), NEW last \in BOOLEAN
  PROVE  LET r == b \o d \o (IF last THEN <<"NUL">> ELSE <<>>) IN
         /\ r \in Seq(Character)
         /\ Len(r) = Len(b) + Len(d) + (IF last THEN 1 ELSE 0)
         /\ \A i \in 1..Len(b) : r[i] = b[i]
         /\ \A i \in 1..Len(d) : r[Len(b) + i] = d[i]
         /\ last => r[Len(b) + Len(d) + 1] = "NUL"
<1> DEFINE e == IF last THEN <<"NUL">> ELSE <<>>
           q == b \o d
<1>1. d \in Seq(Character) /\ Len(b) \in Nat /\ Len(d) \in Nat
  BY DEF Character
<1>2. /\ e \in Seq(Character) /\ Len(e) = (IF last THEN 1 ELSE 0)
      /\ (last => e[1] = "NUL")
  <2>1. CASE last
    <3>1. e = <<"NUL">> /\ "NUL" \in Character
      BY <2>1 DEF Character
    <3> QED BY <2>1, <3>1
  <2>2. CASE ~last
    <3>1. e = <<>>
      BY <2>2
    <3> QED BY <2>2, <3>1
  <2> QED BY <2>1, <2>2
<1> HIDE DEF e
<1>3. /\ q \in Seq(Character) /\ Len(q) = Len(b) + Len(d)
      /\ (\A i \in 1..Len(b) : q[i] = b[i]) /\ \A i \in 1..Len(d) : q[Len(b) + i] = d[i]
  BY <1>1, CharacterJoin
<1> DEFINE r == q \o e
<1> HIDE DEF q
<1>4. /\ r \in Seq(Character) /\ Len(r) = Len(q) + Len(e)
      /\ (\A i \in 1..Len(q) : r[i] = q[i]) /\ \A i \in 1..Len(e) : r[Len(q) + i] = e[i]
  BY <1>2, <1>3, CharacterJoin
<1> HIDE DEF r
<1>5. \A i \in 1..Len(b) : r[i] = b[i]
  BY <1>1, <1>3, <1>4
<1>6. ASSUME NEW i \in 1..Len(d) PROVE r[Len(b) + i] = d[i]
  <2>1. Len(b) + i \in 1..Len(q)
    BY <1>1, <1>3
  <2> QED BY <1>3, <1>4, <2>1
<1>7. last => r[Len(b) + Len(d) + 1] = "NUL"
  BY <1>1, <1>2, <1>3, <1>4
<1> QED BY <1>2, <1>3, <1>4, <1>5, <1>6, <1>7 DEF r, q, e

LEMMA UpdateStep ==
  ASSUME ReaderInv, Update
  PROVE  ReaderInv'
<1>0. PICK size \in Sizes : Round(size)
  BY DEF Update
<1> DEFINE raw == IF eof THEN raw_buffer ELSE raw_buffer \o piece(size)
           data == Decoded(raw)
           n == Converted(raw)
           left == SubSeq(raw, n + 1, Len(raw))
           k == Buffered
<1>1. ReaderTypeOK /\ BufferIsText /\ CallsAreServed /\ PlacesAreRight
  BY DEF ReaderInv
<1>2. /\ raw_buffer # None /\ Busy /\ error = NoError
      /\ UNCHANGED <<sourceVars, pointer, markVars, call, got>>
  BY <1>0 DEF Update, Short, Round
<1>3. /\ text' = text /\ cut' = cut /\ input' = input /\ pointer' = pointer
      /\ index' = index /\ line' = line /\ column' = column /\ call' = call
  BY <1>2 DEF sourceVars, markVars
<1>4. raw_buffer \in Seq(Byte) /\ \E done \in Seq(Byte) : Decodes(done)
  BY <1>1, <1>2 DEF BufferIsText, Undecoded, Exhausted
<1>5. PICK done \in Seq(Byte) : Decodes(done)
  BY <1>4
<1>6. /\ raw \in Seq(Byte) /\ stream' \in Seq(Byte) /\ eof' \in BOOLEAN
      /\ Total = (done \o raw) \o stream'
      /\ IF input = "file" THEN stream_pointer' = Len(done) + Len(raw) ELSE done = <<>>
      /\ stream_pointer' \in Nat /\ (eof' => stream' = <<>>) /\ (input # "file" => eof')
  <2>1. CASE eof
    <3>1. raw = raw_buffer /\ UNCHANGED <<stream, eof, stream_pointer>>
      BY <1>0, <2>1 DEF Round
    <3> QED BY <1>1, <1>4, <1>5, <2>1, <3>1 DEF ReaderTypeOK, BufferIsText, Decodes
  <2>2. CASE ~eof
    <3>1. raw = raw_buffer \o piece(size) /\ update_raw(size) /\ input = "file"
      BY <1>0, <1>1, <2>2 DEF Round, BufferIsText
    <3> HIDE DEF raw
    <3> QED BY <1>0, <1>1, <1>2, <1>4, <1>5, <3>1, RawRead DEF BufferIsText
  <2> QED BY <2>1, <2>2
<1>7. \/ /\ eof' /\ left # <<>> /\ raw_buffer' = raw /\ buffer' = buffer
         /\ error' = [what |-> "decode",
                      at |-> (IF input = "file" THEN stream_pointer' - Len(raw) ELSE 0) + n]
      \/ /\ UnPrintable(data) # 0 /\ raw_buffer' = raw /\ buffer' = buffer
         /\ error' = [what |-> "special characters are not allowed", at |-> Position(data)]
      \/ /\ ~(eof' /\ left # <<>>) /\ UnPrintable(data) = 0 /\ error' = error
         /\ buffer' = buffer \o data \o (IF eof' THEN <<"NUL">> ELSE <<>>)
         /\ raw_buffer' = IF eof' THEN None ELSE left
  BY <1>0 DEF Round, BytePosition
<1>8. /\ done # <<>> => Len(done) \in Ends(done)
      /\ Len(Decoded(done)) = k /\ \A i \in 1..k : text[i] # "x"
  BY <1>5 DEF Decodes
<1> HIDE DEF raw
<1>9. /\ data \in Seq(Chars) /\ k \in Nat /\ k + Len(data) <= Len(text)
      /\ \A i \in 1..Len(data) : data[i] = text[k + i]
      /\ stream' = <<>> => k + Len(data) = Len(text)
      /\ left \in Seq(Byte) /\ n \in Nat /\ n + Len(left) = Len(raw)
      /\ stream' = <<>> /\ left # <<>> => cut /\ Len(done) + n = Len(Encoded(text))
      /\ \E more \in Seq(Byte) :
           /\ Total = (more \o left) \o stream' /\ Len(more) = Len(done) + n
           /\ more # <<>> => Len(more) \in Ends(more)
           /\ Len(Decoded(more)) = k + Len(data)
  <2>1. Yields(done, raw, stream')
    BY <1>1, <1>6, <1>8, Decoding
  <2> QED BY <1>8, <2>1, Zenon DEF Yields
<1> HIDE DEF data, n, left
<1>10. Total' = Total /\ Whole' = Whole
  BY <1>2, SourceKept
<1>11. /\ buffer \in Seq(Character) /\ Len(buffer) \in Nat /\ pointer \in Nat /\ index \in Nat
       /\ text \in Seq(Chars) /\ Len(text) \in Nat /\ Len(data) \in Nat
       /\ k = index - pointer + Len(buffer)
  <2>1. text \in Seq(Chars)
    BY <1>1 DEF ReaderTypeOK
  <2>2. Len(data) \in Nat
    BY <1>9
  <2> QED BY <1>1, <2>1, <2>2, Numbers DEF Buffered
<1>12. /\ Len(Whole) = Len(text) + 1 /\ Whole[Len(text) + 1] = "NUL"
       /\ \A i \in 1..Len(text) : Whole[i] = text[i] /\ text[i] \in Chars
  BY <1>11, WholeIs
<1>n. /\ Len(buffer) \in Nat /\ pointer \in Nat /\ index \in Nat /\ Len(text) \in Nat
      /\ k \in Nat /\ k = index - pointer + Len(buffer)
      /\ Len(data) \in Nat /\ k + Len(data) <= Len(text)
      /\ eof' \in BOOLEAN /\ (eof' => k + Len(data) = Len(text))
      /\ n \in Nat /\ Len(left) \in Nat /\ Len(done) \in Nat /\ Len(raw) = n + Len(left)
  <2>1. Len(left) \in Nat /\ Len(done) \in Nat
    BY <1>9
  <2> HIDE DEF k
  <2> QED BY <1>6, <1>9, <1>11, <2>1
\* Nothing is decoded: the piece is read, and the error is kept.
<1>a. ASSUME raw_buffer' = raw, buffer' = buffer, NEW what, NEW at \in Int,
             what \in {"decode", "special characters are not allowed"},
             error' = [what |-> what, at |-> at],
             what = "decode" => cut /\ at = Len(Encoded(text)),
             what = "special characters are not allowed" =>
               text[at + 1] = "x" /\ \A i \in 1..at : text[i] # "x"
      PROVE  ReaderInv'
  <2>1. ReaderTypeOK'
    BY <1>1, <1>3, <1>6, <1>a DEF ReaderTypeOK
  <2>2. Buffered' = Buffered
    BY <1>3, <1>a DEF Buffered
  <2>3. Decodes(done)'
    BY <1>3, <1>6, <1>8, <1>10, <1>a, <2>2 DEF Decodes
  <2>4. BufferIsText'
    BY <1>1, <1>3, <1>6, <1>10, <1>a, <2>2, <2>3 DEF BufferIsText, Undecoded
  <2>5. CallsAreServed'
    BY <1>1, <1>2, <1>3, <1>a DEF CallsAreServed, Enough
  <2>6. PlacesAreRight'
    <3>1. LineEnds(index)' = LineEnds(index) /\ Encoded(text)' = Encoded(text)
      BY <1>3 DEF LineEnds, Whole, Encoded
    <3>2. error'.what = what /\ error'.at = at
      BY <1>a
    <3> QED BY <1>1, <1>3, <1>a, <3>1, <3>2 DEF PlacesAreRight
  <2> QED BY <2>1, <2>4, <2>5, <2>6 DEF ReaderInv
<1>13. CASE /\ eof' /\ left # <<>> /\ raw_buffer' = raw /\ buffer' = buffer
            /\ error' = [what |-> "decode",
                         at |-> (IF input = "file" THEN stream_pointer' - Len(raw) ELSE 0) + n]
  <2>1. /\ (IF input = "file" THEN stream_pointer' - Len(raw) ELSE 0) + n = Len(done) + n
        /\ Len(done) + n \in Int
    <3>1. Len(done) \in Nat /\ Len(raw) \in Nat /\ n \in Nat
      BY <1>6, <1>9
    <3>2. CASE input = "file"
      <4>1. stream_pointer' = Len(done) + Len(raw)
        BY <1>6, <3>2
      <4> QED BY <3>1, <3>2, <4>1
    <3>3. CASE input # "file"
      <4>1. Len(done) = 0
        BY <1>6, <3>3
      <4> QED BY <3>1, <3>3, <4>1
    <3> QED BY <3>2, <3>3
  <2>2. cut /\ Len(done) + n = Len(Encoded(text))
    BY <1>6, <1>9, <1>13
  <2> QED BY <1>13, <1>a, <2>1, <2>2
<1>14. CASE /\ UnPrintable(data) # 0 /\ raw_buffer' = raw /\ buffer' = buffer
            /\ error' = [what |-> "special characters are not allowed", at |-> Position(data)]
  <2> DEFINE p == UnPrintable(data)
  <2>1. p \in 1..Len(data) /\ data[p] = "x" /\ \A i \in 1..(p - 1) : data[i] # "x"
    BY <1>9, <1>14, UnPrintableIs
  <2>2. Position(data) = k + p - 1
    BY <1>11 DEF Position
  <2> HIDE DEF p, k
  <2>0. p \in 1..Len(data)
    BY <2>1
  <2>3. text[k + p - 1 + 1] = "x" /\ k + p - 1 \in Int
    <3>1. k + p - 1 + 1 = k + p
      BY <1>9, <1>11, <2>1
    <3>2. text[k + p] = data[p]
      BY <1>9, <2>1
    <3> QED BY <1>9, <1>11, <2>1, <3>1, <3>2
  <2>4. ASSUME NEW i \in 1..(k + p - 1) PROVE text[i] # "x"
    <3>1. CASE i <= k
      BY <1>8, <1>9, <3>1
    <3>2. CASE i > k
      <4>1. i - k \in 1..(p - 1) /\ i - k \in 1..Len(data) /\ k + (i - k) = i
        BY <1>n, <2>0, <3>2
      <4>2. text[k + (i - k)] = data[i - k]
        BY <1>9, <4>1
      <4> QED BY <2>1, <4>1, <4>2
    <3> QED BY <1>9, <1>11, <2>1, <3>1, <3>2
  <2> QED BY <1>14, <1>a, <2>2, <2>3, <2>4
<1>15. CASE /\ ~(eof' /\ left # <<>>) /\ UnPrintable(data) = 0 /\ error' = error
            /\ buffer' = buffer \o data \o (IF eof' THEN <<"NUL">> ELSE <<>>)
            /\ raw_buffer' = IF eof' THEN None ELSE left
  <2>1. /\ buffer' \in Seq(Character)
        /\ Len(buffer') = Len(buffer) + Len(data) + (IF eof' THEN 1 ELSE 0)
        /\ \A i \in 1..Len(buffer) : buffer'[i] = buffer[i]
        /\ \A i \in 1..Len(data) : buffer'[Len(buffer) + i] = data[i]
        /\ eof' => buffer'[Len(buffer) + Len(data) + 1] = "NUL"
    <3>1. buffer \in Seq(Character) /\ data \in Seq(Chars) /\ eof' \in BOOLEAN
      BY <1>6, <1>9, <1>11
    <3> DEFINE r == buffer \o data \o (IF eof' THEN <<"NUL">> ELSE <<>>)
    <3>2. /\ r \in Seq(Character)
          /\ Len(r) = Len(buffer) + Len(data) + (IF eof' THEN 1 ELSE 0)
          /\ \A i \in 1..Len(buffer) : r[i] = buffer[i]
          /\ \A i \in 1..Len(data) : r[Len(buffer) + i] = data[i]
          /\ eof' => r[Len(buffer) + Len(data) + 1] = "NUL"
      BY <3>1, BufferExtended, Zenon
    <3>3. buffer' = r
      BY <1>15
    <3> HIDE DEF r
    <3> QED BY <3>2, <3>3
  <2>a. Len(buffer') = Len(buffer) + Len(data) + (IF eof' THEN 1 ELSE 0)
    BY <2>1
  <2>2. Buffered' = k + Len(data) + (IF eof' THEN 1 ELSE 0)
    BY <1>3, <1>n, <2>a DEF Buffered
  <2>3. ReaderTypeOK'
    BY <1>1, <1>3, <1>6, <1>15, <2>1 DEF ReaderTypeOK
  <2>4. ASSUME NEW i \in 1..Len(buffer') PROVE buffer'[i] = Whole[index - pointer + i]
    <3>1. CASE i <= Len(buffer)
      <4>1. i \in 1..Len(buffer)
        BY <1>11, <3>1
      <4> QED BY <1>1, <2>1, <4>1 DEF BufferIsText
    <3>2. CASE Len(buffer) < i /\ i <= Len(buffer) + Len(data)
      <4> DEFINE j == i - Len(buffer)
      <4>1. j \in 1..Len(data) /\ Len(buffer) + j = i /\ k + j = index - pointer + i
        BY <1>n, <3>2
      <4>2. k + j \in 1..Len(text)
        BY <1>n, <4>1
      <4> HIDE DEF j, k
      <4>3. buffer'[i] = data[j] /\ data[j] = text[k + j] /\ Whole[k + j] = text[k + j]
        BY <1>9, <1>12, <2>1, <4>1, <4>2
      <4> QED BY <4>1, <4>3
    <3>3. CASE i > Len(buffer) + Len(data)
      <4>1. eof' /\ i = Len(buffer) + Len(data) + 1
        BY <1>n, <2>a, <3>3
      <4>2. index - pointer + i = Len(text) + 1
        BY <1>n, <4>1
      <4> QED BY <1>12, <2>1, <4>1, <4>2
    <3> QED BY <1>11, <2>1, <3>1, <3>2, <3>3
  <2>5. (Undecoded \/ Exhausted)'
    <3>1. CASE eof'
      <4>1. Buffered' = Len(text) + 1
        BY <1>n, <2>2, <3>1
      <4> QED BY <1>10, <1>12, <1>15, <3>1, <4>1 DEF Exhausted
    <3>2. CASE ~eof'
      <4>1. raw_buffer' = left /\ Buffered' = k + Len(data)
        BY <1>15, <2>2, <3>2, <1>n
      <4>2. PICK more \in Seq(Byte) :
              /\ Total = (more \o left) \o stream' /\ Len(more) = Len(done) + n
              /\ more # <<>> => Len(more) \in Ends(more)
              /\ Len(Decoded(more)) = k + Len(data)
        BY <1>9
      <4>file. input = "file"
        BY <1>6, <3>2
      <4>3. stream_pointer' = Len(more) + Len(left)
        <5>1. stream_pointer' = Len(done) + Len(raw) /\ Len(more) = Len(done) + n
          BY <1>6, <4>2, <4>file
        <5> QED BY <1>n, <5>1
      <4>4. ASSUME NEW i \in 1..(k + Len(data)) PROVE text[i] # "x"
        <5>1. CASE i <= k
          BY <1>8, <1>9, <5>1
        <5>2. CASE i > k
          <6>1. i - k \in 1..Len(data) /\ k + (i - k) = i
            BY <1>n, <5>2
          <6>2. data[i - k] # "x" /\ data[i - k] = text[k + (i - k)]
            BY <1>9, <1>15, <6>1, UnPrintableIs
          <6> QED BY <6>1, <6>2
        <5> QED BY <1>9, <1>11, <5>1, <5>2
      <4> HIDE DEF k
      <4>5. Decodes(more)'
        BY <1>3, <1>10, <4>1, <4>2, <4>3, <4>4, <4>file DEF Decodes
      <4> QED BY <1>9, <4>1, <4>5 DEF Undecoded
    <3> QED BY <3>1, <3>2
  <2>6. BufferIsText'
    <3>1. Buffered' <= Len(Whole)
      BY <1>n, <1>12, <2>2
    <3>2. pointer <= Len(buffer')
      BY <1>1, <1>n, <2>a DEF BufferIsText
    <3> QED BY <1>1, <1>3, <1>6, <1>10, <2>4, <2>5, <3>1, <3>2 DEF BufferIsText
  <2>7. CallsAreServed'
    <3>1. \A m \in Nat : pointer + m <= Len(buffer) => pointer + m <= Len(buffer')
      BY <1>n, <2>a
    <3>2. \A m \in Nat : Enough(m) => Enough(m)'
      BY <1>2, <1>3, <3>1 DEF Enough
    <3>3. call.length \in Nat /\ call.length + 1 \in Nat
      <4>1. call \in [what : {"none", "determine_encoding", "peek", "prefix", "forward"},
                      length : Nat, need : Nat]
        BY <1>1 DEF ReaderTypeOK
      <4> QED BY <4>1
    <3> QED BY <1>1, <1>3, <3>2, <3>3 DEF CallsAreServed
  <2>8. PlacesAreRight'
    BY <1>1, <1>2, <1>15, PlacesKept
  <2> QED BY <2>3, <2>6, <2>7, <2>8 DEF ReaderInv
<1> QED BY <1>7, <1>13, <1>14, <1>15

\* When a call returns, the buffer has what it needs.
LEMMA Served ==
  ASSUME ReaderInv, Busy, error = NoError, ~Short
  PROVE  /\ call.length \in Nat
         /\ call.what \in {"peek", "forward"} =>
              index + call.length <= Len(text) /\ pointer + call.length + 1 <= Len(buffer)
         /\ call.what = "prefix" =>
              pointer + call.length <= Len(buffer) \/ Buffered = Len(Whole)
<1>1. /\ pointer \in Nat /\ index \in Nat /\ Len(buffer) \in Nat /\ Len(text) \in Nat
      /\ Len(Whole) = Len(text) + 1
  <2>1. text \in Seq(Chars)
    BY DEF ReaderInv, ReaderTypeOK
  <2> QED BY <2>1, Numbers, WholeIs DEF ReaderInv
<1>2. call.length \in Nat /\ call.need \in Nat
  <2>1. call \in [what : {"none", "determine_encoding", "peek", "prefix", "forward"},
                  length : Nat, need : Nat]
    BY DEF ReaderInv, ReaderTypeOK
  <2> QED BY <2>1
<1>3. raw_buffer = None => Buffered = Len(Whole)
  BY NoneIsNoBytes DEF ReaderInv, BufferIsText, Undecoded, Exhausted
<1>4. raw_buffer # None => call.need <= Len(buffer)
  BY <1>1, <1>2 DEF Short
<1>5. ASSUME call.what \in {"peek", "forward"}
      PROVE  index + call.length <= Len(text) /\ pointer + call.length + 1 <= Len(buffer)
  <2>1. index + call.length <= Len(text) /\ Enough(call.length + 1)
    BY <1>5 DEF ReaderInv, CallsAreServed
  <2>2. CASE raw_buffer = None
    BY <1>1, <1>2, <1>3, <2>1, <2>2 DEF Buffered
  <2>3. CASE raw_buffer # None
    BY <1>1, <1>2, <1>4, <2>1, <2>3 DEF Enough
  <2> QED BY <2>2, <2>3
<1>6. ASSUME call.what = "prefix"
      PROVE  pointer + call.length <= Len(buffer) \/ Buffered = Len(Whole)
  <2>1. Enough(call.length)
    BY <1>6 DEF ReaderInv, CallsAreServed
  <2>2. CASE raw_buffer # None
    BY <1>1, <1>2, <1>4, <2>1, <2>2 DEF Enough
  <2> QED BY <1>3, <2>2
<1> QED BY <1>2, <1>5, <1>6

\* The columns: the characters since the last break that have a width.
Columns(n) == {i \in 1..n : text[i] # "BOM" /\ \A j \in i..n : j \notin LineEnds(n)}

LEMMA NextPlace ==
  ASSUME text \in Seq(Chars), NEW n \in Nat, n + 1 <= Len(text)
  PROVE  /\ n + 1 \in LineEnds(n + 1) =>
              /\ LineEnds(n + 1) = LineEnds(n) \cup {n + 1} /\ n + 1 \notin LineEnds(n)
              /\ Columns(n + 1) = {}
         /\ n + 1 \notin LineEnds(n + 1) =>
              /\ LineEnds(n + 1) = LineEnds(n)
              /\ Columns(n + 1) = IF text[n + 1] = "BOM" THEN Columns(n)
                                  ELSE Columns(n) \cup {n + 1}
         /\ n + 1 \notin Columns(n)
<1>1. \A i \in 1..n : i \in LineEnds(n + 1) <=> i \in LineEnds(n)
  BY DEF LineEnds
<1>2. LineEnds(n) \subseteq 1..n /\ LineEnds(n + 1) \subseteq 1..(n + 1)
  BY DEF LineEnds
<1>3. \A i : i \in 1..(n + 1) <=> i \in 1..n \/ i = n + 1
  OBVIOUS
<1>4. n + 1 \notin 1..n /\ Columns(n) \subseteq 1..n
  BY DEF Columns
<1>5. ASSUME n + 1 \in LineEnds(n + 1)
      PROVE  LineEnds(n + 1) = LineEnds(n) \cup {n + 1} /\ Columns(n + 1) = {}
  <2>1. LineEnds(n + 1) = LineEnds(n) \cup {n + 1}
    BY <1>1, <1>2, <1>3, <1>5
  <2>2. \A i \in 1..(n + 1) : n + 1 \in i..(n + 1)
    OBVIOUS
  <2> QED BY <1>5, <2>1, <2>2 DEF Columns
<1>6. ASSUME n + 1 \notin LineEnds(n + 1)
      PROVE  /\ LineEnds(n + 1) = LineEnds(n)
             /\ Columns(n + 1) = IF text[n + 1] = "BOM" THEN Columns(n)
                                 ELSE Columns(n) \cup {n + 1}
  <2>1. LineEnds(n + 1) = LineEnds(n)
    BY <1>1, <1>2, <1>3, <1>6
  <2>2. \A i \in 1..n : i \in Columns(n + 1) <=> i \in Columns(n)
    <3>1. ASSUME NEW i \in 1..n
          PROVE  (\A j \in i..(n + 1) : j \notin LineEnds(n)) <=> (\A j \in i..n : j \notin LineEnds(n))
      <4>1. \A j : j \in i..(n + 1) <=> j \in i..n \/ j = n + 1
        OBVIOUS
      <4> QED BY <1>2, <1>4, <4>1
    <3> QED BY <1>3, <2>1, <3>1 DEF Columns
  <2>3. n + 1 \in Columns(n + 1) <=> text[n + 1] # "BOM"
    <3>1. \A j \in (n + 1)..(n + 1) : j = n + 1
      OBVIOUS
    <3> QED BY <1>3, <1>6, <3>1 DEF Columns
  <2>4. Columns(n + 1) \subseteq 1..(n + 1)
    BY DEF Columns
  <2>5. CASE text[n + 1] = "BOM"
    <3>1. Columns(n + 1) = Columns(n)
      BY <1>3, <1>4, <2>2, <2>3, <2>4, <2>5
    <3> QED BY <2>1, <2>5, <3>1
  <2>6. CASE text[n + 1] # "BOM"
    <3>1. Columns(n + 1) = Columns(n) \cup {n + 1}
      BY <1>3, <1>4, <2>2, <2>3, <2>4, <2>6
    <3> QED BY <2>1, <2>6, <3>1
  <2> QED BY <2>5, <2>6
<1> QED BY <1>2, <1>4, <1>5, <1>6

LEMMA PlacesAreFinite ==
  ASSUME NEW n \in Nat
  PROVE  IsFiniteSet(LineEnds(n)) /\ IsFiniteSet(Columns(n))
<1>1. IsFiniteSet(1..n) /\ LineEnds(n) \subseteq 1..n /\ Columns(n) \subseteq 1..n
  BY FS_Interval DEF LineEnds, Columns
<1> QED BY <1>1, FS_Subset

\* forward() over k characters comes to the place of the k-th.
Place(n) == [line |-> Cardinality(LineEnds(n)), column |-> Cardinality(Columns(n))]

LEMMA NextAfter ==
  ASSUME text \in Seq(Chars), NEW n \in Nat, n + 1 <= Len(text), NEW p,
         buffer[p] = Whole[n + 1], buffer[p + 1] = Whole[n + 2]
  PROVE  After(Place(n), p) = Place(n + 1)
<1>1. /\ IsFiniteSet(LineEnds(n)) /\ IsFiniteSet(Columns(n))
      /\ Cardinality(LineEnds(n)) \in Nat /\ Cardinality(Columns(n)) \in Nat
  BY PlacesAreFinite, FS_CardinalityType
<1>2. buffer[p] = text[n + 1]
  <2>1. n + 1 \in 1..Len(text)
    OBVIOUS
  <2> QED BY <2>1, WholeIs
<1>3. Breaks(p) <=> n + 1 \in LineEnds(n + 1)
  <2>1. n + 1 \in 1..(n + 1) /\ (n + 1) + 1 = n + 2
    OBVIOUS
  <2> QED BY <1>2, <2>1 DEF Breaks, LineEnds
<1>4. CASE Breaks(p)
  <2>1. Cardinality(LineEnds(n + 1)) = Cardinality(LineEnds(n)) + 1
    BY <1>1, <1>3, <1>4, NextPlace, FS_AddElement
  <2>2. Cardinality(Columns(n + 1)) = 0
    BY <1>3, <1>4, NextPlace, FS_EmptySet
  <2> QED BY <1>4, <2>1, <2>2 DEF After, Place
<1>5. CASE ~Breaks(p) /\ buffer[p] = "BOM"
  <2>1. LineEnds(n + 1) = LineEnds(n) /\ Columns(n + 1) = Columns(n)
    BY <1>2, <1>3, <1>5, NextPlace
  <2> QED BY <1>5, <2>1 DEF After, Place
<1>6. CASE ~Breaks(p) /\ buffer[p] # "BOM"
  <2>1. LineEnds(n + 1) = LineEnds(n) /\ Columns(n + 1) = Columns(n) \cup {n + 1}
    BY <1>2, <1>3, <1>6, NextPlace
  <2>2. n + 1 \notin Columns(n)
    BY NextPlace
  <2>3. Cardinality(Columns(n + 1)) = Cardinality(Columns(n)) + 1
    BY <1>1, <2>1, <2>2, FS_AddElement
  <2> QED BY <1>6, <2>1, <2>3 DEF After, Place
<1> QED BY <1>4, <1>5, <1>6

LEMMA PassedPlace ==
  ASSUME ReaderTypeOK, BufferIsText, PlacesAreRight, NEW k \in Nat,
         index + k <= Len(text), pointer + k + 1 <= Len(buffer)
  PROVE  Passed(k) = Place(index + k)
<1> DEFINE f == [j \in 0..k |-> Place(index + j)]
           Step(h, j) == IF j = 0 THEN [line |-> line, column |-> column]
                         ELSE After(h[j - 1], pointer + j)
           F == CHOOSE h : h = [j \in 0..k |-> Step(h, j)]
<1>1. /\ text \in Seq(Chars) /\ index \in Nat /\ pointer \in Nat /\ Len(buffer) \in Nat
      /\ Len(text) \in Nat
      /\ \A i \in 1..Len(buffer) : buffer[i] = Whole[index - pointer + i]
  BY Numbers DEF ReaderTypeOK, BufferIsText
<1>2. [line |-> line, column |-> column] = Place(index)
  BY DEF PlacesAreRight, Place, Columns
<1>3. ASSUME NEW j \in 1..k PROVE After(Place(index + (j - 1)), pointer + j) = Place(index + j)
  <2>1. /\ index + (j - 1) \in Nat /\ index + (j - 1) + 1 = index + j
        /\ index + (j - 1) + 1 <= Len(text)
        /\ pointer + j \in 1..Len(buffer) /\ pointer + j + 1 \in 1..Len(buffer)
        /\ index - pointer + (pointer + j) = index + (j - 1) + 1
        /\ index - pointer + (pointer + j + 1) = index + (j - 1) + 2
    <3> DEFINE N == Len(buffer)
               M == Len(text)
    <3>1. index \in Nat /\ pointer \in Nat /\ N \in Nat /\ M \in Nat
      BY <1>1
    <3>2. index + k <= M /\ pointer + k + 1 <= N /\ j \in Nat /\ 1 <= j /\ j <= k
      OBVIOUS
    <3> HIDE DEF N, M
    <3>3. index + (j - 1) \in Nat /\ index + (j - 1) + 1 = index + j /\ index + (j - 1) + 1 <= M
      BY <3>1, <3>2
    <3>4. pointer + j \in 1..N /\ pointer + j + 1 \in 1..N
      BY <3>1, <3>2
    <3>5. /\ index - pointer + (pointer + j) = index + (j - 1) + 1
          /\ index - pointer + (pointer + j + 1) = index + (j - 1) + 2
      BY <3>1, <3>2
    <3> QED BY <3>3, <3>4, <3>5 DEF N, M
  <2>2. /\ buffer[pointer + j] = Whole[index + (j - 1) + 1]
        /\ buffer[pointer + j + 1] = Whole[index + (j - 1) + 2]
    BY <1>1, <2>1
  <2>3. After(Place(index + (j - 1)), pointer + j) = Place(index + (j - 1) + 1)
    BY <1>1, <2>1, <2>2, NextAfter
  <2> QED BY <2>1, <2>3
<1>4. \A j \in 0..k : f[j] = Place(index + j)
  OBVIOUS
<1>5. f[0] = Place(index)
  BY <1>1, <1>4
<1> HIDE DEF f
<1>6. ASSUME NEW j \in 0..k PROVE f[j] = Step(f, j)
  <2>1. CASE j = 0
    BY <1>2, <1>5, <2>1
  <2>2. CASE j # 0
    <3>1. j \in 1..k /\ j - 1 \in 0..k
      BY <2>2
    <3>2. f[j] = Place(index + j) /\ f[j - 1] = Place(index + (j - 1))
      BY <1>4, <3>1
    <3> QED BY <1>3, <2>2, <3>1, <3>2
  <2> QED BY <2>1, <2>2
<1>7. f = [j \in 0..k |-> Step(f, j)]
  <2>1. f = [j \in 0..k |-> f[j]]
    BY DEF f
  <2> HIDE DEF Step
  <2> QED BY <1>6, <2>1
<1>8. F = [j \in 0..k |-> Step(F, j)]
  BY <1>7
<1>9. Passed(k) = F[k]
  BY DEF Passed
<1> HIDE DEF F
<1>10. \A j \in 0..k : F[j] = Step(F, j)
  <2> HIDE DEF Step
  <2> QED BY <1>8
<1>11. Alike(F, f, k)
  <2>1. F[0] = f[0]
    <3>1. 0 \in 0..k
      OBVIOUS
    <3> QED BY <1>6, <1>10, <3>1
  <2>2. ASSUME NEW j \in 1..k, F[j - 1] = f[j - 1] PROVE F[j] = f[j]
    <3>1. j \in 0..k /\ j # 0
      OBVIOUS
    <3>2. F[j] = After(F[j - 1], pointer + j) /\ f[j] = After(f[j - 1], pointer + j)
      BY <1>6, <1>10, <3>1
    <3> QED BY <2>2, <3>2
  <2> QED BY <2>1, <2>2 DEF Alike
<1>12. F[k] = f[k] /\ k \in 0..k
  <2>1. k \in 0..k
    OBVIOUS
  <2> QED BY <1>11, <2>1, Agreement
<1> QED BY <1>4, <1>9, <1>12

LEMMA ReturnStep ==
  ASSUME ReaderInv, Return
  PROVE  ReaderInv'
<1>1. ReaderTypeOK /\ BufferIsText /\ CallsAreServed /\ PlacesAreRight
  BY DEF ReaderInv
<1>2. /\ Busy /\ error = NoError /\ ~Short /\ call' = Idle
      /\ UNCHANGED <<sourceVars, stream, eof, raw_buffer, buffer, stream_pointer, error>>
  BY DEF Return
<1>3. /\ text' = text /\ cut' = cut /\ input' = input /\ stream' = stream /\ eof' = eof
      /\ raw_buffer' = raw_buffer /\ buffer' = buffer /\ stream_pointer' = stream_pointer
      /\ error' = error
  BY <1>2 DEF sourceVars
<1>4. /\ buffer \in Seq(Character) /\ Len(buffer) \in Nat /\ pointer \in Nat /\ index \in Nat
      /\ Len(text) \in Nat
  BY <1>1, Numbers
<1>5. /\ call' \in [what : {"none", "determine_encoding", "peek", "prefix", "forward"},
                    length : Nat, need : Nat]
      /\ call'.what = "none"
  BY <1>2 DEF Idle
<1>6. CallsAreServed'
  BY <1>5 DEF CallsAreServed
<1>7. CASE call.what # "forward"
  <2>1. UNCHANGED <<pointer, markVars>>
    BY <1>7 DEF Return
  <2>2. pointer' = pointer /\ index' = index /\ line' = line /\ column' = column
    BY <2>1 DEF markVars
  <2>3. ReaderTypeOK'
    BY <1>1, <1>3, <1>5, <2>2 DEF ReaderTypeOK
  <2>4. BufferIsText'
    <3>1. Buffered' = Buffered
      BY <1>3, <2>2 DEF Buffered
    <3>2. (Undecoded \/ Exhausted)'
      BY <1>1, <1>2, <3>1, DecodedKept DEF BufferIsText
    <3>3. Whole' = Whole
      BY <1>2, SourceKept
    <3> QED BY <1>1, <1>3, <2>2, <3>1, <3>2, <3>3 DEF BufferIsText
  <2>5. PlacesAreRight'
    BY <1>1, <1>2, <2>1, PlacesKept
  <2> QED BY <1>6, <2>3, <2>4, <2>5 DEF ReaderInv
<1>8. CASE call.what = "forward"
  <2> DEFINE k == call.length
  <2>1. k \in Nat /\ index + k <= Len(text) /\ pointer + k + 1 <= Len(buffer)
    BY <1>2, <1>8, Served
  <2>2. /\ pointer' = pointer + k /\ index' = index + k
        /\ line' = Passed(k).line /\ column' = Passed(k).column
    BY <1>8 DEF Return
  <2> HIDE DEF k
  <2>3. Passed(k) = Place(index + k)
    BY <1>1, <2>1, PassedPlace
  <2>4. line' = Cardinality(LineEnds(index + k)) /\ column' = Cardinality(Columns(index + k))
    BY <2>2, <2>3 DEF Place
  <2>5. line' \in Nat /\ column' \in Nat /\ index + k \in Nat
    <3>1. index + k \in Nat
      BY <1>4, <2>1
    <3> QED BY <2>4, <3>1, PlacesAreFinite, FS_CardinalityType
  <2>6. pointer' \in Nat /\ index' \in Nat /\ index' - pointer' = index - pointer
    BY <1>4, <2>1, <2>2
  <2>7. ReaderTypeOK'
    BY <1>1, <1>3, <1>5, <2>5, <2>6 DEF ReaderTypeOK
  <2>8. BufferIsText'
    <3>1. Buffered' = Buffered
      BY <1>3, <2>6 DEF Buffered
    <3>2. (Undecoded \/ Exhausted)'
      BY <1>1, <1>2, <3>1, DecodedKept DEF BufferIsText
    <3>3. Whole' = Whole
      BY <1>2, SourceKept
    <3>4. pointer' <= Len(buffer) /\ pointer' <= index' /\ index' <= Len(text)
      BY <1>1, <1>4, <2>1, <2>2 DEF BufferIsText
    <3> QED BY <1>1, <1>3, <2>6, <3>1, <3>2, <3>3, <3>4 DEF BufferIsText
  <2>9. PlacesAreRight'
    <3>1. /\ LineEnds(index)' = LineEnds(index + k) /\ Columns(index)' = Columns(index + k)
          /\ Encoded(text)' = Encoded(text)
      BY <1>3, <2>2 DEF LineEnds, Columns, Whole, Encoded
    <3>2. line' = Cardinality(LineEnds(index)') /\ column' = Cardinality(Columns(index)')
      BY <2>4, <3>1
    <3> QED BY <1>1, <1>3, <3>1, <3>2 DEF PlacesAreRight, Columns
  <2> QED BY <1>6, <2>7, <2>8, <2>9 DEF ReaderInv
<1> QED BY <1>7, <1>8

LEMMA StutterStep ==
  ASSUME ReaderInv, UNCHANGED vars
  PROVE  ReaderInv'
<1>1. /\ UNCHANGED <<sourceVars, stream, eof, raw_buffer, buffer, pointer, markVars,
                     stream_pointer, call, error>>
  BY DEF vars
<1>2. /\ text' = text /\ cut' = cut /\ input' = input /\ index' = index /\ line' = line
      /\ column' = column
  BY <1>1 DEF sourceVars, markVars
<1>3. Buffered' = Buffered
  BY <1>1, <1>2 DEF Buffered
<1>4. ReaderTypeOK'
  BY <1>1, <1>2 DEF ReaderInv, ReaderTypeOK
<1>5. BufferIsText'
  <2>1. (error = NoError => Undecoded \/ Exhausted)'
    BY <1>1, <1>3, DecodedKept DEF ReaderInv, BufferIsText
  <2>2. Whole' = Whole
    BY <1>1, SourceKept
  <2> QED BY <1>1, <1>2, <1>3, <2>1, <2>2 DEF ReaderInv, BufferIsText
<1>6. CallsAreServed'
  BY <1>1, <1>2 DEF ReaderInv, CallsAreServed, Enough
<1>7. PlacesAreRight'
  BY <1>1, PlacesKept DEF ReaderInv
<1> QED BY <1>4, <1>5, <1>6, <1>7 DEF ReaderInv

\* Nothing is read yet.
LEMMA BeginsUndecoded ==
  ASSUME text \in Seq(Chars), cut \in BOOLEAN, cut => \E c \in Chars : Width[c] > 1,
         raw_buffer \in Seq(Byte), Total = raw_buffer \o stream, Buffered = 0,
         input = "file" => stream_pointer = Len(raw_buffer)
  PROVE  Undecoded
<1>1. <<>> \in Seq(Byte) /\ Ends(<<>>) = {} /\ <<>> \o raw_buffer = raw_buffer
  BY DEF Ends
<1>2. Decoded(<<>>) = <<>>
  BY <1>1, DecodedNothing
<1>3. Len(<<>>) = 0 /\ Len(<<>>) + Len(raw_buffer) = Len(raw_buffer)
  OBVIOUS
<1>4. Decodes(<<>>)
  BY <1>1, <1>2, <1>3 DEF Decodes
<1> QED BY <1>1, <1>4 DEF Undecoded

LEMMA InitReader == Init => ReaderInv
<1> SUFFICES ASSUME Init PROVE ReaderInv
  OBVIOUS
<1>1. /\ text \in Seq(Chars) /\ cut \in BOOLEAN /\ (cut => \E c \in Chars : Width[c] > 1)
      /\ pointer = 0 /\ index = 0 /\ line = 0 /\ column = 0 /\ stream_pointer = 0
      /\ FromFile \/ FromStr \/ FromUnicode
  BY ReaderAssumption DEF Init
<1>2. AllBytes = Total /\ Total \in Seq(Byte)
  BY <1>1, TotalIs DEF AllBytes, Total, CutBytes
<1>3. /\ Len(Whole) = Len(text) + 1 /\ Len(text) \in Nat /\ Whole \in Seq(Character)
      /\ Whole = Append(text, "NUL") /\ <<>> \in Seq(Byte) /\ <<>> \in Seq(Character)
  BY <1>1, WholeIs DEF Whole, Character
<1>4. Buffered = Len(buffer)
  <2>1. buffer = <<>> \/ buffer = Whole
    BY <1>1, <1>3 DEF FromFile, FromStr, FromUnicode, ToDecode
  <2>2. Len(buffer) \in Nat
    BY <1>3, <2>1
  <2> QED BY <1>1, <2>2 DEF Buffered
<1>5. /\ input \in {"file", "str", "unicode"} /\ (input # "file" => eof) /\ eof \in BOOLEAN
      /\ stream \in Seq(Byte) /\ (eof => stream = <<>>)
      /\ buffer = <<>> \/ buffer = Whole
      /\ call \in {Idle, [what |-> "determine_encoding", length |-> 0, need |-> 1]}
  BY <1>1, <1>2, <1>3 DEF FromFile, FromStr, FromUnicode, ToDecode
<1>6. /\ error.what \in {"none", "special characters are not allowed"} /\ error.at \in Int
      /\ error \in [what : {"none", "decode", "special characters are not allowed"}, at : Int]
      /\ error.what = "special characters are not allowed" =>
           text[error.at + 1] = "x" /\ \A i \in 1..error.at : text[i] # "x"
  <2> DEFINE p == UnPrintable(text)
  <2>1. p # 0 => p \in 1..Len(text) /\ text[p] = "x" /\ \A i \in 1..(p - 1) : text[i] # "x"
    BY <1>1, UnPrintableIs
  <2>2. \/ error = NoError
        \/ p # 0 /\ error = [what |-> "special characters are not allowed", at |-> p - 1]
    BY <1>1 DEF FromFile, FromStr, FromUnicode, ToDecode
  <2> HIDE DEF p
  <2>3. CASE error = NoError
    BY <2>3 DEF NoError
  <2>4. CASE p # 0 /\ error = [what |-> "special characters are not allowed", at |-> p - 1]
    <3>0. p \in 1..Len(text)
      BY <2>1, <2>4, Zenon
    <3>1. p \in Int /\ p - 1 \in Int /\ (p - 1) + 1 = p
      BY <1>3, <3>0
    <3>2. error.what = "special characters are not allowed" /\ error.at = p - 1
      BY <2>4
    <3> QED BY <2>1, <2>4, <3>1, <3>2
  <2> QED BY <2>2, <2>3, <2>4
<1>7. ReaderTypeOK
  <2>1. call \in [what : {"none", "determine_encoding", "peek", "prefix", "forward"},
                  length : Nat, need : Nat]
    BY <1>5 DEF Idle
  <2> QED BY <1>1, <1>3, <1>5, <1>6, <2>1 DEF ReaderTypeOK
<1>8. error = NoError => Undecoded \/ Exhausted
  <2>1. CASE FromFile
    <3>1. /\ raw_buffer = <<>> /\ stream = Total /\ buffer = <<>>
          /\ raw_buffer \in Seq(Byte) /\ Total = raw_buffer \o stream /\ Len(raw_buffer) = 0
      BY <1>2, <1>3, <2>1 DEF FromFile, ToDecode
    <3> QED BY <1>1, <1>4, <3>1, BeginsUndecoded
  <2>2. CASE FromStr
    <3>1. /\ raw_buffer = Total /\ stream = <<>> /\ buffer = <<>> /\ input = "str"
          /\ raw_buffer \in Seq(Byte)
      BY <1>2, <2>2 DEF FromStr, ToDecode
    <3>2. Total = raw_buffer \o stream
      BY <1>2, <3>1
    <3> QED BY <1>1, <1>4, <3>1, <3>2, BeginsUndecoded
  <2>3. ASSUME FromUnicode, error = NoError PROVE Exhausted
    <3>1. NoError # [what |-> "special characters are not allowed",
                     at |-> UnPrintable(text) - 1]
      BY DEF NoError
    <3>2. raw_buffer = None /\ buffer = Whole
      BY <1>3, <2>3, <3>1 DEF FromUnicode
    <3> QED BY <1>4, <3>2 DEF Exhausted
  <2> QED BY <1>1, <2>1, <2>2, <2>3
<1>9. BufferIsText
  <2>1. \A i \in 1..Len(buffer) : buffer[i] = Whole[index - pointer + i]
    <3>1. index - pointer = 0 /\ \A i \in 1..Len(buffer) : index - pointer + i = i
      BY <1>1
    <3>2. buffer = <<>> => 1..Len(buffer) = {}
      OBVIOUS
    <3> QED BY <1>5, <3>1, <3>2
  <2>2. Len(buffer) \in Nat /\ Len(buffer) <= Len(Whole)
    BY <1>3, <1>5
  <2> QED BY <1>1, <1>3, <1>4, <1>5, <1>8, <2>1, <2>2 DEF BufferIsText
<1>10. CallsAreServed
  BY <1>5 DEF CallsAreServed, Idle
<1>11. PlacesAreRight
  <2>1. LineEnds(0) = {} /\ Columns(0) = {}
    BY DEF LineEnds, Columns
  <2>2. Cardinality(LineEnds(index)) = 0 /\ Cardinality(Columns(index)) = 0
    BY <1>1, <2>1, FS_EmptySet
  <2> QED BY <1>1, <1>6, <2>2 DEF PlacesAreRight, Columns
<1> QED BY <1>7, <1>9, <1>10, <1>11 DEF ReaderInv

LEMMA NextReader == ReaderInv /\ [Next]_vars => ReaderInv'
BY Calls, DetectStep, UpdateStep, ReturnStep, StutterStep DEF Next
-----------------------------------------------------------------------------
\* The theorems.

\* Whatever the pieces in which the file is read, and however the scanner looks ahead, line and
\* column are those of the character that is next, and an error names its place.
THEOREM ReaderKeepsItsPlace == Spec => []PlacesAreRight
<1>1. ReaderInv => PlacesAreRight
  BY DEF ReaderInv
<1> QED BY <1>1, InitReader, NextReader, PTL DEF Spec

LEMMA Returned ==
  ASSUME ReaderInv, Return
  PROVE  /\ call.what = "peek" => got' = <<Whole[index + call.length + 1]>>
         /\ call.what = "prefix" => got' = Rest(call.length)
<1>1. /\ ReaderTypeOK /\ BufferIsText /\ Busy /\ error = NoError /\ ~Short
  BY DEF ReaderInv, Return
<1>2. /\ call.length \in Nat
      /\ call.what = "peek" => pointer + call.length + 1 <= Len(buffer)
      /\ call.what = "prefix" =>
           pointer + call.length <= Len(buffer) \/ Buffered = Len(Whole)
  BY <1>1, Served
<1>3. /\ buffer \in Seq(Character) /\ Len(buffer) \in Nat /\ pointer \in Nat /\ index \in Nat
      /\ Len(text) \in Nat /\ text \in Seq(Chars)
  BY <1>1, Numbers DEF ReaderTypeOK
<1>4. /\ pointer <= Len(buffer) /\ pointer <= index /\ index <= Len(text)
      /\ Buffered <= Len(Whole) /\ Buffered = index - pointer + Len(buffer)
      /\ \A i \in 1..Len(buffer) : buffer[i] = Whole[index - pointer + i]
  BY <1>1 DEF BufferIsText, Buffered
<1>5. Len(Whole) = Len(text) + 1 /\ Whole \in Seq(Character)
  BY <1>3, WholeIs DEF Whole, Character
<1>6. ASSUME call.what = "peek" PROVE got' = <<Whole[index + call.length + 1]>>
  <2>1. got' = <<buffer[pointer + call.length + 1]>>
    BY <1>6 DEF Return
  <2>2. /\ pointer + call.length + 1 \in 1..Len(buffer)
        /\ index - pointer + (pointer + call.length + 1) = index + call.length + 1
    BY <1>2, <1>3, <1>6
  <2> QED BY <1>4, <2>1, <2>2
<1>7. ASSUME call.what = "prefix" PROVE got' = Rest(call.length)
  <2> DEFINE k == call.length
             a == Min({pointer + k, Len(buffer)})
             b == Min({index + k, Len(Whole)})
             r == SubSeq(buffer, pointer + 1, a)
             q == SubSeq(Whole, index + 1, b)
  <2>1. got' = r /\ Rest(k) = q
    BY <1>7 DEF Return, Rest
  <2>3. /\ a = (IF pointer + k <= Len(buffer) THEN pointer + k ELSE Len(buffer))
        /\ b = (IF index + k <= Len(Whole) THEN index + k ELSE Len(Whole))
    <3>1. pointer + k \in Nat /\ index + k \in Nat /\ Len(Whole) \in Nat
      BY <1>2, <1>3, <1>5
    <3> QED BY <1>3, <3>1, MinOfTwo
  <2> HIDE DEF a, b
  <2>4. a \in pointer..Len(buffer) /\ b \in index..Len(Whole) /\ b - index = a - pointer
    <3>1. /\ k \in Nat /\ (pointer + k <= Len(buffer) \/ Buffered = Len(Whole))
          /\ Len(Whole) \in Nat
      BY <1>2, <1>3, <1>5, <1>7
    <3>2. /\ pointer <= Len(buffer) /\ pointer <= index /\ index <= Len(text)
          /\ Buffered <= Len(Whole) /\ Buffered = index - pointer + Len(buffer)
          /\ Len(Whole) = Len(text) + 1
      BY <1>4, <1>5
    <3>3. Len(buffer) \in Nat /\ pointer \in Nat /\ index \in Nat /\ Len(text) \in Nat
      BY <1>3
    <3> HIDE DEF k
    <3> QED BY <2>3, <3>1, <3>2, <3>3
  <2>5. /\ r \in Seq(Character) /\ Len(r) = a - pointer
        /\ \A i \in 1..(a - pointer) : r[i] = buffer[pointer + i]
    BY <1>3, <2>4
  <2>6. /\ q \in Seq(Character) /\ Len(q) = b - index
        /\ \A i \in 1..(b - index) : q[i] = Whole[index + i]
    BY <1>3, <1>5, <2>4
  <2> HIDE DEF r, q
  <2>7. ASSUME NEW i \in 1..Len(r) PROVE r[i] = q[i]
    <3>1. /\ i \in 1..(a - pointer) /\ i \in 1..(b - index) /\ pointer + i \in 1..Len(buffer)
          /\ index - pointer + (pointer + i) = index + i
      BY <1>3, <2>4, <2>5
    <3> QED BY <1>4, <2>5, <2>6, <3>1
  <2>8. r = q
    BY <2>4, <2>5, <2>6, <2>7, SeqEqual
  <2> QED BY <2>1, <2>8
<1> QED BY <1>6, <1>7

\* What the scanner peeks at, and the prefixes it takes, are the text, NUL at the end.
THEOREM ReaderReturnsTheText == Spec => ReturnsTheText
<1>1. ReaderInv /\ [Next]_vars =>
        [Return =>
           /\ call.what = "peek" => got' = <<Whole[index + call.length + 1]>>
           /\ call.what = "prefix" => got' = Rest(call.length)]_vars
  BY Returned
<1> QED BY <1>1, InitReader, NextReader, PTL DEF Spec, ReturnsTheText
=============================================================================
