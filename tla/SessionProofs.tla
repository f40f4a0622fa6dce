---------------------------- MODULE SessionProofs ----------------------------
(***************************************************************************)
(* Theorems about Session: whatever the user types, however often, and     *)
(* however recv(), timers and the handler interleave.                      *)
(***************************************************************************)
EXTENDS Session, SequenceTheorems, WellFoundedInduction, TLAPS

\* What is under way of the PDUs whose types are in W, by place.  The tail of one
\* is never taken for a request or an answer.
Sending(W) == {i \in DOMAIN c2s : c2s[i].part # "tail" /\ c2s[i].type \in W}
Answering(W) == {i \in DOMAIN s2c : s2c[i].part # "tail" /\ s2c[i].type \in W}
Working(W) == stage = "busy" /\ doing \in W
Holding(W) == main \in {"again", "act"} /\ FromServer(event) /\ event.type \in W

\* One at most, and none.
One(W) ==
  /\ \A i, k \in Sending(W) : i = k
  /\ \A i, k \in Answering(W) : i = k
  /\ Sending(W) # {} => Answering(W) = {} /\ ~Working(W) /\ ~Holding(W)
  /\ Answering(W) # {} => ~Working(W) /\ ~Holding(W)
  /\ ~(Working(W) /\ Holding(W))
NoneOf(W) == Sending(W) = {} /\ Answering(W) = {} /\ ~Working(W) /\ ~Holding(W)

\* They are the client's last request or the answer to it.
OfLast(W) ==
  /\ \A i \in Sending(W) : c2s[i].n = sent
  /\ \A i \in Answering(W) : s2c[i].n = sent
  /\ Working(W) => number = sent
  /\ Holding(W) => event.n = sent

Replies == {"sAuthOK", "sAuthErr", "sUpdOK", "sUpdErr", "sDwnInfo", "sSynOK"}
AllTypes == {"cAuth", "cUpdate", "cDownload", "cSynch"} \cup Replies
NoSynch == AllTypes \ {"cSynch", "sSynOK"}

Auths == {"main_auth_u", "main_auth_d", "main_auth_s"}
Idle == {"main_init", "main_connected", "main_ready"}
Synching == {"syn_wait", "syn_wait_quit"}

\* One at a time, which is of the client's last request, and none in a state in
\* which it waits for none.
Parity(W, quiet) == One(W) /\ OfLast(W) /\ (state \in quiet => NoneOf(W))

\* So it is of all until a timer gives up a synch; and of all but synchs, of which
\* several may be under way, until a timer overtakes the main thread.
Alternation == ~late => Parity(AllTypes, Idle)
OthersAlternate == ~raced => Parity(NoSynch, Idle \cup Synching)

\* The branch chosen is that of the state, which only a timer changes meanwhile.
BranchIsOfState == ~raced /\ main = "act" => branch \in {state, "none"}

\* The first synch waits for the user's first line; no timer runs before it.
TimersMatch ==
  /\ raced => late
  /\ typed <= MaxTyped
  /\ t_synch + (IF main \in {"again", "act"} /\ event.type = "iSynch" THEN 1 ELSE 0) <= typed
  /\ \A t \in Timers : t > t_synch => timer[t] = "idle"
  /\ state \in Auths \cup {"main_init", "main_connected"} => t_synch = 0
  /\ state = "main_auth_s" => typed > 0
  /\ main = "boot" => state = "main_init"
  /\ main = "act" /\ branch \in Auths \cup {"main_connected"} => branch = state

\* What is in hand.
HandsMatch ==
  /\ \/ event = NoEvent
     \/ event.type \in Requests \cup {"iQuit"}
     \/ event \in PDU(Replies)
  /\ event.type = "iUpdate" => event.queries \in Seq(Priced)
  /\ main = "act" /\ branch = "upd_wait" => s_data # <<>>

\* A timer that finds a quit waiting does not give up, and the main thread deals
\* with a quit that waits in the branch for it.
QuitsMatch ==
  /\ \A t \in sawQuit : timer[t] \in {"ending", "done"}
  /\ state = "syn_wait_quit" /\ main = "act" => branch = "syn_wait_quit"

\* TypeOK, and what it says of the wire and of the handler.
ClientTypes ==
  /\ state \in Early \cup Late \cup {"main_init"}
  /\ s_data \in Seq(Priced)
  /\ t_synch \in Timers \cup {0}
  /\ main \in {"boot", "listen", "again", "act", "stopped", "crashed"}
  /\ branch \in Early \cup Late \cup {"none"}
  /\ timer \in [Timers -> {"idle", "armed", "fired", "ending", "giving_up", "done"}]
  /\ quit \in BOOLEAN /\ shut \in BOOLEAN /\ late \in BOOLEAN /\ raced \in BOOLEAN
  /\ typed \in Nat /\ sent \in Nat /\ sawQuit \subseteq Timers

Kinds == {"cAuth", "cUpdate", "cDownload", "cSynch"}
WireTypes ==
  /\ c2s \in Seq(PDU(Kinds)) /\ s2c \in Seq(PDU(Replies))
  /\ stage \in Stages /\ (stage = "busy" => doing \in DOMAIN AnswersTo)
  /\ number \in Nat /\ swallowed \in Nat /\ hup \in BOOLEAN

ClientPart ==
  /\ ClientTypes /\ BatchHasItsQuery /\ HandsMatch /\ TimersMatch /\ BranchIsOfState
  /\ QuitsMatch

IInv == ClientPart /\ WireTypes /\ Alternation /\ OthersAlternate
-----------------------------------------------------------------------------
\* The operators.

LEMMA MinOfNaturals ==
  ASSUME NEW S \in SUBSET Nat, S # {}
  PROVE  Min(S) \in S /\ \A x \in S : Min(S) <= x
<1>1. \E x \in S : \A y \in S : ~(<<y, x>> \in OpToRel(<, Nat))
  BY WFMin, NatLessThanWellFounded, Zenon
<1>2. PICK x \in S : \A y \in S : ~(<<y, x>> \in OpToRel(<, Nat))
  BY <1>1
<1>3. \A y \in S : ~(y < x)
  BY <1>2 DEF OpToRel
<1>4. \A y \in S : x <= y
  BY <1>3
<1> QED BY <1>4 DEF Min

LEMMA AnswerKinds ==
  /\ DOMAIN AnswersTo = {"cUpdate", "cDownload", "cSynch"}
  /\ AnswersTo["cUpdate"] = {"sUpdOK", "sUpdErr"}
  /\ AnswersTo["cDownload"] = {"sDwnInfo"}
  /\ AnswersTo["cSynch"] = {"sSynOK"}
  /\ (UNION {AnswersTo[k] : k \in DOMAIN AnswersTo}) = {"sUpdOK", "sUpdErr", "sDwnInfo", "sSynOK"}
BY DEF AnswersTo

\* The families of types of which one may be under way: a request is in one if
\* its answers are.
Family(W) ==
  /\ AllTypes \ {"cSynch", "sSynOK"} \subseteq W
  /\ "cSynch" \in W <=> "sSynOK" \in W

LEMMA Families == Family(AllTypes) /\ Family(NoSynch)
BY DEF Family, AllTypes, NoSynch, Replies

LEMMA TheseAreItsTypes ==
  ASSUME ClientTypes, WireTypes
  PROVE  TypeOK
<1>1. /\ {"cAuth"} \cup DOMAIN AnswersTo = Kinds
      /\ {"sAuthOK", "sAuthErr"} \cup (UNION {AnswersTo[k] : k \in DOMAIN AnswersTo}) = Replies
  BY AnswerKinds DEF Kinds, Replies
<1> QED BY <1>1 DEF ClientTypes, WireTypes, TypeOK

\* What recv() leaves, and what it returns.
LEMMA Cutting ==
  ASSUME NEW T, NEW s \in Seq(T), NEW k \in DOMAIN s
  PROVE  /\ SubSeq(s, k + 1, Len(s)) \in Seq(T)
         /\ Len(SubSeq(s, k + 1, Len(s))) = Len(s) - k
         /\ \A i \in DOMAIN SubSeq(s, k + 1, Len(s)) :
              i + k \in DOMAIN s /\ SubSeq(s, k + 1, Len(s))[i] = s[i + k]
         /\ SubSeq(s, 1, k) \in Seq(T) /\ Len(SubSeq(s, 1, k)) = k
         /\ \A i \in DOMAIN SubSeq(s, 1, k) :
              i \in DOMAIN s /\ i <= k /\ SubSeq(s, 1, k)[i] = s[i]
OBVIOUS

\* The event decoded is one of the PDUs received, and not the tail of one.
LEMMA Decoded ==
  ASSUME NEW T, NEW run \in Seq(PDU(T)), run # <<>>, NEW e \in Received(run)
  PROVE  \/ e = <<>>
         \/ \E j \in DOMAIN run : e = <<run[j]>> /\ run[j].part # "tail"
<1> DEFINE padded == {i \in DOMAIN run : run[i].pad}
           last == IF padded = {} THEN Len(run) ELSE Min(padded)
<1>1. last \in DOMAIN run /\ last \in 1..last
  <2>1. padded \in SUBSET Nat /\ padded \subseteq DOMAIN run
    OBVIOUS
  <2>2. Len(run) \in DOMAIN run
    OBVIOUS
  <2>3. padded # {} => Min(padded) \in DOMAIN run
    BY <2>1, MinOfNaturals
  <2>4. last \in DOMAIN run
    BY <2>2, <2>3
  <2> QED BY <2>4
<1> HIDE DEF last
<1>2. \/ e = <<>>
      \/ e = <<run[last]>> /\ \A i \in 1..last : run[i].part = "whole"
      \/ e = <<run[1]>> /\ last = 1 /\ run[1].part = "cut"
  BY DEF Received, last
<1> QED BY <1>1, <1>2

LEMMA Heard ==
  ASSUME NEW T, NEW s \in Seq(PDU(T)), NEW k \in DOMAIN s,
         NEW e \in Received(SubSeq(s, 1, k))
  PROVE  \/ e = <<>>
         \/ \E j \in 1..k : e = <<s[j]>> /\ j \in DOMAIN s /\ s[j].part # "tail"
<1>1. /\ SubSeq(s, 1, k) \in Seq(PDU(T)) /\ Len(SubSeq(s, 1, k)) = k
      /\ \A i \in DOMAIN SubSeq(s, 1, k) :
           i \in DOMAIN s /\ i <= k /\ SubSeq(s, 1, k)[i] = s[i]
  BY Cutting
<1>2. SubSeq(s, 1, k) # <<>>
  BY <1>1
<1> HIDE DEF PDU
<1>3. \/ e = <<>>
      \/ \E j \in DOMAIN SubSeq(s, 1, k) :
           e = <<SubSeq(s, 1, k)[j]>> /\ SubSeq(s, 1, k)[j].part # "tail"
  BY <1>1, <1>2, Decoded
<1> QED BY <1>1, <1>3

\* What comes before the first v of a sequence.
LEMMA BeforeFirst ==
  ASSUME NEW T, NEW s \in Seq(T), NEW v, {i \in DOMAIN s : s[i] = v} # {}
  PROVE  SubSeq(s, 1, Min({i \in DOMAIN s : s[i] = v}) - 1) \in Seq(T)
<1> DEFINE places == {i \in DOMAIN s : s[i] = v}
           n == Min(places) - 1
<1>1. places \in SUBSET Nat /\ places \subseteq 1..Len(s)
  OBVIOUS
<1>2. Min(places) \in 1..Len(s)
  BY <1>1, MinOfNaturals
<1> HIDE DEF places
<1>3. n \in Int /\ \A i \in 1..n : s[i] \in T
  BY <1>2
<1> HIDE DEF n
<1>4. SubSeq(s, 1, n) \in Seq(T)
  BY <1>3, SubSeqProperties
<1> QED BY <1>4 DEF n, places

LEMMA BeforeBlankType ==
  ASSUME NEW entries \in Seq(Entries)
  PROVE  BeforeBlank(entries) \in Seq(Entries)
<1> DEFINE blanks == {i \in DOMAIN entries : entries[i] = ""}
<1>1. CASE blanks = {}
  BY <1>1 DEF BeforeBlank
<1>2. CASE blanks # {}
  <2> HIDE DEF Entries
  <2>1. SubSeq(entries, 1, Min(blanks) - 1) \in Seq(Entries)
    BY <1>2, BeforeFirst
  <2> QED BY <1>2, <2>1 DEF BeforeBlank
<1> QED BY <1>1, <1>2

\* The batch of an update has priced queries only.
LEMMA StdinEvents ==
  ASSUME NEW line \in Line, NEW e, e = read_stdin(line), e \notin {Nothing, Exception}
  PROVE  /\ e.type \in Requests \cup {"iQuit"}
         /\ e.type = "iUpdate" => e.queries \in Seq(Priced)
<1> USE DEF Requests
<1>1. CASE line.cmd = "update"
  <2>1. line.entries \in Seq(Entries)
    BY <1>1 DEF Line
  <2> DEFINE queries == BeforeBlank(line.entries)
  <2>2. e = [type |-> "iUpdate", queries |-> queries] /\ ToSet(queries) \subseteq Priced
    BY <1>1 DEF read_stdin, update
  <2>3. queries \in Seq(Entries)
    BY <2>1, BeforeBlankType
  <2> HIDE DEF queries
  <2>4. queries \in Seq(Priced)
    BY <2>2, <2>3 DEF ToSet
  <2> QED BY <2>2, <2>4
<1>2. CASE line.cmd = "download"
  <2>1. e = download(line)
    BY <1>2 DEF read_stdin
  <2>2. e.type = "iDownload"
    BY <2>1 DEF download, Nothing
  <2> QED BY <2>2
<1>3. CASE line.cmd = "synch"
  BY <1>3 DEF read_stdin, synch, Line, Nothing, Exception
<1>4. CASE line.cmd \in {"quit", "other"}
  BY <1>4 DEF read_stdin, Nothing
<1> QED BY <1>1, <1>2, <1>3, <1>4 DEF Line

\* send() puts one PDU into the channel s, and perhaps its tail.
After(s, type, n, pad, long) == s \o Pieces(Encode(type, n, pad), long)

LEMMA Sent ==
  ASSUME NEW T, NEW type \in T, NEW n \in Nat, NEW long, NEW pad \in BOOLEAN,
         NEW s \in Seq(PDU(T)), NEW s1, s1 = After(s, type, n, pad, long)
  PROVE  /\ s1 \in Seq(PDU(T)) /\ Len(s1) > Len(s)
         /\ \A i \in DOMAIN s : i \in DOMAIN s1 /\ s1[i] = s[i]
         /\ \A i \in DOMAIN s1 :
              \/ i \in DOMAIN s
              \/ i = Len(s) + 1 /\ s1[i].type = type /\ s1[i].n = n
              \/ i > Len(s) + 1 /\ s1[i].part = "tail"
<1> DEFINE p == Encode(type, n, pad)
           pieces == Pieces(p, long)
           cut == [p EXCEPT !.part = "cut", !.pad = FALSE]
           tail == [p EXCEPT !.part = "tail"]
<1>2. /\ p \in PDU(T) /\ p.type = type /\ p.n = n
      /\ cut \in PDU(T) /\ cut.type = type /\ cut.n = n
      /\ tail \in PDU(T) /\ tail.part = "tail"
  BY DEF Encode, PDU
<1>3. pieces = <<p>> \/ pieces = <<cut, tail>>
  BY DEF Pieces
<1> HIDE DEF pieces, p, cut, tail, PDU
<1>4. /\ pieces \in Seq(PDU(T)) /\ Len(pieces) \in {1, 2}
      /\ pieces[1].type = type /\ pieces[1].n = n
      /\ Len(pieces) = 2 => pieces[2].part = "tail"
  <2>1. CASE pieces = <<p>>
    <3>1. pieces \in Seq(PDU(T)) /\ Len(pieces) = 1 /\ pieces[1] = p
      BY <1>2, <2>1
    <3> QED BY <1>2, <3>1
  <2>2. CASE pieces = <<cut, tail>>
    <3>1. /\ pieces \in Seq(PDU(T)) /\ Len(pieces) = 2
          /\ pieces[1] = cut /\ pieces[2] = tail
      BY <1>2, <2>2
    <3> QED BY <1>2, <3>1
  <2> QED BY <1>3, <2>1, <2>2
<1>5. s1 = s \o pieces
  BY DEF pieces, p, After
<1>6. /\ s1 \in Seq(PDU(T)) /\ Len(s1) = Len(s) + Len(pieces)
      /\ \A i \in DOMAIN s : i \in DOMAIN s1 /\ s1[i] = s[i]
      /\ \A i \in DOMAIN s1 :
           \/ i \in DOMAIN s
           \/ i - Len(s) \in DOMAIN pieces /\ s1[i] = pieces[i - Len(s)]
  BY <1>4, <1>5, ConcatProperties
<1> QED
  <2> SUFFICES ASSUME NEW i \in DOMAIN s1, i \notin DOMAIN s
               PROVE  \/ i = Len(s) + 1 /\ s1[i].type = type /\ s1[i].n = n
                      \/ i > Len(s) + 1 /\ s1[i].part = "tail"
    BY <1>4, <1>6
  <2>1. /\ i - Len(s) \in DOMAIN pieces /\ s1[i] = pieces[i - Len(s)]
        /\ i \in Nat /\ Len(s) \in Nat
    BY <1>6
  <2>2. i - Len(s) = 1 \/ (i - Len(s) = 2 /\ Len(pieces) = 2)
    BY <1>4, <2>1
  <2>3. CASE i - Len(s) = 1
    BY <1>4, <2>1, <2>3
  <2>4. CASE i - Len(s) = 2 /\ Len(pieces) = 2
    BY <1>4, <2>1, <2>4
  <2> QED BY <2>2, <2>3, <2>4
-----------------------------------------------------------------------------
\* What the steps do to the PDUs under way.

\* Nothing comes to be under way; what the client holds may be used up.
LEMMA Fewer ==
  ASSUME NEW W, UNCHANGED <<c2s, s2c, sent, number>>,
         Working(W)' => Working(W), Holding(W)' => Holding(W) /\ event' = event
  PROVE  /\ One(W) => One(W)'
         /\ OfLast(W) => OfLast(W)'
         /\ NoneOf(W) => NoneOf(W)'
         /\ One(W) /\ Holding(W) /\ ~Holding(W)' => NoneOf(W)'
<1>1. Sending(W)' = Sending(W) /\ Answering(W)' = Answering(W)
  BY DEF Sending, Answering
<1>2. /\ \A i \in Sending(W) : c2s'[i].n = c2s[i].n
      /\ \A i \in Answering(W) : s2c'[i].n = s2c[i].n
  BY DEF Sending, Answering
<1> QED BY <1>1, <1>2 DEF One, OfLast, NoneOf

\* A new request of the client, where nothing but what it held was under way.
LEMMA Asked ==
  ASSUME NEW W, NEW T, NEW type \in T, c2s \in Seq(PDU(T)), sent \in Nat, Ask(type),
         NoneOf(W) \/ (One(W) /\ Holding(W)),
         UNCHANGED <<stage, doing>>, ~Holding(W)'
  PROVE  /\ One(W)' /\ OfLast(W)'
         /\ type \notin W => NoneOf(W)'
<1>1. Sending(W) = {} /\ Answering(W) = {} /\ ~Working(W)
  BY DEF One, NoneOf
<1>2. PICK pad, long \in BOOLEAN : c2s' = After(c2s, type, sent', pad, long)
  BY DEF Ask, Send, After
<1> HIDE DEF PDU
<1>3. s2c' = s2c /\ sent' \in Nat
  BY DEF Ask, Send
<1>4. \A i \in DOMAIN c2s' :
        \/ i \in DOMAIN c2s /\ c2s'[i] = c2s[i]
        \/ i = Len(c2s) + 1 /\ c2s'[i].type = type /\ c2s'[i].n = sent'
        \/ i > Len(c2s) + 1 /\ c2s'[i].part = "tail"
  BY <1>2, <1>3, Sent
<1>5. \A i \in Sending(W)' : i = Len(c2s) + 1 /\ type \in W /\ c2s'[i].n = sent'
  BY <1>1, <1>4 DEF Sending
<1>6. Answering(W)' = {} /\ ~Working(W)'
  BY <1>1, <1>3 DEF Answering, Working
<1> QED BY <1>5, <1>6 DEF One, OfLast, NoneOf

\* One recv() of the client.
LEMMA ClientTook ==
  ASSUME NEW W, WireTypes, NEW k \in DOMAIN s2c, ClientHears(k)
  PROVE  /\ One(W) => One(W)'
         /\ One(W) /\ OfLast(W) => OfLast(W)'
         /\ NoneOf(W) => NoneOf(W)'
<1>1. /\ s2c' = SubSeq(s2c, k + 1, Len(s2c)) /\ UNCHANGED <<c2s, stage, doing, number, sent>>
      /\ ~Holding(W)
  BY DEF ClientHears, ReadTcp, serviceVars, history, Holding
<1>2. s2c \in Seq(PDU(Replies)) /\ k \in 1..Len(s2c) /\ DOMAIN s2c = 1..Len(s2c)
  BY DEF WireTypes
<1> HIDE DEF PDU
<1>3. \A i \in DOMAIN s2c' : i + k \in DOMAIN s2c /\ s2c'[i] = s2c[i + k] /\ i \in Nat /\ i > 0
  BY <1>1, <1>2, Cutting
<1>4. \A i \in Answering(W)' : i + k \in Answering(W) /\ s2c'[i].n = s2c[i + k].n
  BY <1>3 DEF Answering
<1>5. Holding(W)' => \E j \in 1..k : j \in Answering(W) /\ event' = s2c[j]
  <2>1. PICK e \in Received(SubSeq(s2c, 1, k)) :
          IF e = <<>> THEN Loop /\ UNCHANGED <<branch, event>> ELSE Dispatch(e[1])
    BY DEF ClientHears, ReadTcp
  <2>2. \/ e = <<>>
        \/ \E j \in 1..k : e = <<s2c[j]>> /\ j \in DOMAIN s2c /\ s2c[j].part # "tail"
    BY <1>2, Heard
  <2>3. CASE e = <<>>
    BY <2>1, <2>3 DEF Loop, LoopUnless, Holding
  <2>4. ASSUME NEW j \in 1..k, e = <<s2c[j]>>, j \in DOMAIN s2c, s2c[j].part # "tail"
        PROVE  Holding(W)' => j \in Answering(W) /\ event' = s2c[j]
    <3>1. event' = s2c[j]
      BY <2>1, <2>4 DEF Dispatch
    <3> QED BY <2>4, <3>1 DEF Holding, Answering
  <2> QED BY <2>2, <2>3, <2>4
<1>6. Sending(W)' = Sending(W) /\ Working(W)' = Working(W)
  BY <1>1 DEF Sending, Working
<1>7. \A i \in Sending(W) : c2s'[i].n = c2s[i].n
  BY <1>1
<1>8. k \in Nat /\ \A i \in DOMAIN s2c' : \A j \in 1..k : i + k # j
  BY <1>2, <1>3
<1>9. One(W) => One(W)'
  <2>1. SUFFICES ASSUME One(W) PROVE One(W)'
    OBVIOUS
  <2>2. \A i, j \in Answering(W)' : i + k = j + k
    BY <1>4, <2>1 DEF One
  <2>3. \A i, j \in Answering(W)' : i = j
    BY <1>3, <1>8, <2>2 DEF Answering
  <2>4. Holding(W)' => Answering(W)' = {}
    BY <1>4, <1>5, <1>8, <2>1 DEF One, Answering
  <2>5. (Answering(W)' # {} \/ Holding(W)') => Answering(W) # {}
    BY <1>4, <1>5
  <2> QED BY <1>1, <1>6, <2>1, <2>3, <2>4, <2>5 DEF One
<1>10. OfLast(W) => OfLast(W)'
  BY <1>1, <1>4, <1>5, <1>6, <1>7 DEF OfLast
<1>11. NoneOf(W) => NoneOf(W)'
  BY <1>1, <1>4, <1>5, <1>6 DEF NoneOf
<1> QED BY <1>9, <1>10, <1>11

\* An answer is under way if one of its family is sent.
LEMMA Replied ==
  ASSUME NEW W, NEW type \in Replies, NEW n \in Nat, NEW long \in BOOLEAN,
         s2c \in Seq(PDU(Replies)), SendReply(type, n, long)
  PROVE  /\ s2c' \in Seq(PDU(Replies))
         /\ \A i \in Answering(W)' :
              \/ i \in Answering(W) /\ s2c'[i].n = s2c[i].n
              \/ i = Len(s2c) + 1 /\ type \in W /\ s2c'[i].n = n
         /\ Len(s2c) + 1 \notin Answering(W)
<1> HIDE DEF PDU
<1>1. /\ s2c' \in Seq(PDU(Replies)) /\ Len(s2c') > Len(s2c)
      /\ \A i \in DOMAIN s2c : i \in DOMAIN s2c' /\ s2c'[i] = s2c[i]
      /\ \A i \in DOMAIN s2c' :
           \/ i \in DOMAIN s2c
           \/ i = Len(s2c) + 1 /\ s2c'[i].type = type /\ s2c'[i].n = n
           \/ i > Len(s2c) + 1 /\ s2c'[i].part = "tail"
  <2>1. PICK pad \in BOOLEAN : s2c' = After(s2c, type, n, pad, long)
    BY DEF SendReply, After
  <2> QED BY <2>1, Sent
<1>2. Len(s2c) + 1 \notin DOMAIN s2c
  OBVIOUS
<1> QED BY <1>1, <1>2 DEF Answering

\* One recv() of the handler, and the start of process().
LEMMA HandlerTook ==
  ASSUME NEW W, Family(W), WireTypes, NEW k \in DOMAIN c2s, HandlerHears(k)
  PROVE  /\ One(W) => One(W)'
         /\ One(W) /\ OfLast(W) => OfLast(W)'
         /\ NoneOf(W) => NoneOf(W)'
         /\ WireTypes'
<1>1. /\ c2s' = SubSeq(c2s, k + 1, Len(c2s)) /\ UNCHANGED <<main, event, sent>>
      /\ stage \in {"anonymous", "ready"} /\ ~Working(W) /\ Holding(W)' = Holding(W)
  BY DEF HandlerHears, globals, threads, history, Holding, Working
<1>2. c2s \in Seq(PDU(Kinds)) /\ k \in 1..Len(c2s) /\ DOMAIN c2s = 1..Len(c2s) /\ k \in Nat
  BY DEF WireTypes
<1> HIDE DEF PDU
<1>3. c2s' \in Seq(PDU(Kinds)) /\ \A i \in DOMAIN c2s' :
        i + k \in DOMAIN c2s /\ c2s'[i] = c2s[i + k] /\ i \in Nat /\ i > 0
  BY <1>1, <1>2, Cutting
<1>4. \A i \in Sending(W)' : i + k \in Sending(W) /\ c2s'[i].n = c2s[i + k].n /\ i \in Nat /\ i > 0
  BY <1>3 DEF Sending
<1>5. \A i, j \in Sending(W)' : i + k = j + k => i = j
  BY <1>2, <1>4
<1>6. \A i \in Sending(W)' : \A j \in 1..k : i + k # j
  BY <1>2, <1>4
<1>7. swallowed' \in Nat
  BY DEF WireTypes, HandlerHears
\* What is received: nothing, or the j-th PDU.
<1> DEFINE Of(e) == IF e = <<>> THEN "none" ELSE e[1].type
<1>8. PICK e \in Received(SubSeq(c2s, 1, k)) :
        \/ /\ stage = "anonymous" /\ Of(e) = "cAuth"
           /\ \E ok \in BOOLEAN : Login(ok)
           /\ SendReply(reply', e[1].n, FALSE)
           /\ hup' = (stage' = "closed") /\ UNCHANGED number
        \/ /\ Begin(Of(e))
           /\ number' = e[1].n
           /\ UNCHANGED <<s2c, hup>>
        \/ /\ Of(e) = "cUpdate" /\ Refuse
           /\ SendReply("sUpdErr", e[1].n, FALSE)
           /\ number' = e[1].n /\ UNCHANGED hup
        \/ UNCHANGED <<serviceVars, s2c, number, hup>>
  BY DEF HandlerHears
<1>9. \/ e = <<>>
      \/ \E j \in 1..k : e = <<c2s[j]>> /\ j \in DOMAIN c2s /\ c2s[j].part # "tail"
  BY <1>2, Heard
<1>10. /\ Of(e) = "cAuth" => "cAuth" \in W
       /\ "none" \notin DOMAIN AnswersTo /\ "cAuth" \notin DOMAIN AnswersTo
  BY AnswerKinds DEF Family, AllTypes
<1>11. Of(e) # "none" => \E j \in 1..k :
         /\ j \in DOMAIN c2s /\ e[1] = c2s[j] /\ Of(e) = c2s[j].type /\ e[1].n \in Nat
         /\ c2s[j].part # "tail"
  <2>1. ASSUME NEW j \in 1..k, e = <<c2s[j]>>, j \in DOMAIN c2s
        PROVE  e[1] = c2s[j] /\ Of(e) = c2s[j].type /\ e[1].n \in Nat
    <3>1. c2s[j] \in PDU(Kinds)
      BY <1>2, <2>1
    <3> QED BY <2>1, <3>1 DEF PDU
  <2> QED BY <1>9, <2>1
\* What is under way then.
<1>12. CASE UNCHANGED <<serviceVars, s2c, number, hup>>
  <2>1. Answering(W)' = Answering(W) /\ ~Working(W)' /\ WireTypes'
    BY <1>1, <1>3, <1>7, <1>12 DEF serviceVars, Answering, Working, WireTypes
  <2> QED BY <1>1, <1>4, <1>5, <1>12, <2>1 DEF One, OfLast, NoneOf, Answering, Sending
<1>13. CASE Begin(Of(e)) /\ number' = e[1].n /\ UNCHANGED <<s2c, hup>>
  <2>1. Of(e) \in DOMAIN AnswersTo /\ doing' = Of(e) /\ stage' = "busy"
    BY <1>13 DEF Begin
  <2>2. PICK j \in 1..k :
          /\ j \in DOMAIN c2s /\ e[1] = c2s[j] /\ Of(e) = c2s[j].type /\ e[1].n \in Nat
          /\ c2s[j].part # "tail"
    BY <1>10, <1>11, <2>1
  <2>3. Answering(W)' = Answering(W) /\ (Working(W)' => j \in Sending(W))
    BY <1>13, <2>1, <2>2 DEF Answering, Working, Sending
  <2>4. WireTypes'
    BY <1>3, <1>7, <1>13, <2>1, <2>2 DEF WireTypes, Stages
  <2>5. Working(W)' /\ One(W) => Sending(W)' = {}
    BY <1>4, <1>6, <2>2, <2>3 DEF One
  <2>6. /\ \A i \in Answering(W) : s2c'[i].n = s2c[i].n
        /\ number' = c2s[j].n
    BY <1>13, <2>2
  <2>7. One(W) => One(W)'
    BY <1>1, <1>4, <1>5, <2>3, <2>5 DEF One
  <2>8. One(W) /\ OfLast(W) => OfLast(W)'
    BY <1>1, <1>4, <2>3, <2>6 DEF OfLast
  <2>9. NoneOf(W) => NoneOf(W)'
    BY <1>1, <1>4, <2>3 DEF NoneOf
  <2> QED BY <2>4, <2>7, <2>8, <2>9
<1>14. ASSUME NEW type \in Replies, Of(e) # "none", type \in W => Of(e) \in W,
              SendReply(type, e[1].n, FALSE), stage' \in Stages \ {"busy"},
              number' \in {number, e[1].n}, hup' \in BOOLEAN
       PROVE  /\ One(W) => One(W)'
              /\ One(W) /\ OfLast(W) => OfLast(W)'
              /\ NoneOf(W) => NoneOf(W)'
              /\ WireTypes'
  <2>2. PICK j \in 1..k :
          /\ j \in DOMAIN c2s /\ e[1] = c2s[j] /\ Of(e) = c2s[j].type /\ e[1].n \in Nat
          /\ c2s[j].part # "tail"
    BY <1>11, <1>14
  <2> DEFINE n == e[1].n
  <2>3. n \in Nat /\ SendReply(type, n, FALSE) /\ s2c \in Seq(PDU(Replies))
    BY <1>14, <2>2 DEF WireTypes
  <2> HIDE DEF n
  <2>4. /\ s2c' \in Seq(PDU(Replies))
        /\ \A i \in Answering(W)' :
             \/ i \in Answering(W) /\ s2c'[i].n = s2c[i].n
             \/ i = Len(s2c) + 1 /\ type \in W /\ s2c'[i].n = n
        /\ Len(s2c) + 1 \notin Answering(W)
    BY <2>3, Replied
  <2>5. type \in W => j \in Sending(W) /\ c2s[j].n = n
    BY <1>14, <2>2 DEF Sending, n
  <2>6. type \in W /\ One(W) => Sending(W)' = {} /\ Answering(W) = {} /\ ~Holding(W)
    BY <1>4, <1>6, <2>2, <2>5 DEF One
  <2>7. ~Working(W)' /\ WireTypes'
    BY <1>3, <1>7, <1>14, <2>2, <2>4 DEF Working, WireTypes
  <2> QED BY <1>1, <1>4, <1>5, <2>4, <2>5, <2>6, <2>7 DEF One, OfLast, NoneOf
<1>15. CASE /\ stage = "anonymous" /\ Of(e) = "cAuth"
            /\ \E ok \in BOOLEAN : Login(ok)
            /\ SendReply(reply', e[1].n, FALSE)
            /\ hup' = (stage' = "closed") /\ UNCHANGED number
  <2>1. reply' \in {"sAuthOK", "sAuthErr"} /\ stage' \in {"ready", "closed"}
    BY <1>15 DEF Login
  <2>2. reply' \in Replies /\ stage' \in Stages \ {"busy"} /\ Of(e) \in W /\ Of(e) # "none"
    BY <1>10, <1>15, <2>1 DEF Replies, Stages
  <2>3. hup' \in BOOLEAN
    BY <1>15
  <2> QED BY <1>14, <1>15, <2>2, <2>3
<1>16. CASE /\ Of(e) = "cUpdate" /\ Refuse
            /\ SendReply("sUpdErr", e[1].n, FALSE)
            /\ number' = e[1].n /\ UNCHANGED hup
  <2>1. "sUpdErr" \in Replies /\ Of(e) \in W /\ Of(e) # "none" /\ stage' \in Stages \ {"busy"}
    BY <1>16 DEF Replies, Family, AllTypes, Refuse, Stages
  <2>2. hup' \in BOOLEAN
    BY <1>16 DEF WireTypes
  <2> QED BY <1>14, <1>16, <2>1, <2>2
<1> QED BY <1>8, <1>12, <1>13, <1>15, <1>16

\* An answer of the handler.
LEMMA HandlerAnswered ==
  ASSUME NEW W, Family(W), WireTypes, HandlerAnswers
  PROVE  /\ One(W) => One(W)'
         /\ One(W) /\ OfLast(W) => OfLast(W)'
         /\ NoneOf(W) => NoneOf(W)'
         /\ WireTypes'
<1>1. /\ stage = "busy" /\ UNCHANGED <<main, event, sent, c2s, number, swallowed>>
      /\ Holding(W)' = Holding(W) /\ Sending(W)' = Sending(W)
      /\ \A i \in Sending(W) : c2s'[i].n = c2s[i].n
      /\ doing \in DOMAIN AnswersTo
  BY DEF HandlerAnswers, globals, threads, history, Holding, Sending, WireTypes
<1>2. CASE Perish /\ hup' = TRUE /\ UNCHANGED s2c
  <2>1. ~Working(W)' /\ Answering(W)' = Answering(W) /\ WireTypes'
    BY <1>1, <1>2 DEF Perish, Working, Answering, WireTypes, Stages
  <2> QED BY <1>1, <1>2, <2>1 DEF One, OfLast, NoneOf, Answering
<1>3. ASSUME NEW type \in AnswersTo[doing], Reply(type), NEW long \in BOOLEAN,
             SendReply(type, number, long), UNCHANGED hup
      PROVE  /\ One(W) => One(W)'
             /\ One(W) /\ OfLast(W) => OfLast(W)'
             /\ NoneOf(W) => NoneOf(W)'
             /\ WireTypes'
  <2>1. type \in Replies /\ (type \in W => Working(W))
    BY <1>1, AnswerKinds DEF Replies, Family, AllTypes, Working
  <2>2. number \in Nat /\ s2c \in Seq(PDU(Replies))
    BY DEF WireTypes
  <2>3. /\ s2c' \in Seq(PDU(Replies))
        /\ \A i \in Answering(W)' :
             \/ i \in Answering(W) /\ s2c'[i].n = s2c[i].n
             \/ i = Len(s2c) + 1 /\ type \in W /\ s2c'[i].n = number
        /\ Len(s2c) + 1 \notin Answering(W)
    BY <1>3, <2>1, <2>2, Replied
  <2> HIDE DEF PDU
  <2>4. stage' = "ready" /\ ~Working(W)' /\ WireTypes'
    BY <1>1, <1>3, <2>3 DEF Reply, Working, WireTypes, Stages
  <2> QED BY <1>1, <2>1, <2>3, <2>4 DEF One, OfLast, NoneOf
<1> QED BY <1>2, <1>3 DEF HandlerAnswers
-----------------------------------------------------------------------------
\* What the steps do to the client's own part, and to the types of the wire.

LEMMA InitIInv == Init => IInv
<1> SUFFICES ASSUME Init PROVE IInv
  OBVIOUS
<1>1. ClientInit /\ ServiceInit /\ number = 0 /\ hup = FALSE /\ swallowed = 0
  BY DEF Init
<1>2. \A t \in Timers : timer[t] = "idle"
  BY <1>1 DEF ClientInit
<1> HIDE DEF PDU, Priced
<1>empty. DOMAIN <<>> = {} /\ \A T : <<>> \in Seq(T)
  OBVIOUS
<1>idle. timer \in [Timers -> {"idle", "armed", "fired", "ending", "giving_up", "done"}]
  BY <1>1 DEF ClientInit
<1>3. ClientTypes
  BY <1>1, <1>empty, <1>idle DEF ClientInit, ClientTypes
<1>4. WireTypes
  BY <1>1, <1>empty DEF ClientInit, ServiceInit, WireTypes, Stages
<1>5. MaxTyped \in Nat
  BY ClientAssumption
<1>6. TimersMatch
  BY <1>1, <1>2, <1>5 DEF ClientInit, TimersMatch, NoEvent
<1>7. BatchHasItsQuery /\ HandsMatch /\ BranchIsOfState /\ QuitsMatch
  BY <1>1 DEF ClientInit, BatchHasItsQuery, HandsMatch, BranchIsOfState, QuitsMatch, NoEvent, Over
<1>8. \A W : One(W) /\ OfLast(W) /\ NoneOf(W)
  BY <1>1 DEF ClientInit, ServiceInit, One, OfLast, NoneOf, Sending, Answering, Working, Holding
<1>9. Alternation /\ OthersAlternate
  BY <1>8 DEF Alternation, OthersAlternate, Parity
<1> QED BY <1>3, <1>4, <1>6, <1>7, <1>9 DEF IInv, ClientPart

\* The handler's steps.
LEMMA ClientPartLeft ==
  ASSUME ClientPart, UNCHANGED <<globals, threads, shut, typed, history>>
  PROVE  ClientPart'
BY DEF ClientPart, ClientTypes, BatchHasItsQuery, HandsMatch, TimersMatch, BranchIsOfState, QuitsMatch,
       Over, globals, threads, history

LEMMA WireTypesLeft ==
  ASSUME WireTypes, UNCHANGED <<c2s, s2c, serviceVars, sessionVars>>
  PROVE  WireTypes'
BY DEF WireTypes, serviceVars, sessionVars

LEMMA AskTypes ==
  ASSUME ClientTypes, WireTypes, NEW type \in Kinds, Ask(type), UNCHANGED <<serviceVars, sessionVars>>
  PROVE  WireTypes' /\ sent' \in Nat /\ sent' = sent + 1 /\ UNCHANGED <<s2c, shut, late, raced, sawQuit>>
<1>1. PICK pad, long \in BOOLEAN : c2s' = After(c2s, type, sent', pad, long)
  BY DEF Ask, Send, After
<1>2. sent' \in Nat /\ sent' = sent + 1 /\ UNCHANGED <<s2c, shut, late, raced, sawQuit>>
  BY DEF Ask, Send, ClientTypes
<1> HIDE DEF PDU, Kinds
<1>3. c2s' \in Seq(PDU(Kinds))
  BY <1>1, <1>2, Sent DEF WireTypes
<1> QED BY <1>2, <1>3 DEF WireTypes, serviceVars, sessionVars

\* The end of process().
LEMMA AfterAct ==
  ASSUME ClientPart, main = "act", branch' = "none", event' = NoEvent,
         UNCHANGED <<typed, late, raced, sawQuit, shut>>,
         main' \in {"listen", "stopped", "crashed"},
         state' \in Early \cup Late \cup {"main_init"},
         s_data' \in Seq(Priced), quit' \in BOOLEAN, sent' \in Nat,
         \/ t_synch' = t_synch /\ timer' \in {timer, Cancelled}
         \/ t_synch' = t_synch + 1 /\ t_synch' <= typed
              /\ timer' = [timer EXCEPT ![t_synch'] = "armed"],
         state' \in Auths \cup {"main_init", "main_connected"} => t_synch' = 0,
         state' = "main_auth_s" => typed > 0,
         state' = "upd_wait" /\ ~Over' => s_data' # <<>>
  PROVE  ClientPart'
<1> USE DEF ClientPart
<1>1. /\ HandsMatch' /\ BranchIsOfState' /\ BatchHasItsQuery'
  BY DEF HandsMatch, BranchIsOfState, BatchHasItsQuery, NoEvent
<1>2. /\ t_synch' \in Timers \cup {0} /\ t_synch' <= typed /\ MaxTyped \in Nat
      /\ t_synch \in Nat /\ t_synch' \in Nat
  BY ClientAssumption DEF ClientTypes, TimersMatch, Timers
<1>3. /\ timer' \in [Timers -> {"idle", "armed", "fired", "ending", "giving_up", "done"}]
      /\ \A t \in Timers : t > t_synch' => timer'[t] = "idle"
  <2>1. CASE timer' = timer /\ t_synch' = t_synch
    BY <2>1 DEF ClientTypes, TimersMatch
  <2>2. CASE timer' = Cancelled /\ t_synch' = t_synch
    BY <2>2 DEF ClientTypes, TimersMatch, Cancelled
  <2>3. CASE t_synch' = t_synch + 1 /\ timer' = [timer EXCEPT ![t_synch'] = "armed"]
    BY <1>2, <2>3 DEF ClientTypes, TimersMatch, Timers
  <2> QED BY <2>1, <2>2, <2>3
<1>4. ClientTypes'
  BY <1>2, <1>3 DEF ClientTypes
<1>5. TimersMatch'
  BY <1>2, <1>3 DEF TimersMatch, NoEvent, Early, Late
<1>6. QuitsMatch'
  <2>1. \A t \in Timers : timer'[t] # timer[t] => timer[t] \in {"idle", "armed"}
    BY <1>2 DEF ClientTypes, TimersMatch, Cancelled, Timers
  <2> QED BY <2>1 DEF QuitsMatch, ClientTypes
<1> QED BY <1>1, <1>4, <1>5, <1>6

LEMMA ActPart ==
  ASSUME ClientPart, WireTypes, Act, UNCHANGED <<serviceVars, sessionVars>>
  PROVE  ClientPart' /\ WireTypes'
<1>1. /\ ClientTypes /\ main = "act" /\ branch' = "none" /\ event' = NoEvent /\ typed' = typed
      /\ state \in Early \cup Late \cup {"main_init"}
      /\ s_data \in Seq(Priced) /\ quit \in BOOLEAN /\ sent \in Nat /\ typed \in Nat
      /\ event.type = "iSynch" => t_synch + 1 <= typed
      /\ state = "main_auth_s" => typed > 0
      /\ state \in Auths \cup {"main_init", "main_connected"} => t_synch = 0
      /\ branch \in Auths \cup {"main_connected"} => branch = state
      /\ state = "upd_wait" => s_data # <<>>
      /\ branch = "upd_wait" => s_data # <<>>
      /\ event.type = "iUpdate" => event.queries \in Seq(Priced)
  BY DEF ClientPart, ClientTypes, TimersMatch, Act, FirstRequest, Quit, AuthErr, AuthOK, NextRequest,
         UpdOK, Done, SynOK, QuitAfterSynch, Drop, In, BatchHasItsQuery, Over, HandsMatch, Auths
<1>2. ASSUME UNCHANGED <<wire, history>>
      PROVE  WireTypes' /\ sent' \in Nat /\ UNCHANGED <<late, raced, sawQuit, shut>>
  BY <1>1, <1>2, WireTypesLeft DEF wire, history
<1>3. ASSUME NEW type \in Kinds, Ask(type)
      PROVE  WireTypes' /\ sent' \in Nat /\ UNCHANGED <<late, raced, sawQuit, shut>>
  BY <1>1, <1>3, AskTypes
<1>4. \A stop : LoopUnless(stop) => main' \in {"listen", "stopped", "crashed"}
  BY DEF LoopUnless
<1>5. Loop => main' \in {"listen", "stopped", "crashed"}
  BY <1>4 DEF Loop
<1> DEFINE Goal == ClientPart' /\ WireTypes'
<1>6. CASE FirstRequest
  <2>1. event.type \in Requests /\ branch = "main_connected" /\ state = "main_connected"
    BY <1>1, <1>6 DEF FirstRequest
  <2>2. /\ state' \in Auths /\ (state' = "main_auth_s" => event.type = "iSynch")
        /\ s_data' \in Seq(Priced)
    <3>1. CASE event.type = "iUpdate"
      BY <1>1, <1>6, <3>1 DEF FirstRequest, AuthState, Auths, Queries
    <3>2. CASE event.type # "iUpdate"
      <4> HIDE DEF Priced
      <4>1. s_data' = <<>> /\ s_data' \in Seq(Priced)
        BY <1>6, <3>2 DEF FirstRequest, Queries
      <4> QED BY <1>6, <2>1, <3>2, <4>1 DEF FirstRequest, AuthState, Auths, Requests
    <3> QED BY <3>1, <3>2
  <2>3. "cAuth" \in Kinds /\ Ask("cAuth") /\ Loop /\ UNCHANGED <<quit, t_synch, timer>>
    BY <1>6 DEF FirstRequest, Kinds
  <2>4. WireTypes' /\ sent' \in Nat /\ UNCHANGED <<late, raced, sawQuit, shut>>
    BY <1>3, <2>3
  <2>5. state' \in Early /\ state' # "upd_wait"
    BY <2>2 DEF Auths, Early
  <2>6. t_synch' = 0 /\ (state' = "main_auth_s" => typed > 0)
    BY <1>1, <2>1, <2>2, <2>3 DEF Auths
  <2> QED BY <1>1, <1>5, <2>2, <2>3, <2>4, <2>5, <2>6, AfterAct
\* Where nothing is sent.
<1>7. ASSUME UNCHANGED <<t_synch, wire, history>>, timer' \in {timer, Cancelled},
             main' \in {"listen", "stopped", "crashed"}, quit' \in BOOLEAN,
             \/ state' = state /\ s_data' = s_data
             \/ state' \in {"main_ready", "syn_wait_quit"} /\ s_data' \in Seq(Priced)
      PROVE  Goal
  <2>1. WireTypes' /\ sent' \in Nat /\ UNCHANGED <<late, raced, sawQuit, shut>>
    BY <1>2, <1>7
  <2>2. CASE state' = state /\ s_data' = s_data
    BY <1>1, <1>7, <2>1, <2>2, AfterAct
  <2>3. CASE state' \in {"main_ready", "syn_wait_quit"} /\ s_data' \in Seq(Priced)
    <3>1. /\ state' \in Early \cup Late /\ state' # "upd_wait" /\ state' # "main_auth_s"
          /\ state' \notin Auths \cup {"main_init", "main_connected"}
      BY <2>3 DEF Early, Late, Auths
    <3> QED BY <1>1, <1>7, <2>1, <2>3, <3>1, AfterAct
  <2> QED BY <1>7, <2>2, <2>3
<1>8. CASE Quit \/ AuthErr
  BY <1>1, <1>4, <1>7, <1>8 DEF Quit, AuthErr
<1>9. CASE Drop \/ Done \/ QuitAfterSynch
  BY <1>1, <1>5, <1>7, <1>9 DEF Drop, Done, QuitAfterSynch, globals
<1>10. CASE SynOK
  BY <1>1, <1>4, <1>5, <1>7, <1>10 DEF SynOK
\* Where a request is sent.
<1>11. ASSUME NEW type \in Kinds, Ask(type), Loop, UNCHANGED <<quit, t_synch, timer>>,
              state' \in {"upd_wait", "dwn_wait"} \/ state' = state,
              s_data' \in Seq(Priced), state' = "upd_wait" => s_data' # <<>>
       PROVE  Goal
  <2>1. WireTypes' /\ sent' \in Nat /\ UNCHANGED <<late, raced, sawQuit, shut>>
    BY <1>3, <1>11
  <2>2. CASE state' = state
    BY <1>1, <1>5, <1>11, <2>1, <2>2, AfterAct
  <2>3. CASE state' \in {"upd_wait", "dwn_wait"}
    <3>1. /\ state' \in Late /\ state' # "main_auth_s"
          /\ state' \notin Auths \cup {"main_init", "main_connected"}
      BY <2>3 DEF Late, Auths
    <3> QED BY <1>1, <1>5, <1>11, <2>1, <3>1, AfterAct
  <2> QED BY <1>11, <2>2, <2>3
<1>12. ASSUME NEW queries \in Seq(Priced), StartUpdate(queries)
       PROVE  Goal
  <2>1. CASE queries = <<>>
    <3>1. /\ main' = "crashed" /\ UNCHANGED <<wire, history, quit, t_synch, timer>>
          /\ state' = "upd_wait" /\ s_data' = queries
      BY <1>12, <2>1 DEF StartUpdate
    <3>2. WireTypes' /\ sent' \in Nat /\ UNCHANGED <<late, raced, sawQuit, shut>>
      BY <1>2, <3>1
    <3>3. /\ state' \in Late /\ state' # "main_auth_s" /\ Over'
          /\ state' \notin Auths \cup {"main_init", "main_connected"}
      BY <3>1 DEF Late, Auths, Over
    <3> QED BY <1>1, <1>12, <3>1, <3>2, <3>3, AfterAct
  <2>2. CASE queries # <<>>
    <3>1. "cUpdate" \in Kinds /\ Ask("cUpdate") /\ Loop /\ UNCHANGED <<quit, t_synch, timer>>
      BY <1>12, <2>2 DEF StartUpdate, Kinds
    <3> QED BY <1>11, <1>12, <2>2, <3>1 DEF StartUpdate
  <2> QED BY <2>1, <2>2
<1>13. ASSUME StartDownload
       PROVE  Goal
  BY <1>1, <1>11, <1>13 DEF StartDownload, Kinds
<1>14. ASSUME StartSynch, t_synch + 1 <= typed
       PROVE  Goal
  <2>1. "cSynch" \in Kinds /\ Ask("cSynch") /\ Loop /\ UNCHANGED <<s_data, quit>>
    BY <1>14 DEF StartSynch, Kinds
  <2>2. WireTypes' /\ sent' \in Nat /\ UNCHANGED <<late, raced, sawQuit, shut>>
    BY <1>3, <2>1
  <2>3. /\ state' = "syn_wait" /\ t_synch' = t_synch + 1
        /\ timer' = [timer EXCEPT ![t_synch'] = "armed"]
    BY <1>14 DEF StartSynch
  <2>4. /\ state' \in Late /\ state' # "main_auth_s" /\ state' # "upd_wait"
        /\ state' \notin Auths \cup {"main_init", "main_connected"}
    BY <2>3 DEF Late, Auths
  <2> QED BY <1>1, <1>5, <1>14, <2>1, <2>2, <2>3, <2>4, AfterAct
<1>15. CASE AuthOK
  <2>1. In("main_auth_s", "sAuthOK") => t_synch + 1 <= typed
    <3>1. In("main_auth_s", "sAuthOK") => state = "main_auth_s"
      BY <1>1 DEF In, Auths
    <3>2. state = "main_auth_s" => t_synch = 0 /\ typed > 0
      BY <1>1 DEF Auths
    <3>3. typed \in Nat
      BY <1>1 DEF ClientTypes
    <3> QED BY <3>1, <3>2, <3>3
  <2> QED BY <1>1, <1>12, <1>13, <1>14, <1>15, <2>1 DEF AuthOK
<1>16. CASE NextRequest
  BY <1>1, <1>12, <1>13, <1>14, <1>16 DEF NextRequest, In
<1>17. CASE UpdOK
  <2>1. s_data # <<>> /\ Tail(s_data) \in Seq(Priced)
    BY <1>1, <1>17 DEF UpdOK, In
  <2>2. s_data' = Tail(s_data) /\ UNCHANGED <<quit, t_synch, timer>> /\ "cUpdate" \in Kinds
    BY <1>17 DEF UpdOK, p_updRem, Kinds
  <2>3. CASE Tail(s_data) # <<>>
    <3>1. Ask("cUpdate") /\ Loop /\ state' = state
      BY <1>17, <2>3 DEF UpdOK, p_updRem
    <3> QED BY <1>11, <2>1, <2>2, <2>3, <3>1
  <2>4. CASE Tail(s_data) = <<>>
    <3>1. state' = "main_ready" /\ Loop /\ UNCHANGED <<wire, history>>
      BY <1>17, <2>4 DEF UpdOK, p_updRem
    <3> QED BY <1>1, <1>5, <1>7, <2>1, <2>2, <3>1
  <2> QED BY <2>3, <2>4
<1> QED BY <1>6, <1>8, <1>9, <1>10, <1>15, <1>16, <1>17 DEF Act

\* The client's other steps.
LEMMA DispatchPart ==
  ASSUME ClientPart, main = "listen", NEW e, Dispatch(e),
         \/ e.type \in Requests \cup {"iQuit"}
         \/ e \in PDU(Replies),
         e.type = "iUpdate" => e.queries \in Seq(Priced),
         UNCHANGED <<globals, timer, shut, history>>,
         \/ typed' = typed /\ e.type # "iSynch"
         \/ typed' = typed + 1 /\ typed' <= MaxTyped
  PROVE  ClientPart'
<1> HIDE DEF PDU, Priced
<1>1. /\ UNCHANGED <<state, s_data, quit, t_synch, timer, shut, sent, late, raced, sawQuit>> /\ event' = e
      /\ state \in Early => main' = "act" /\ branch' = state
      /\ state \notin Early => main' = "again" /\ branch' = branch
      /\ typed \in Nat /\ t_synch \in Nat /\ t_synch <= typed
  BY DEF ClientPart, ClientTypes, TimersMatch, Timers, Dispatch, globals, history
<1>2. ClientTypes'
  BY <1>1 DEF ClientPart, ClientTypes
<1>3. HandsMatch'
  BY <1>1 DEF ClientPart, HandsMatch, Early
<1>4. BatchHasItsQuery' /\ BranchIsOfState' /\ QuitsMatch'
  BY <1>1 DEF ClientPart, BatchHasItsQuery, BranchIsOfState, QuitsMatch, Over, Early
<1>5. TimersMatch'
  <2>1. t_synch + (IF e.type = "iSynch" THEN 1 ELSE 0) <= typed' /\ typed' <= MaxTyped /\ typed' >= typed
    BY <1>1, ClientAssumption DEF ClientPart, TimersMatch
  <2> QED BY <1>1, <2>1 DEF ClientPart, TimersMatch
<1> QED BY <1>2, <1>3, <1>4, <1>5 DEF ClientPart

LEMMA SaysPart ==
  ASSUME ClientPart, WireTypes, NEW line \in Lines, ClientSays(line)
  PROVE  ClientPart' /\ WireTypes'
<1> DEFINE e == read_stdin(line)
<1>1. /\ main = "listen" /\ typed < MaxTyped /\ typed' = typed + 1
      /\ UNCHANGED <<globals, timer, wire, history>> /\ UNCHANGED <<serviceVars, sessionVars>>
      /\ \/ main' = "crashed" /\ UNCHANGED <<branch, event>>
         \/ Loop /\ UNCHANGED <<branch, event>>
         \/ e \notin {Nothing, Exception} /\ Dispatch(e)
  BY DEF ClientSays, ReadStdin
<1>2. WireTypes'
  BY <1>1, WireTypesLeft DEF wire
<1>3. typed' <= MaxTyped /\ line \in Line
  BY <1>1, ClientAssumption DEF ClientPart, ClientTypes
<1>4. CASE e \notin {Nothing, Exception} /\ Dispatch(e)
  <2>1. /\ e.type \in Requests \cup {"iQuit"}
        /\ e.type = "iUpdate" => e.queries \in Seq(Priced)
    BY <1>3, <1>4, StdinEvents
  <2> HIDE DEF e
  <2> QED BY <1>1, <1>2, <1>3, <1>4, <2>1, DispatchPart DEF wire
<1>5. CASE (main' = "crashed" \/ Loop) /\ UNCHANGED <<branch, event>>
  <2>1. /\ main' \in {"listen", "stopped", "crashed"} /\ typed' \in Nat
        /\ UNCHANGED <<state, s_data, quit, t_synch, timer, shut, sent, late, raced, sawQuit>>
    BY <1>1, <1>5 DEF Loop, LoopUnless, globals, wire, history, ClientPart, ClientTypes
  <2>2. t_synch \in Nat /\ t_synch <= typed' /\ typed' \in Nat /\ typed' > 0
    BY <1>1, <2>1 DEF ClientPart, ClientTypes, TimersMatch, Timers
  <2>3. ClientTypes'
    BY <1>5, <2>1 DEF ClientPart, ClientTypes
  <2>4. HandsMatch' /\ BatchHasItsQuery' /\ BranchIsOfState' /\ QuitsMatch'
    BY <1>1, <1>5, <2>1 DEF ClientPart, HandsMatch, BatchHasItsQuery, BranchIsOfState, QuitsMatch, Over
  <2>5. TimersMatch'
    BY <1>3, <2>1, <2>2 DEF ClientPart, TimersMatch
  <2> QED BY <1>2, <2>3, <2>4, <2>5 DEF ClientPart
<1> QED BY <1>1, <1>4, <1>5

LEMMA HearsPart ==
  ASSUME ClientPart, WireTypes, NEW k \in DOMAIN s2c, ClientHears(k)
  PROVE  ClientPart' /\ WireTypes'
<1>1. /\ main = "listen" /\ s2c' = SubSeq(s2c, k + 1, Len(s2c))
      /\ UNCHANGED <<globals, timer, c2s, shut, typed, history>>
      /\ UNCHANGED <<serviceVars, number, hup>> /\ swallowed' \in Nat
  BY DEF ClientHears, ReadTcp, WireTypes
<1>2. PICK e \in Received(SubSeq(s2c, 1, k)) :
        IF e = <<>> THEN Loop /\ UNCHANGED <<branch, event>> ELSE Dispatch(e[1])
  BY DEF ClientHears, ReadTcp
<1> HIDE DEF PDU, Replies
<1>3. s2c' \in Seq(PDU(Replies)) /\ s2c \in Seq(PDU(Replies))
  BY <1>1, Cutting DEF WireTypes
<1>4. WireTypes'
  BY <1>1, <1>3 DEF WireTypes, serviceVars
<1>5. e = <<>> \/ e[1] \in PDU(Replies)
  <2>1. ASSUME NEW j \in 1..k, e = <<s2c[j]>>, j \in DOMAIN s2c
        PROVE  e[1] \in PDU(Replies)
    BY <1>3, <2>1
  <2> QED BY <1>3, <2>1, Heard
<1>6. CASE e = <<>>
  <2>1. /\ main' \in {"listen", "stopped", "crashed"} /\ UNCHANGED <<branch, event, typed>>
        /\ UNCHANGED <<state, s_data, quit, t_synch, timer, shut, sent, late, raced, sawQuit>>
    BY <1>1, <1>2, <1>6 DEF Loop, LoopUnless, globals, history
  <2> QED BY <1>1, <1>4, <2>1 DEF ClientPart, ClientTypes, HandsMatch, BatchHasItsQuery,
            BranchIsOfState, QuitsMatch, TimersMatch, Over
<1>7. CASE e # <<>>
  <2> DEFINE r == e[1]
  <2>1. Dispatch(r) /\ r \in PDU(Replies)
    BY <1>2, <1>5, <1>7
  <2> HIDE DEF r
  <2>2. r.type # "iSynch" /\ r.type # "iUpdate"
    BY <2>1 DEF PDU, Replies
  <2> QED BY <1>1, <1>4, <2>1, <2>2, DispatchPart
<1> QED BY <1>6, <1>7

\* The steps that read the end of a channel, connect, and look at the state again.
LEMMA RestPart ==
  ASSUME ClientPart, WireTypes, ClientHearsEnd \/ StdinEnds \/ ClientConnects
           \/ (Again /\ UNCHANGED <<serviceVars, sessionVars>>)
  PROVE  ClientPart' /\ WireTypes'
<1> USE DEF ClientPart, ClientTypes, HandsMatch, BatchHasItsQuery, BranchIsOfState, TimersMatch,
            QuitsMatch, Over, globals, wire, history
<1>1. CASE ClientHearsEnd \/ StdinEnds
  <2>1. /\ main = "listen" /\ main' \in {"stopped", "crashed"} /\ quit' \in BOOLEAN
        /\ UNCHANGED <<state, s_data, t_synch, branch, event, timer, wire, typed, history>>
        /\ UNCHANGED <<serviceVars, sessionVars>>
    BY <1>1 DEF ClientHearsEnd, StdinEnds, ReadEnd, Crash
  <2>2. WireTypes'
    BY <2>1, WireTypesLeft
  <2> QED BY <2>1, <2>2
<1>2. CASE ClientConnects
  <2>1. /\ main = "boot" /\ state = "main_init" /\ main' \in {"listen", "stopped"}
        /\ state' \in {"main_init", "main_connected"}
        /\ UNCHANGED <<s_data, quit, t_synch, branch, event, timer, wire, typed, history>>
    BY <1>2 DEF ClientConnects, Connect
  <2>2. WireTypes'
    BY <1>2, <2>1 DEF ClientConnects, WireTypes, Open, serviceVars, sessionVars, Stages
  <2> QED BY <2>1, <2>2 DEF Early, Late, Auths
<1>3. CASE Again /\ UNCHANGED <<serviceVars, sessionVars>>
  <2>1. WireTypes'
    BY <1>3, WireTypesLeft DEF Again
  <2> QED BY <1>3, <2>1 DEF Again, Early, Late, Auths
<1> QED BY <1>1, <1>2, <1>3

LEMMA TimerPart ==
  ASSUME ClientPart, WireTypes, NEW t \in Timers, TimerWorks(t)
  PROVE  ClientPart' /\ WireTypes'
<1> USE DEF ClientPart, ClientTypes, HandsMatch, BatchHasItsQuery, BranchIsOfState, TimersMatch,
            QuitsMatch, Over, globals, wire, history
<1>1. /\ timer[t] # "idle" /\ UNCHANGED <<s_data, t_synch, main, branch, event, c2s, s2c, typed, sent>>
      /\ UNCHANGED <<serviceVars, sessionVars>>
      /\ \E to \in {"fired", "ending", "giving_up", "done"} : timer' = [timer EXCEPT ![t] = to]
  BY DEF TimerWorks, Timer, GoOff, TestState, Tests, EndClient, GiveUp
<1>2. WireTypes'
  BY <1>1, WireTypesLeft
<1>3. t <= t_synch /\ t_synch # 0 /\ t \in Nat /\ t_synch \in Nat
  BY <1>1 DEF Timers
<1>4. /\ timer' \in [Timers -> {"idle", "armed", "fired", "ending", "giving_up", "done"}]
      /\ \A u \in Timers : u > t_synch => timer'[u] = "idle"
  BY <1>1, <1>3
<1>5. state \notin Auths \cup {"main_init", "main_connected"}
  BY <1>3
<1>6. CASE GiveUp(t)
  <2>1. /\ timer[t] = "giving_up" /\ timer'[t] = "done" /\ state' = "main_ready" /\ late'
        /\ raced' = (raced \/ state # "syn_wait" \/ (main = "act" /\ branch = "syn_wait"))
        /\ UNCHANGED <<quit, shut, sawQuit>>
    BY <1>6 DEF GiveUp
  <2>2. t \notin sawQuit
    BY <2>1
  <2>3. ClientTypes' /\ HandsMatch' /\ BatchHasItsQuery'
    BY <1>1, <1>4, <2>1 DEF Early
  <2>4. TimersMatch'
    BY <1>1, <1>4, <1>5, <2>1 DEF Auths
  <2>5. BranchIsOfState'
    BY <1>1, <2>1
  <2>6. QuitsMatch'
    BY <1>1, <2>1, <2>2
  <2> QED BY <1>2, <2>3, <2>4, <2>5, <2>6
<1>7. CASE GoOff(t) \/ TestState(t) \/ EndClient(t)
  <2>1. UNCHANGED <<state, raced, late>> /\ quit' \in BOOLEAN /\ shut' \in BOOLEAN
    BY <1>7 DEF GoOff, TestState, Tests, EndClient
  <2>4. /\ sawQuit' \subseteq Timers
        /\ \A u \in sawQuit' : timer'[u] \in {"ending", "done"}
    BY <1>7 DEF GoOff, TestState, Tests, EndClient
  <2>2. ClientTypes' /\ HandsMatch' /\ BatchHasItsQuery' /\ BranchIsOfState' /\ QuitsMatch'
    BY <1>1, <1>4, <2>1, <2>4
  <2>3. TimersMatch'
    BY <1>1, <1>4, <2>1
  <2> QED BY <1>2, <2>2, <2>3
<1> QED BY <1>6, <1>7 DEF TimerWorks, Timer
-----------------------------------------------------------------------------
\* What the client's steps do to the PDUs under way.

\* Used up by a step of the client, if it held one.
LEMMA UsedUp ==
  ASSUME NEW W, main' \notin {"again", "act"}, UNCHANGED <<wire, history, serviceVars, sessionVars>>
  PROVE  /\ One(W) => One(W)'
         /\ OfLast(W) => OfLast(W)'
         /\ NoneOf(W) => NoneOf(W)'
         /\ One(W) /\ Holding(W) => NoneOf(W)'
<1>1. UNCHANGED <<c2s, s2c, sent, number, stage, doing>> /\ ~Holding(W)'
  BY DEF wire, history, serviceVars, sessionVars, Holding
<1>2. Working(W)' = Working(W)
  BY <1>1 DEF Working
<1> QED BY <1>1, <1>2, Fewer

\* A step of the automaton, if the branch is that of the state.
LEMMA ActParity ==
  ASSUME ClientPart, WireTypes, Act, UNCHANGED <<serviceVars, sessionVars>>,
         branch \in {state, "none"},
         NEW W, Family(W), NEW quiet,
         \/ quiet = Idle /\ "cSynch" \in W
         \/ quiet = Idle \cup Synching /\ "cSynch" \notin W,
         Parity(W, quiet)
  PROVE  Parity(W, quiet)'
<1>1. /\ One(W) /\ OfLast(W) /\ (state \in quiet => NoneOf(W))
      /\ Idle \subseteq quiet /\ sent \in Nat
      /\ {"cAuth", "cUpdate", "cDownload", "sAuthOK", "sUpdOK", "sUpdErr", "sDwnInfo"} \subseteq W
      /\ main = "act"
  BY DEF Parity, ClientPart, ClientTypes, Family, AllTypes, Replies, Act, FirstRequest, Quit,
         AuthErr, AuthOK, NextRequest, UpdOK, Done, SynOK, QuitAfterSynch, Drop, In
<1>2. ASSUME NEW b, NEW r, r \in W \cap Replies, In(b, r)
      PROVE  Holding(W)
  BY <1>2 DEF In, Holding, FromServer, Replies
<1>3. \A stop : LoopUnless(stop) => main' \notin {"again", "act"}
  BY DEF LoopUnless
<1>4. Loop => main' \notin {"again", "act"}
  BY <1>3 DEF Loop
\* A request that is sent when nothing but what it holds is under way.
<1>5. ASSUME NEW type \in Kinds, Ask(type), Loop, NoneOf(W) \/ Holding(W),
             type \in W => state' \notin quiet
      PROVE  Parity(W, quiet)'
  <2>1. ~Holding(W)' /\ UNCHANGED <<stage, doing>>
    BY <1>4, <1>5 DEF Holding, serviceVars
  <2>2. /\ One(W)' /\ OfLast(W)'
        /\ type \notin W => NoneOf(W)'
    <3> HIDE DEF PDU
    <3> QED BY <1>1, <1>5, <2>1, Asked DEF WireTypes
  <2> QED BY <1>5, <2>2 DEF Parity
\* Where nothing is sent.
<1>6. ASSUME UNCHANGED <<wire, history>>, main' \notin {"again", "act"},
             state' \in quiet => state \in quiet \/ Holding(W)
      PROVE  Parity(W, quiet)'
  <2>1. /\ One(W)' /\ OfLast(W)'
        /\ NoneOf(W) => NoneOf(W)'
        /\ Holding(W) => NoneOf(W)'
    BY <1>1, <1>6, UsedUp
  <2> QED BY <1>1, <1>6, <2>1 DEF Parity
<1>7. CASE FirstRequest
  <2>1. branch = state /\ branch \in Idle /\ state' \in Auths
    <3>1. branch = "main_connected" /\ event.type \in Requests
      BY <1>7 DEF FirstRequest
    <3> QED BY <1>7, <3>1 DEF FirstRequest, AuthState, Auths, Requests, Idle
  <2>2. NoneOf(W) /\ state' \notin quiet
    BY <1>1, <2>1 DEF Idle, Auths, Synching
  <2> QED BY <1>5, <1>7, <2>2 DEF FirstRequest, Kinds
<1>8. CASE Quit \/ AuthErr \/ Drop
  BY <1>3, <1>4, <1>6, <1>8 DEF Quit, AuthErr, Drop, globals
<1>9. CASE Done
  <2>1. Holding(W)
    BY <1>1, <1>2, <1>9 DEF Done, Replies
  <2> QED BY <1>4, <1>6, <1>9, <2>1 DEF Done
<1>10. CASE SynOK
  <2>1. branch \in Synching /\ branch = state
    BY <1>10 DEF SynOK, In, Synching
  <2>2. "cSynch" \in W => Holding(W)
    BY <1>2, <1>10 DEF SynOK, Family, Replies
  <2>3. state \in quiet \/ Holding(W)
    BY <2>1, <2>2
  <2>4. main' \notin {"again", "act"} /\ UNCHANGED <<wire, history>>
    BY <1>3, <1>4, <1>10 DEF SynOK
  <2> QED BY <1>6, <2>3, <2>4
<1>11. CASE QuitAfterSynch
  <2>1. branch = "syn_wait" /\ branch = state /\ state' = "syn_wait_quit"
    BY <1>11 DEF QuitAfterSynch, In
  <2>2. state' \in quiet => state \in quiet
    BY <2>1 DEF Synching, Idle
  <2> QED BY <1>4, <1>6, <1>11, <2>2 DEF QuitAfterSynch
<1>12. ASSUME NoneOf(W) \/ Holding(W), NEW queries, StartUpdate(queries)
       PROVE  Parity(W, quiet)'
  <2>1. state' = "upd_wait" /\ state' \notin quiet
    BY <1>12 DEF StartUpdate, Idle, Synching
  <2>2. CASE queries = <<>>
    BY <1>6, <1>12, <2>1, <2>2 DEF StartUpdate
  <2>3. CASE queries # <<>>
    BY <1>5, <1>12, <2>1, <2>3 DEF StartUpdate, Kinds
  <2> QED BY <2>2, <2>3
<1>13. ASSUME NoneOf(W) \/ Holding(W), StartDownload
       PROVE  Parity(W, quiet)'
  <2>1. state' = "dwn_wait" /\ state' \notin quiet
    BY <1>13 DEF StartDownload, Idle, Synching
  <2> QED BY <1>5, <1>13, <2>1 DEF StartDownload, Kinds
<1>14. ASSUME NoneOf(W) \/ Holding(W), StartSynch
       PROVE  Parity(W, quiet)'
  <2>1. state' = "syn_wait" /\ ("cSynch" \in W => state' \notin quiet)
    BY <1>14 DEF StartSynch, Idle, Synching
  <2> QED BY <1>5, <1>14, <2>1 DEF StartSynch, Kinds
<1>15. CASE AuthOK
  <2>1. Holding(W)
    BY <1>1, <1>2, <1>15 DEF AuthOK, Replies
  <2> QED BY <1>12, <1>13, <1>14, <1>15, <2>1 DEF AuthOK
<1>16. CASE NextRequest
  <2>1. NoneOf(W)
    BY <1>1, <1>16 DEF NextRequest, In, Idle
  <2> QED BY <1>12, <1>13, <1>14, <1>16, <2>1 DEF NextRequest
<1>17. CASE UpdOK
  <2>1. Holding(W) /\ branch = "upd_wait" /\ state = "upd_wait" /\ state \notin quiet
    <3>1. branch = "upd_wait" /\ state = "upd_wait" /\ In("upd_wait", "sUpdOK")
      BY <1>17 DEF UpdOK, In
    <3> QED BY <1>1, <1>2, <3>1 DEF Replies, Idle, Synching
  <2>2. \/ Ask("cUpdate") /\ Loop /\ state' = state
        \/ main' = "crashed" /\ UNCHANGED <<wire, history>>
        \/ Loop /\ UNCHANGED <<wire, history>>
    BY <1>17 DEF UpdOK
  <2> QED BY <1>4, <1>5, <1>6, <2>1, <2>2 DEF Kinds
<1> QED BY <1>7, <1>8, <1>9, <1>10, <1>11, <1>15, <1>16, <1>17 DEF Act

LEMMA ActKeeps ==
  ASSUME IInv, Act, UNCHANGED <<serviceVars, sessionVars>>
  PROVE  Alternation' /\ OthersAlternate'
<1>1. main = "act" /\ UNCHANGED <<late, raced>>
  BY DEF Act, FirstRequest, Quit, AuthErr, AuthOK, NextRequest, UpdOK, Done, SynOK, QuitAfterSynch,
         Drop, In, StartUpdate, StartDownload, StartSynch, Ask, history
<1>2. ~late => ~raced
  BY DEF IInv, ClientPart, TimersMatch
<1>3. ~raced => branch \in {state, "none"}
  BY <1>1 DEF IInv, ClientPart, BranchIsOfState
<1>4. "cSynch" \in AllTypes /\ "cSynch" \notin NoSynch
  BY DEF AllTypes, NoSynch
<1>5. ~late => Parity(AllTypes, Idle)'
  BY <1>2, <1>3, <1>4, Families, ActParity DEF IInv, Alternation
<1>6. ~raced => Parity(NoSynch, Idle \cup Synching)'
  BY <1>3, <1>4, Families, ActParity DEF IInv, OthersAlternate
<1> QED BY <1>1, <1>5, <1>6 DEF Alternation, OthersAlternate

\* A step that keeps the parity of each family.
LEMMA Keeping ==
  ASSUME Alternation, OthersAlternate, UNCHANGED <<late, raced>>,
         state' \in Idle => state \in Idle,
         state' \in Idle \cup Synching => state \in Idle \cup Synching,
         \A W : Family(W) => /\ One(W) => One(W)'
                             /\ One(W) /\ OfLast(W) => OfLast(W)'
                             /\ NoneOf(W) => NoneOf(W)'
  PROVE  Alternation' /\ OthersAlternate'
BY Families DEF Alternation, OthersAlternate, Parity

\* A step after which the client holds nothing new and the channels are the same.
LEMMA KeepingFewer ==
  ASSUME Alternation, OthersAlternate, UNCHANGED <<c2s, s2c, sent, number, late, raced, doing>>,
         stage' = "busy" => stage = "busy",
         \/ main' \in {"again", "act"} => main \in {"again", "act"} /\ event' = event
         \/ ~FromServer(event'),
         state' \in Idle => state \in Idle,
         state' \in Idle \cup Synching => state \in Idle \cup Synching
  PROVE  Alternation' /\ OthersAlternate'
<1>1. ASSUME NEW W
      PROVE  /\ One(W) => One(W)'
             /\ One(W) /\ OfLast(W) => OfLast(W)'
             /\ NoneOf(W) => NoneOf(W)'
  <2>1. (Working(W)' => Working(W)) /\ (Holding(W)' => Holding(W) /\ event' = event)
    BY DEF Working, Holding, FromServer
  <2> QED BY <2>1, Fewer
<1> QED BY <1>1, Keeping

\* Every step keeps the invariant.
LEMMA NextIInv == IInv /\ [Next]_vars => IInv'
<1> SUFFICES ASSUME IInv, [Next]_vars PROVE IInv'
  OBVIOUS
<1>1. ClientPart /\ WireTypes /\ Alternation /\ OthersAlternate
  BY DEF IInv
<1>2. CASE UNCHANGED vars
  <2>1. /\ UNCHANGED <<globals, threads, shut, typed, history, state, late, raced, main, event>>
        /\ UNCHANGED <<c2s, s2c, sent, number, doing, stage, serviceVars, sessionVars>>
    BY <1>2 DEF vars, clientVars, globals, threads, wire, history, serviceVars, sessionVars
  <2> QED BY <1>1, <2>1, ClientPartLeft, WireTypesLeft, KeepingFewer DEF IInv
<1>3. CASE ClientConnects
  <2>1. ClientPart' /\ WireTypes'
    BY <1>1, <1>3, RestPart
  <2>2. /\ UNCHANGED <<c2s, s2c, sent, number, late, raced, doing>>
        /\ stage' = "busy" => stage = "busy"
        /\ main' \notin {"again", "act"} /\ state' \in {state, "main_connected"} /\ state \in Idle
    BY <1>1, <1>3 DEF ClientConnects, Connect, Open, serviceVars, sessionVars, wire, history,
           ClientPart, TimersMatch, Idle
  <2> QED BY <1>1, <2>1, <2>2, KeepingFewer DEF IInv
<1>4. ASSUME NEW k \in DOMAIN s2c, ClientHears(k)
      PROVE  IInv'
  <2>1. ClientPart' /\ WireTypes'
    BY <1>1, <1>4, HearsPart
  <2>2. UNCHANGED <<state, late, raced>>
    BY <1>4 DEF ClientHears, ReadTcp, globals, history
  <2> QED BY <1>1, <1>4, <2>1, <2>2, ClientTook, Keeping DEF IInv
<1>5. CASE ClientHearsEnd \/ StdinEnds
  <2>1. ClientPart' /\ WireTypes'
    BY <1>1, <1>5, RestPart
  <2>2. /\ UNCHANGED <<c2s, s2c, sent, number, late, raced, doing, stage, state>>
        /\ main' \notin {"again", "act"}
    BY <1>5 DEF ClientHearsEnd, StdinEnds, ReadEnd, Crash, serviceVars, sessionVars, wire, history, globals
  <2> QED BY <1>1, <2>1, <2>2, KeepingFewer DEF IInv
<1>6. CASE ClientWorks
  <2>1. CASE Again /\ UNCHANGED <<serviceVars, sessionVars>>
    <3>1. ClientPart' /\ WireTypes'
      BY <1>1, <2>1, RestPart
    <3>2. /\ UNCHANGED <<c2s, s2c, sent, number, late, raced, doing, stage, state>>
          /\ main \in {"again", "act"} /\ event' = event
      BY <2>1 DEF Again, serviceVars, sessionVars, wire, history, globals
    <3> QED BY <1>1, <3>1, <3>2, KeepingFewer DEF IInv
  <2>2. CASE Act /\ UNCHANGED <<serviceVars, sessionVars>>
    BY <1>1, <2>2, ActPart, ActKeeps DEF IInv
  <2> QED BY <1>6, <2>1, <2>2 DEF ClientWorks
<1>7. ASSUME NEW line \in Lines, ClientSays(line)
      PROVE  IInv'
  <2>1. ClientPart' /\ WireTypes'
    BY <1>1, <1>7, SaysPart
  <2>2. UNCHANGED <<c2s, s2c, sent, number, late, raced, doing, stage, state>>
    BY <1>7 DEF ClientSays, ReadStdin, serviceVars, sessionVars, wire, history, globals
  <2>3. main' \notin {"again", "act"} \/ ~FromServer(event')
    <3> DEFINE e == read_stdin(line)
    <3>1. CASE e \notin {Nothing, Exception} /\ Dispatch(e)
      <4>1. line \in Line
        BY ClientAssumption
      <4>2. e.type \in Requests \cup {"iQuit"}
        BY <3>1, <4>1, StdinEvents
      <4> HIDE DEF e
      <4> QED BY <3>1, <4>2 DEF Dispatch, FromServer, Requests
    <3>2. CASE main' = "crashed" \/ Loop
      BY <3>2 DEF Loop, LoopUnless
    <3> QED BY <1>7, <3>1, <3>2 DEF ClientSays, ReadStdin
  <2> QED BY <1>1, <2>1, <2>2, <2>3, KeepingFewer DEF IInv
<1>8. ASSUME NEW t \in Timers, TimerWorks(t)
      PROVE  IInv'
  <2>1. ClientPart' /\ WireTypes'
    BY <1>1, <1>8, TimerPart
  <2>2. UNCHANGED <<c2s, s2c, sent, number, doing, stage, main, event>>
    BY <1>8 DEF TimerWorks, Timer, GoOff, TestState, Tests, EndClient, GiveUp, serviceVars, sessionVars,
           wire, history, globals
  <2>3. CASE GiveUp(t)
    <3>1. /\ late' /\ (~raced' => ~raced /\ state = "syn_wait")
          /\ Working(NoSynch)' = Working(NoSynch) /\ Holding(NoSynch)' = Holding(NoSynch)
      BY <2>2, <2>3 DEF GiveUp, Working, Holding
    <3>2. ~raced' => One(NoSynch) /\ OfLast(NoSynch) /\ NoneOf(NoSynch)
      BY <1>1, <3>1 DEF OthersAlternate, Parity, Synching
    <3>3. ~raced' => One(NoSynch)' /\ OfLast(NoSynch)' /\ NoneOf(NoSynch)'
      BY <2>2, <3>1, <3>2, Fewer
    <3> QED BY <2>1, <3>1, <3>3 DEF IInv, Alternation, OthersAlternate, Parity
  <2>4. CASE GoOff(t) \/ TestState(t) \/ EndClient(t)
    <3>1. UNCHANGED <<state, late, raced>>
      BY <2>4 DEF GoOff, TestState, Tests, EndClient, globals, history
    <3> QED BY <1>1, <2>1, <2>2, <3>1, KeepingFewer DEF IInv
  <2> QED BY <1>8, <2>3, <2>4 DEF TimerWorks, Timer
<1>9. ASSUME NEW k \in DOMAIN c2s, HandlerHears(k)
      PROVE  IInv'
  <2>1. ClientPart' /\ UNCHANGED <<state, late, raced>>
    BY <1>1, <1>9, ClientPartLeft DEF HandlerHears, globals, history
  <2>2. WireTypes'
    BY <1>1, <1>9, Families, HandlerTook
  <2> QED BY <1>1, <1>9, <2>1, <2>2, HandlerTook, Keeping DEF IInv
<1>10. CASE HandlerAnswers
  <2>1. ClientPart' /\ UNCHANGED <<state, late, raced>>
    BY <1>1, <1>10, ClientPartLeft DEF HandlerAnswers, globals, history
  <2>2. WireTypes'
    BY <1>1, <1>10, Families, HandlerAnswered
  <2> QED BY <1>1, <1>10, <2>1, <2>2, HandlerAnswered, Keeping DEF IInv
<1>11. CASE HandlerGivesUp \/ HandlerDies \/ NextClientAccepted \/ HandlerHangsUp
  <2>1. /\ UNCHANGED clientVars /\ UNCHANGED <<doing, number, swallowed>> /\ hup' \in BOOLEAN
        /\ stage' \in Stages \ {"busy"} \/ stage' = stage
    BY <1>1, <1>11 DEF HandlerGivesUp, HandlerDies, NextClientAccepted, HandlerHangsUp, LeaveUnanswered,
           Perish, Close, serviceVars, sessionVars, WireTypes, Stages
  <2>2. /\ UNCHANGED <<globals, threads, shut, typed, history>>
        /\ UNCHANGED <<c2s, s2c, sent, late, raced, main, event, state>>
    BY <2>1 DEF clientVars, globals, threads, wire, history
  <2>3. ClientPart'
    BY <1>1, <2>2, ClientPartLeft
  <2>4. WireTypes'
    BY <1>1, <2>1, <2>2 DEF WireTypes
  <2> QED BY <1>1, <2>1, <2>2, <2>3, <2>4, KeepingFewer DEF IInv
<1> QED BY <1>2, <1>3, <1>4, <1>5, <1>6, <1>7, <1>8, <1>9, <1>10, <1>11 DEF Next, Client, Handler
-----------------------------------------------------------------------------
\* The theorems.

LEMMA SpecInv == Spec => []IInv
BY InitIInv, NextIInv, PTL DEF Spec

\* Whatever is typed, received and timed, every global has its type, and p_updFile
\* and p_updRem find a query in the batch (client.py indexes it unguarded).
THEOREM BatchesHaveTheirQuery == Spec => []StateOK
<1>1. IInv => StateOK
  BY TheseAreItsTypes DEF IInv, ClientPart, StateOK
<1> QED BY <1>1, SpecInv, PTL

\* Until a timer of client.py gives up a synch, there is one PDU under way at a
\* time, in either channel, with the handler or with the main thread.
THEOREM OneAtATime == Spec => []OneInFlight
<1>1. ASSUME IInv PROVE OneInFlight
  <2> SUFFICES ASSUME ~late, NEW p \in InFlight, NEW q \in InFlight
               PROVE  p = q
    BY DEF OneInFlight
  <2>1. One(AllTypes) /\ WireTypes /\ HandsMatch
    BY <1>1 DEF IInv, Alternation, Parity, ClientPart
  <2>types. \A T : \A e \in PDU(T) : e.type \in T
    BY DEF PDU
  <2>all. /\ \A i \in DOMAIN c2s : c2s[i].type \in AllTypes
        /\ \A i \in DOMAIN s2c : s2c[i].type \in AllTypes
    <3> HIDE DEF PDU
    <3>1. /\ \A i \in DOMAIN c2s : c2s[i] \in PDU(Kinds)
          /\ \A i \in DOMAIN s2c : s2c[i] \in PDU(Replies)
      BY <2>1 DEF WireTypes
    <3>2. Kinds \subseteq AllTypes /\ Replies \subseteq AllTypes
      BY DEF Kinds, AllTypes
    <3> QED BY <2>types, <3>1, <3>2
  <2>2. Sending(AllTypes) = {i \in DOMAIN c2s : c2s[i].part # "tail"}
    BY <2>all DEF Sending
  <2>3. Answering(AllTypes) = {i \in DOMAIN s2c : s2c[i].part # "tail"}
    BY <2>all DEF Answering
  <2>4. stage = "busy" => Working(AllTypes)
    BY <2>1, AnswerKinds DEF WireTypes, AllTypes, Working
  <2>5. main \in {"again", "act"} /\ FromServer(event) => Holding(AllTypes)
    BY DEF FromServer, Holding, AllTypes, Replies
  <2>6. \A r \in InFlight :
          \/ \E i \in Sending(AllTypes) : r = <<"c2s", i>>
          \/ \E i \in Answering(AllTypes) : r = <<"s2c", i>>
          \/ r = <<"handler", 0>> /\ Working(AllTypes)
          \/ r = <<"client", 0>> /\ Holding(AllTypes)
    BY <2>2, <2>3, <2>4, <2>5 DEF InFlight
  <2> QED BY <2>1, <2>6 DEF One
<1> QED BY <1>1, SpecInv, PTL

\* The client takes an answer for the one to its last request only if it is: any
\* but an sSynOK unless a timer overtook the main thread, an sSynOK unless the
\* synch it answers was given up.
THEOREM AnswersAreItsOwn == Spec => TakesItsOwnAnswer
<1> DEFINE Takes == /\ UpdOK \/ Done \/ AuthOK => event.n = sent \/ raced
                    /\ SynOK => event.n = sent \/ late
<1>1. ASSUME IInv PROVE Takes
  <2>1. /\ ~late => OfLast(AllTypes)
        /\ ~raced => OfLast(NoSynch)
    BY <1>1 DEF IInv, Alternation, OthersAlternate, Parity
  <2>2. UpdOK \/ Done \/ AuthOK => Holding(NoSynch)
    BY DEF UpdOK, Done, AuthOK, In, Holding, FromServer, NoSynch, AllTypes, Replies
  <2>3. SynOK => Holding(AllTypes)
    BY DEF SynOK, In, Holding, FromServer, AllTypes, Replies
  <2> QED BY <2>1, <2>2, <2>3 DEF OfLast
<1>2. IInv /\ [Next]_vars => [Takes]_vars
  BY <1>1
<1> QED BY <1>2, SpecInv, PTL DEF Spec, TakesItsOwnAnswer

\* A quit typed during a synch is not forgotten: the branches of process() and
\* the timers leave syn_wait_quit as it is, but for a timer that had tested the
\* state before the quit came.
THEOREM QuitsAreKept == Spec => QuitIsKept
<1> DEFINE Kept == state = "syn_wait_quit" =>
                     \/ state' = "syn_wait_quit"
                     \/ \E t \in Timers \ sawQuit : timer[t] = "giving_up" /\ timer'[t] = "done"
<1>1. ASSUME IInv, Next PROVE Kept
  <2> SUFFICES ASSUME state = "syn_wait_quit"
               PROVE  \/ state' = "syn_wait_quit"
                      \/ \E t \in Timers \ sawQuit : timer[t] = "giving_up" /\ timer'[t] = "done"
    OBVIOUS
  <2>1. main = "act" => branch = "syn_wait_quit"
    BY <1>1 DEF IInv, ClientPart, QuitsMatch
  <2>2. main # "boot"
    BY <1>1 DEF IInv, ClientPart, TimersMatch
  <2>3. CASE Act
    <3>1. main = "act"
      BY <2>3 DEF Act, FirstRequest, Quit, AuthErr, AuthOK, NextRequest, UpdOK, Done, SynOK,
             QuitAfterSynch, Drop, In
    <3> QED BY <2>1, <2>3, <3>1 DEF Act, FirstRequest, Quit, AuthErr, AuthOK, NextRequest, UpdOK,
               Done, SynOK, QuitAfterSynch, Drop, In, globals
  <2>4. ASSUME NEW t \in Timers, TimerWorks(t)
        PROVE  \/ state' = state
               \/ t \notin sawQuit /\ timer[t] = "giving_up" /\ timer'[t] = "done"
    <3>1. CASE GiveUp(t)
      <4>1. timer[t] = "giving_up" /\ timer'[t] = "done"
        BY <1>1, <3>1 DEF GiveUp, IInv, ClientPart, ClientTypes
      <4>2. t \notin sawQuit
        BY <1>1, <4>1 DEF IInv, ClientPart, QuitsMatch
      <4> QED BY <4>1, <4>2
    <3>2. CASE ~GiveUp(t)
      BY <2>4, <3>2 DEF TimerWorks, Timer, GoOff, TestState, Tests, EndClient, globals
    <3> QED BY <3>1, <3>2
  <2>5. CASE ClientConnects
    BY <2>2, <2>5 DEF ClientConnects, Connect
  <2>6. CASE Again \/ (\E k \in DOMAIN s2c : ClientHears(k)) \/ ClientHearsEnd \/ StdinEnds
    BY <2>6 DEF Again, ClientHears, ReadTcp, ClientHearsEnd, StdinEnds, ReadEnd, Crash, globals
  <2>7. CASE \E line \in Lines : ClientSays(line)
    BY <2>7 DEF ClientSays, ReadStdin, globals
  <2>8. CASE Handler \/ HandlerDies \/ NextClientAccepted
    BY <2>8 DEF Handler, HandlerHears, HandlerAnswers, HandlerGivesUp, HandlerHangsUp, HandlerDies,
           NextClientAccepted, clientVars, globals
  <2> QED BY <1>1, <2>3, <2>4, <2>5, <2>6, <2>7, <2>8 DEF Next, Client, ClientWorks
<1>2. IInv /\ [Next]_vars => [Kept]_vars
  BY <1>1
<1> QED BY <1>2, SpecInv, PTL DEF Spec, QuitIsKept
=============================================================================
