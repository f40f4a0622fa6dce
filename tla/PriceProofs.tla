----------------------------- MODULE PriceProofs -----------------------------
(***************************************************************************)
(* Theorems about the prices that MainServer's threads pass on: where they *)
(* come from, and whom an answer to a synch names.                         *)
(***************************************************************************)
EXTENDS MainServerProofs

\* NoInventedPrices, taken apart: where rows may be, and those that are known.
TablesKnown == \A s \in Servers : db[s] \subseteq published /\ cache[s] \subseteq Sourced
LocalsKnown ==
  \A c \in Thr : loc[c].info \subseteq Sourced /\ loc[c].bests \subseteq Sourced
RepliesKnown == \A c \in Thr : out[c].type = "sDwnInfo" => out[c].rows \subseteq Sourced
JobsKnown == \A j \in jobs : j.info \subseteq Sourced /\ j.found \subseteq published
NetKnown == \A m \in net : m.type = "sDwnResp" => m.best \subseteq Sourced
QueuesKnown ==
  \A c \in Thr : \A i \in DOMAIN queue[c] :
    queue[c][i].type = "sDwnResp" => queue[c][i].best \subseteq Sourced

Known ==
  TablesKnown /\ LocalsKnown /\ RepliesKnown /\ JobsKnown /\ NetKnown /\ QueuesKnown

\* CulpritsArePublished, taken apart.
TrueCulprit(m) ==
  m.type = "sSynResp" =>
    \E r \in published : /\ r.store = m.re.store /\ r.item = m.re.item
                         /\ r.price = m.re.p1 /\ r.user = m.user

CulpritsKnown ==
  /\ \A m \in net : TrueCulprit(m)
  /\ \A c \in Thr : \A i \in DOMAIN queue[c] : TrueCulprit(queue[c][i])

LEMMA PublishedIsSourced == published \subseteq Sourced
BY DEF Sourced

LEMMA KnownIsNoInvention == Known => NoInventedPrices
<1> DEFINE caches == UNION {cache[s] : s \in Servers}
           locals == UNION {loc[c].info \cup loc[c].bests : c \in Thr}
           working == UNION {j.info : j \in jobs}
           answers == UNION {m.best : m \in {n \in net : n.type = "sDwnResp"}}
           queued == UNION {UNION {queue[c][i].best :
                        i \in {k \in DOMAIN queue[c] : queue[c][k].type = "sDwnResp"}}
                      : c \in Thr}
           replies == UNION {out[c].rows : c \in {d \in Thr : out[d].type = "sDwnInfo"}}
<1> SUFFICES ASSUME Known PROVE NoInventedPrices
  OBVIOUS
<1>1. caches \subseteq Sourced
  BY DEF Known, TablesKnown
<1>2. locals \subseteq Sourced
  BY DEF Known, LocalsKnown
<1>3. working \subseteq Sourced
  BY DEF Known, JobsKnown
<1>4. answers \subseteq Sourced
  BY DEF Known, NetKnown
<1>5. queued \subseteq Sourced
  BY DEF Known, QueuesKnown
<1>6. replies \subseteq Sourced
  BY DEF Known, RepliesKnown
<1>7. (UNION {db[s] : s \in Servers}) \cup (UNION {j.found : j \in jobs}) \subseteq published
  BY DEF Known, TablesKnown, JobsKnown
<1>8. RowsAbout = locals \cup working \cup answers \cup queued \cup replies
  BY DEF RowsAbout
<1> HIDE DEF locals, working, answers, queued, replies
<1>9. caches \cup RowsAbout \subseteq Sourced
  BY <1>1, <1>2, <1>3, <1>4, <1>5, <1>6, <1>8
<1> QED BY <1>7, <1>9 DEF NoInventedPrices

LEMMA InitKnown == Init => Known
<1> SUFFICES ASSUME Init PROVE Known
  OBVIOUS
<1>1. TablesKnown
  BY DEF Init, TablesKnown
<1>2. LocalsKnown /\ RepliesKnown /\ JobsKnown /\ NetKnown
  BY DEF Init, LocalsKnown, RepliesKnown, JobsKnown, NetKnown, NoLocals, NoReply
<1>3. QueuesKnown
  BY DEF Init, QueuesKnown
<1> QED BY <1>1, <1>2, <1>3 DEF Known
-----------------------------------------------------------------------------
\* What was published stays so.
LEMMA PublishedGrows ==
  ASSUME [Next]_vars
  PROVE  published \subseteq published' /\ Sourced \subseteq Sourced'
<1> SUFFICES published \subseteq published'
  BY DEF Sourced, Misread
<1>1. CASE UNCHANGED tableVars
  BY <1>1 DEF tableVars
<1>2. ASSUME NEW c \in Thr, \/ StoreUpdate(c) \/ GetName(c)
                            \/ \E r \in Menu[c] : RecvDownload(c, r)
                            \/ \E store \in Stores : ReadDb(c, store)
                            \/ \E row \in Row : GetAnswer(c, row)
      PROVE  published \subseteq published'
  BY <1>2 DEF StoreUpdate, GetName, RecvDownload, ReadDb, GetAnswer, WriteDb, Jam,
              tableVars
<1>3. ASSUME NEW j \in jobs, \/ JobCheck(j) \/ JobFix(j)
                            \/ \E store \in Stores : JobReadDb(j, store)
      PROVE  published \subseteq published'
  BY <1>3 DEF JobCheck, JobFix, JobReadDb, WriteDb, Jam, tableVars
<1>4. ASSUME NEW s \in Servers, Crash(s) PROVE published \subseteq published'
  BY <1>4 DEF Crash
<1> QED BY <1>1, <1>2, <1>3, <1>4, TableWriters

\* What is looked up in a known table is known.
LEMMA LookupKnown ==
  ASSUME IInv, Known, NEW s \in Servers, NEW store, NEW item
  PROVE  /\ Lookup(db[s], store, item) \subseteq published
         /\ Lookup(db[s], store, item) \subseteq Sourced
         /\ Lookup(cache[s], store, item) \subseteq Sourced
BY LookupRows, PublishedIsSourced DEF IInv, TypeOK, TablesOK, Known, TablesKnown

\* So is the row of a response that a handler takes.
LEMMA HeadKnown ==
  ASSUME IInv, Known, NEW c \in Thr, queue[c] # <<>>, Head(queue[c]).type = "sDwnResp"
  PROVE  Head(queue[c]).best \subseteq Sourced
<1>1. queue[c] \in Seq(DwnResp \cup SynResp)
  BY DEF IInv, TypeOK, MailOK
<1>2. 1 \in DOMAIN queue[c] /\ Head(queue[c]) = queue[c][1]
  BY <1>1
<1> QED BY <1>2 DEF Known, QueuesKnown

\* A name that GetName reads as a row is the name of a user with a row.
LEMMA NameKnown ==
  ASSUME IInv, CulpritsKnown, NEW c \in Thr, queue[c] # <<>>,
         Head(queue[c]).type = "sSynResp", Head(queue[c]).user \in DOMAIN Spelt
  PROVE  Spelt[Head(queue[c]).user] \in Sourced
<1>1. queue[c] \in Seq(DwnResp \cup SynResp)
  BY DEF IInv, TypeOK, MailOK
<1>2. 1 \in DOMAIN queue[c] /\ Head(queue[c]) = queue[c][1]
  BY <1>1
<1>3. PICK r \in published : r.user = Head(queue[c]).user
  BY <1>2 DEF CulpritsKnown, TrueCulprit
<1> QED BY <1>3 DEF Sourced, Misread

LEMMA TablesKnownNext ==
  ASSUME IInv, Known, CulpritsKnown, [Next]_vars
  PROVE  TablesKnown'
<1> USE DEF IInv, TypeOK, TablesOK, Known, TablesKnown
<1>h. \A c \in Thr : Home[c] \in Servers
  BY MainServerAssumption
<1>g. published \subseteq published' /\ Sourced \subseteq Sourced'
  BY PublishedGrows
<1>1. ASSUME NEW s \in Servers, NEW row, WriteDb(s, row), UNCHANGED cache
      PROVE  TablesKnown'
  BY <1>1, <1>g DEF WriteDb, Replaced
<1>2. ASSUME NEW s \in Servers, NEW row \in Sourced, WriteCache(s, row), UNCHANGED db
      PROVE  TablesKnown'
  BY <1>2, <1>g DEF WriteCache, Replaced
<1>3. CASE UNCHANGED <<db, cache>>
  BY <1>3, <1>g
<1>4. ASSUME NEW c \in Thr, StoreUpdate(c) PROVE TablesKnown'
  BY <1>4, <1>1, <1>3, <1>h DEF StoreUpdate, Jam
<1>5. ASSUME NEW c \in Thr, \/ \E r \in Menu[c] : RecvDownload(c, r)
                            \/ \E store \in Stores : ReadDb(c, store)
      PROVE  TablesKnown'
  <2>1. UNCHANGED <<db, cache>>
    BY <1>5 DEF RecvDownload, ReadDb, Jam, tableVars
  <2> QED BY <2>1, <1>3
<1>11. ASSUME NEW c \in Thr, GetName(c) PROVE TablesKnown'
  <2> DEFINE name == Head(queue[c]).user
  <2>1. CASE UNCHANGED tableVars \/ Jam(Home[c], "cache")
    BY <2>1, <1>3 DEF tableVars, Jam
  <2>2. CASE /\ name \in DOMAIN Spelt /\ WriteCache(Home[c], Spelt[name])
             /\ UNCHANGED <<db, stuck, published>>
    <3>1. Spelt[name] \in Sourced
      BY <1>11, <2>2, NameKnown DEF GetName
    <3> QED BY <2>2, <1>2, <1>h, <3>1
  <2> QED BY <1>11, <2>1, <2>2 DEF GetName
<1>6. ASSUME NEW c \in Thr, NEW row \in Row, GetAnswer(c, row) PROVE TablesKnown'
  <2>1. row \in Sourced
    BY <1>6, HeadKnown DEF GetAnswer
  <2> QED BY <1>6, <1>2, <1>h, <2>1 DEF GetAnswer
<1>7. ASSUME NEW j \in jobs, \/ JobCheck(j)
                             \/ \E store \in Stores : JobReadDb(j, store)
      PROVE  TablesKnown'
  <2>1. UNCHANGED <<db, cache>>
    BY <1>7 DEF JobCheck, JobReadDb, Jam, tableVars
  <2> QED BY <2>1, <1>3
<1>8. ASSUME NEW j \in jobs, JobFix(j) PROVE TablesKnown'
  <2>1. j.rqst.dst \in Servers
    BY DEF UdpOK, Job, DwnRqst, SynRqst
  <2> QED BY <1>8, <1>1, <1>3, <2>1 DEF JobFix, Jam
<1>9. ASSUME NEW s \in Servers, Crash(s) PROVE TablesKnown'
  BY <1>9, <1>g DEF Crash
<1>10. CASE UNCHANGED tableVars
  BY <1>10, <1>3 DEF tableVars
<1> QED BY <1>4, <1>5, <1>6, <1>7, <1>8, <1>9, <1>10, <1>11, TableWriters
-----------------------------------------------------------------------------
\* What handlers have in hand, and what they answer.

LEMMA DieKnown ==
  ASSUME IInv, Known, NEW c \in Thr, Die(c),
         published \subseteq published' /\ Sourced \subseteq Sourced'
  PROVE  LocalsKnown' /\ RepliesKnown'
BY DEF Die, Go, IInv, TypeOK, HandlersOK, Known, LocalsKnown, RepliesKnown, NoLocals

LEMMA AnswerKnown ==
  ASSUME IInv, Known, NEW c \in Thr, NEW reply, Answer(c, reply),
         reply.type = "sDwnInfo" => reply.rows \subseteq Sourced,
         published \subseteq published' /\ Sourced \subseteq Sourced'
  PROVE  LocalsKnown' /\ RepliesKnown'
BY DEF Answer, Go, IInv, TypeOK, HandlersOK, Known, LocalsKnown, RepliesKnown, NoLocals

LEMMA GoKnown ==
  ASSUME IInv, Known, NEW c \in Thr, NEW locals, loc' = [loc EXCEPT ![c] = locals],
         locals.info \subseteq Sourced, locals.bests \subseteq Sourced,
         UNCHANGED out, published \subseteq published' /\ Sourced \subseteq Sourced'
  PROVE  LocalsKnown' /\ RepliesKnown'
BY DEF IInv, TypeOK, HandlersOK, Known, LocalsKnown, RepliesKnown

LEMMA HandlersKnownFromClient ==
  ASSUME IInv, Known, [Next]_vars, NEW c \in Thr, FromClient(c)
  PROVE  LocalsKnown' /\ RepliesKnown'
<1>g. published \subseteq published' /\ Sourced \subseteq Sourced'
  BY PublishedGrows
<1>1. CASE Reset(c)
  BY <1>1, <1>g, DieKnown DEF Reset
<1>2. CASE Accept(c) \/ HangUp(c)
  BY <1>2, <1>g DEF Accept, HangUp, Known, LocalsKnown, RepliesKnown
<1>3. ASSUME NEW r \in Menu[c], Authenticate(c, r) \/ RefuseUpdate(c, r)
      PROVE  LocalsKnown' /\ RepliesKnown'
  <2>1. UNCHANGED loc
    BY <1>3 DEF Authenticate, RefuseUpdate
  <2>2. \E type \in {"sAuthOK", "sAuthErr", "sUpdErr"} : out' = [out EXCEPT ![c] = [type |-> type]]
    BY <1>3 DEF Authenticate, RefuseUpdate
  <2> QED BY <1>g, <2>1, <2>2 DEF IInv, TypeOK, HandlersOK, Known, LocalsKnown, RepliesKnown
<1>4. ASSUME NEW r \in Menu[c],
             RecvUpdate(c, r) \/ RecvDownload(c, r) \/ RecvSynch(c, r)
      PROVE  LocalsKnown' /\ RepliesKnown'
  <2>1. \/ loc' = [loc EXCEPT ![c] = NoLocals] \/ loc' = [loc EXCEPT ![c] = Scan(r)]
    BY <1>4 DEF RecvUpdate, RecvDownload, RecvSynch, Process, Go
  <2>2. out' = [out EXCEPT ![c] = NoReply]
    BY <1>4 DEF RecvUpdate, RecvDownload, RecvSynch, Process
  <2>3. /\ NoLocals.info = {} /\ NoLocals.bests = {}
        /\ Scan(r).info = {} /\ Scan(r).bests = {}
    BY DEF Scan, NoLocals
  <2>4. LocalsKnown'
    BY <1>g, <2>1, <2>3 DEF IInv, TypeOK, HandlersOK, Known, LocalsKnown
  <2>5. RepliesKnown'
    BY <1>g, <2>2 DEF IInv, TypeOK, HandlersOK, Known, RepliesKnown, NoReply
  <2> QED BY <2>4, <2>5
<1> QED BY <1>1, <1>2, <1>3, <1>4 DEF FromClient, Accept, HangUp

LEMMA HandlersKnownProceed ==
  ASSUME IInv, Known, [Next]_vars, NEW c \in Thr, Proceed(c)
  PROVE  LocalsKnown' /\ RepliesKnown'
<1>g. published \subseteq published' /\ Sourced \subseteq Sourced'
  BY PublishedGrows
<1>h. Home[c] \in Servers
  BY MainServerAssumption
<1>l. /\ loc[c].info \subseteq Sourced /\ loc[c].bests \subseteq Sourced
      /\ loc[c] \in Locals
  BY DEF Known, LocalsKnown, IInv, TypeOK, HandlersOK
<1>1. CASE StoreUpdate(c)
  BY <1>1, <1>g, DieKnown, AnswerKnown DEF StoreUpdate
<1>2. ASSUME NEW store \in Stores, ReadDb(c, store) PROVE LocalsKnown' /\ RepliesKnown'
  <2> DEFINE next == [loc[c] EXCEPT !.stores = @ \ {store}, !.at = {store},
                         !.info = @ \cup Lookup(db[Home[c]], store, Head(loc[c].items))]
  <2>1. next.info \subseteq Sourced /\ next.bests \subseteq Sourced
    BY <1>l, <1>h, LookupKnown DEF Locals
  <2> QED BY <1>2, <1>g, <2>1, DieKnown, GoKnown DEF ReadDb
<1>3. ASSUME NEW store \in Stores, ReadCache(c, store) PROVE LocalsKnown' /\ RepliesKnown'
  <2> DEFINE info == loc[c].info \cup Lookup(cache[Home[c]], store, Head(loc[c].items))
             next == [loc[c] EXCEPT !.at = {}, !.info = info]
  <2>1. next.info \subseteq Sourced /\ next.bests \subseteq Sourced
    BY <1>l, <1>h, LookupKnown DEF Locals
  <2>2. /\ Gather(rqst[c].items, c).info \subseteq Sourced
        /\ Gather(rqst[c].items, c).bests \subseteq Sourced
    BY DEF Gather, NoLocals
  <2> QED BY <1>3, <1>g, <2>1, <2>2, GoKnown DEF ReadCache, Go
<1>4. CASE PickBest(c)
  <2>1. PICK best \in Cheapest(loc[c].info) :
           \/ Answer(c, [type |-> "sDwnInfo", rows |-> loc[c].bests \cup {best}])
           \/ loc' = [loc EXCEPT ![c] = NextScan(c, best)] /\ UNCHANGED out
    BY <1>4 DEF PickBest
  <2>2. loc[c].bests \cup {best} \subseteq Sourced
    BY <1>l, <2>1, CheapestRows
  <2>3. NextScan(c, best).info \subseteq Sourced /\ NextScan(c, best).bests \subseteq Sourced
    BY <1>l, <2>2 DEF NextScan, Locals
  <2> QED BY <1>g, <2>1, <2>2, <2>3, AnswerKnown, GoKnown
<1>5. CASE PickNone(c)
  BY <1>5, <1>g, AnswerKnown DEF PickNone
<1>6. ASSUME NEW s \in Servers, Ask(c, s) PROVE LocalsKnown' /\ RepliesKnown'
  <2>1. /\ [loc[c] EXCEPT !.servers = @ \ {s}].info \subseteq Sourced
        /\ [loc[c] EXCEPT !.servers = @ \ {s}].bests \subseteq Sourced
    BY <1>l DEF Locals
  <2> QED BY <1>6, <1>g, <2>1, GoKnown DEF Ask, Go
<1>7. CASE NextItem(c)
  <2>1. /\ Scan(rqst[c]).info \subseteq Sourced /\ Scan(rqst[c]).bests \subseteq Sourced
        /\ Gather(Tail(loc[c].items), c).info \subseteq Sourced
        /\ Gather(Tail(loc[c].items), c).bests \subseteq Sourced
    BY DEF Scan, Gather, NoLocals
  <2> QED BY <1>7, <1>g, <2>1, GoKnown DEF NextItem, Go
<1>8. CASE DwnTimeout(c) \/ GetNothing(c)
  BY <1>8, <1>g, <1>l, GoKnown DEF DwnTimeout, GetNothing, Go
<1>9. CASE GetName(c) \/ \E row \in Row : GetAnswer(c, row)
  BY <1>9, <1>g, DieKnown DEF GetName, GetAnswer
<1>10. CASE GetSynch(c)
  BY <1>10, <1>g, AnswerKnown DEF GetSynch
<1>11. CASE SynTimeout(c)
  <2>1. NoLocals.info \subseteq Sourced /\ NoLocals.bests \subseteq Sourced
    BY DEF NoLocals
  <2> QED BY <1>11, <1>g, <2>1, GoKnown DEF SynTimeout, Go
<1> QED BY <1>1, <1>2, <1>3, <1>4, <1>5, <1>6, <1>7, <1>8, <1>9, <1>10, <1>11 DEF Proceed

LEMMA HandlersKnownNext ==
  ASSUME IInv, Known, [Next]_vars
  PROVE  LocalsKnown' /\ RepliesKnown'
<1>g. published \subseteq published' /\ Sourced \subseteq Sourced'
  BY PublishedGrows
<1>1. CASE UNCHANGED <<loc, out>>
  BY <1>1, <1>g DEF Known, LocalsKnown, RepliesKnown
<1>2. ASSUME NEW m \in net, Serve(m) \/ PutResponse(m) \/ Lose(m) PROVE UNCHANGED <<loc, out>>
  BY <1>2 DEF Serve, PutResponse, Lose, handlerVars
<1>3. ASSUME NEW j \in jobs, Work(j) PROVE UNCHANGED <<loc, out>>
  BY <1>3 DEF Work, JobReadDb, JobReadCache, JobAnswer, JobCheck, JobFix, handlerVars
<1>4. ASSUME NEW s \in Servers, Crash(s) PROVE LocalsKnown' /\ RepliesKnown'
  BY <1>4, <1>g DEF Crash, Known, LocalsKnown, RepliesKnown, NoLocals, NoReply
<1>5. CASE UNCHANGED vars
  BY <1>5, <1>1 DEF vars, handlerVars
<1> QED BY <1>1, <1>2, <1>3, <1>4, <1>5, HandlersKnownFromClient, HandlersKnownProceed DEF Next
-----------------------------------------------------------------------------
\* Jobs and datagrams.

LEMMA ReplaceKnown ==
  ASSUME Known, NEW j \in jobs, NEW k, Replace(j, k), k.info \subseteq Sourced,
         k.found \subseteq published,
         published \subseteq published' /\ Sourced \subseteq Sourced'
  PROVE  JobsKnown' /\ NetKnown'
BY DEF Replace, Known, JobsKnown, NetKnown

LEMMA FinishKnown ==
  ASSUME Known, NEW j \in jobs, NEW answers, Finish(j, answers),
         \A m \in answers : m.type = "sDwnResp" => m.best \subseteq Sourced,
         published \subseteq published' /\ Sourced \subseteq Sourced'
  PROVE  JobsKnown' /\ NetKnown'
BY DEF Finish, Known, JobsKnown, NetKnown

LEMMA WorkKnown ==
  ASSUME IInv, Known, [Next]_vars, NEW j \in jobs, Work(j)
  PROVE  JobsKnown' /\ NetKnown'
<1>g. published \subseteq published' /\ Sourced \subseteq Sourced'
  BY PublishedGrows
<1>j. /\ j.info \subseteq Sourced /\ j.found \subseteq published
      /\ j.rqst.dst \in Servers
      /\ j = [rqst |-> j.rqst, stores |-> j.stores, at |-> j.at,
              info |-> j.info, found |-> j.found]
  BY DEF Known, JobsKnown, IInv, TypeOK, UdpOK, Job, DwnRqst, SynRqst
<1>n. \A m \in {} : m.type = "sDwnResp" => m.best \subseteq Sourced
  OBVIOUS
<1>1. ASSUME NEW store \in Stores, JobReadDb(j, store) PROVE JobsKnown' /\ NetKnown'
  <2> DEFINE k == [j EXCEPT !.stores = @ \ {store}, !.at = {store},
                     !.info = @ \cup Lookup(db[j.rqst.dst], store, j.rqst.item)]
  <2>1. k.info \subseteq Sourced /\ k.found \subseteq published
    BY <1>j, LookupKnown
  <2>2. Replace(j, k) \/ Finish(j, {})
    BY <1>1 DEF JobReadDb
  <2> HIDE DEF k
  <2> QED BY <1>g, <1>n, <2>1, <2>2, ReplaceKnown, FinishKnown
<1>2. ASSUME NEW store \in Stores, JobReadCache(j, store) PROVE JobsKnown' /\ NetKnown'
  <2> DEFINE info == j.info \cup Lookup(cache[j.rqst.dst], store, j.rqst.item)
             k == [j EXCEPT !.at = {}, !.info = info]
  <2>1. k.info \subseteq Sourced /\ k.found \subseteq published
    BY <1>j, LookupKnown
  <2>2. DwnAnswer(j, {}).best = {}
    BY DEF DwnAnswer
  <2>3. Replace(j, k) \/ Finish(j, {DwnAnswer(j, {})})
    BY <1>2 DEF JobReadCache
  <2> HIDE DEF k
  <2> QED BY <1>g, <2>1, <2>2, <2>3, ReplaceKnown, FinishKnown
<1>3. CASE JobAnswer(j)
  <2>1. PICK best \in Cheapest(j.info) : Finish(j, {DwnAnswer(j, {best})})
    BY <1>3 DEF JobAnswer
  <2>2. DwnAnswer(j, {best}).best \subseteq Sourced
    BY <1>j, <2>1, CheapestRows DEF DwnAnswer
  <2> QED BY <1>g, <2>1, <2>2, FinishKnown
<1>4. CASE JobCheck(j)
  <2> DEFINE wrong == {r \in Lookup(db[j.rqst.dst], j.rqst.store, j.rqst.item) :
                         r.price = j.rqst.p1}
             k == [j EXCEPT !.found = wrong]
  <2>1. k.info \subseteq Sourced /\ k.found \subseteq published
    BY <1>j, LookupKnown
  <2>2. Replace(j, k) \/ Finish(j, {})
    BY <1>4 DEF JobCheck
  <2> HIDE DEF k
  <2> QED BY <1>g, <1>n, <2>1, <2>2, ReplaceKnown, FinishKnown
<1>5. CASE JobFix(j)
  <2>1. PICK wrong \in j.found : \/ Finish(j, {SynAnswer(j, wrong.user)})
                                 \/ Finish(j, {})
    BY <1>5 DEF JobFix
  <2>2. SynAnswer(j, wrong.user).type # "sDwnResp"
    BY DEF SynAnswer
  <2> QED BY <1>g, <1>n, <2>1, <2>2, FinishKnown
<1> QED BY <1>1, <1>2, <1>3, <1>4, <1>5 DEF Work

\* Handlers send requests only, and a thread starts with nothing read.
LEMMA UdpKnownNext ==
  ASSUME IInv, Known, [Next]_vars
  PROVE  JobsKnown' /\ NetKnown'
<1> USE DEF Known, JobsKnown, NetKnown
<1>g. published \subseteq published' /\ Sourced \subseteq Sourced'
  BY PublishedGrows
<1>1. CASE UNCHANGED udpVars
  BY <1>1, <1>g DEF udpVars
<1>2. ASSUME NEW m \in net, Serve(m) PROVE JobsKnown' /\ NetKnown'
  <2>1. Start(m).info = {} /\ Start(m).found = {}
    BY DEF Start
  <2> QED BY <1>2, <1>g, <2>1 DEF Serve
<1>3. ASSUME NEW m \in net, PutResponse(m) \/ Lose(m) PROVE JobsKnown' /\ NetKnown'
  BY <1>3, <1>g DEF PutResponse, Lose
<1>4. ASSUME NEW j \in jobs, Work(j) PROVE JobsKnown' /\ NetKnown'
  BY <1>4, WorkKnown
<1>5. ASSUME NEW c \in Thr, FromClient(c), \A r \in Menu[c] : ~RecvSynch(c, r)
      PROVE  UNCHANGED udpVars
  BY <1>5 DEF FromClient, Accept, HangUp, Reset, Authenticate, RecvUpdate,
              RefuseUpdate, RecvDownload, udpVars
<1>6. ASSUME NEW c \in Thr, NEW r \in Menu[c], RecvSynch(c, r)
      PROVE  JobsKnown' /\ NetKnown'
  BY <1>6, <1>g DEF RecvSynch
<1>7. ASSUME NEW c \in Thr, Proceed(c), \A s \in Servers : ~Ask(c, s)
      PROVE  UNCHANGED udpVars
  BY <1>7 DEF Proceed, StoreUpdate, ReadDb, ReadCache, PickBest, PickNone, NextItem,
              DwnTimeout, GetNothing, GetAnswer, GetName, GetSynch, SynTimeout, udpVars
<1>8. ASSUME NEW c \in Thr, NEW s \in Servers, Ask(c, s) PROVE JobsKnown' /\ NetKnown'
  BY <1>8, <1>g DEF Ask
<1>9. ASSUME NEW s \in Servers, Crash(s) PROVE JobsKnown' /\ NetKnown'
  BY <1>9, <1>g DEF Crash
<1>10. CASE UNCHANGED vars
  BY <1>10, <1>1 DEF vars
<1> QED BY <1>1, <1>2, <1>3, <1>4, <1>5, <1>6, <1>7, <1>8, <1>9, <1>10 DEF Next
-----------------------------------------------------------------------------
\* What is in a queue after a step came from the queue or from the network.
LEMMA QueueSteps ==
  ASSUME IInv, [Next]_vars, NEW c \in Thr, NEW i \in DOMAIN queue'[c]
  PROVE  \/ \E k \in DOMAIN queue[c] : queue'[c][i] = queue[c][k]
         \/ queue'[c][i] \in net
<1> DEFINE Goal == \/ \E k \in DOMAIN queue[c] : queue'[c][i] = queue[c][k]
                   \/ queue'[c][i] \in net
<1> USE DEF IInv, TypeOK, MailOK
<1>q. queue[c] \in Seq(DwnResp \cup SynResp)
  OBVIOUS
<1>1. CASE queue'[c] = queue[c] \/ queue'[c] = <<>>
  BY <1>1
<1>2. ASSUME NEW d \in Thr, queue[d] # <<>>, Take(d) PROVE Goal
  <2>1. CASE d = c
    <3>1. queue'[c] = Tail(queue[c])
      BY <1>2, <2>1 DEF Take
    <3>2. queue'[c][i] = queue[c][i + 1] /\ i + 1 \in DOMAIN queue[c]
      BY <1>q, <1>2, <2>1, <3>1
    <3> QED BY <3>2
  <2>2. CASE d # c
    BY <1>1, <1>2, <2>2 DEF Take
  <2> QED BY <2>1, <2>2
<1>3. ASSUME NEW d \in Thr, NewQueue(d) \/ Cleanup(d) PROVE Goal
  BY <1>1, <1>3 DEF NewQueue, Cleanup
<1>4. CASE UNCHANGED mailVars
  BY <1>4, <1>1 DEF mailVars
<1>5. ASSUME NEW d \in Thr, FromClient(d) PROVE Goal
  <2>1. UNCHANGED mailVars \/ NewQueue(d) \/ Cleanup(d)
    BY <1>5 DEF FromClient, Accept, HangUp, Reset, Authenticate, RecvUpdate,
                RefuseUpdate, RecvDownload, RecvSynch
  <2> QED BY <2>1, <1>3, <1>4
<1>6. ASSUME NEW d \in Thr, Proceed(d) PROVE Goal
  <2>1. UNCHANGED mailVars \/ NewQueue(d) \/ (queue[d] # <<>> /\ Take(d))
    BY <1>6 DEF Proceed, StoreUpdate, ReadDb, ReadCache, PickBest, PickNone, Ask,
                NextItem, DwnTimeout, GetNothing, GetAnswer, GetName, GetSynch,
                SynTimeout
  <2> QED BY <2>1, <1>2, <1>3, <1>4
<1>7. ASSUME NEW m \in net, PutResponse(m) PROVE Goal
  <2>1. queue'[c] = queue[c] \/ queue'[c] = Append(queue[c], m)
    BY <1>7 DEF PutResponse
  <2>2. ASSUME queue'[c] = Append(queue[c], m) PROVE Goal
    BY <1>q, <2>2
  <2> QED BY <1>1, <2>1, <2>2
<1>8. ASSUME NEW m \in net, Serve(m) \/ Lose(m) PROVE Goal
  BY <1>8, <1>4 DEF Serve, Lose
<1>9. ASSUME NEW j \in jobs, Work(j) PROVE Goal
  BY <1>9, <1>4 DEF Work, JobReadDb, JobReadCache, JobAnswer, JobCheck, JobFix
<1>10. ASSUME NEW s \in Servers, Crash(s) PROVE Goal
  BY <1>10, <1>1 DEF Crash
<1>11. CASE UNCHANGED vars
  BY <1>11, <1>4 DEF vars
<1> QED BY <1>5, <1>6, <1>7, <1>8, <1>9, <1>10, <1>11 DEF Next

LEMMA QueuesKnownNext ==
  ASSUME IInv, Known, [Next]_vars
  PROVE  QueuesKnown'
<1>1. published \subseteq published' /\ Sourced \subseteq Sourced'
  BY PublishedGrows
<1>2. ASSUME NEW c \in Thr, NEW i \in DOMAIN queue'[c], queue'[c][i].type = "sDwnResp"
      PROVE  queue'[c][i].best \subseteq Sourced
  BY <1>2, QueueSteps DEF Known, QueuesKnown, NetKnown
<1> QED BY <1>1, <1>2 DEF QueuesKnown

LEMMA NextKnown == IInv /\ Known /\ CulpritsKnown /\ [Next]_vars => Known'
BY TablesKnownNext, HandlersKnownNext, UdpKnownNext, QueuesKnownNext DEF Known

\* A datagram that a step adds is a request, a response to a download, or names
\* the author of a row that its job has read.
LEMMA NetSteps ==
  ASSUME [Next]_vars, NEW m \in net', m \notin net
  PROVE  \/ m.type # "sSynResp"
         \/ \E j \in jobs : \E wrong \in j.found :
              j.rqst.type = "sSynRqst" /\ m = SynAnswer(j, wrong.user)
<1> USE DEF udpVars
<1>1. ASSUME NEW c \in Thr, FromClient(c) PROVE m.type # "sSynResp"
  BY <1>1 DEF FromClient, Accept, HangUp, Reset, Authenticate, RecvUpdate,
              RefuseUpdate, RecvDownload, RecvSynch
<1>2. ASSUME NEW c \in Thr, Proceed(c) PROVE m.type # "sSynResp"
  <2>1. ASSUME NEW s \in Servers, Ask(c, s) PROVE m.type # "sSynResp"
    BY <2>1 DEF Ask
  <2>2. ASSUME \A s \in Servers : ~Ask(c, s) PROVE UNCHANGED udpVars
    BY <1>2, <2>2
       DEF Proceed, StoreUpdate, ReadDb, ReadCache, PickBest, PickNone, NextItem,
           DwnTimeout, GetNothing, GetAnswer, GetName, GetSynch, SynTimeout
  <2> QED BY <2>1, <2>2
<1>3. ASSUME NEW n \in net, Serve(n) \/ PutResponse(n) \/ Lose(n) PROVE FALSE
  BY <1>3 DEF Serve, PutResponse, Lose
<1>4. ASSUME NEW j \in jobs, NEW store \in Stores, JobReadDb(j, store) PROVE FALSE
  BY <1>4 DEF JobReadDb, Replace, Finish
<1>5. ASSUME NEW j \in jobs, NEW store \in Stores, JobReadCache(j, store)
      PROVE  m.type # "sSynResp"
  BY <1>5 DEF JobReadCache, Replace, Finish, DwnAnswer
<1>6. ASSUME NEW j \in jobs, JobAnswer(j) PROVE m.type # "sSynResp"
  BY <1>6 DEF JobAnswer, Finish, DwnAnswer
<1>7. ASSUME NEW j \in jobs, JobCheck(j) PROVE FALSE
  BY <1>7 DEF JobCheck, Replace, Finish
<1>8. ASSUME NEW j \in jobs, JobFix(j)
      PROVE  \E wrong \in j.found :
               j.rqst.type = "sSynRqst" /\ m = SynAnswer(j, wrong.user)
  BY <1>8 DEF JobFix, Finish, Synching
<1>9. ASSUME NEW s \in Servers, Crash(s) PROVE FALSE
  BY <1>9 DEF Crash
<1>10. CASE UNCHANGED vars
  BY <1>10 DEF vars
<1> QED
  BY <1>1, <1>2, <1>3, <1>4, <1>5, <1>6, <1>7, <1>8, <1>9, <1>10 DEF Next, Work

LEMMA CulpritsNext ==
  ASSUME IInv, Known, CulpritsKnown, [Next]_vars
  PROVE  CulpritsKnown'
<1>1. published \subseteq published'
  BY PublishedGrows
<1>2. ASSUME NEW m, TrueCulprit(m) PROVE TrueCulprit(m)'
  BY <1>1, <1>2 DEF TrueCulprit
<1>3. ASSUME NEW j \in jobs, NEW wrong \in j.found, j.rqst.type = "sSynRqst"
      PROVE  TrueCulprit(SynAnswer(j, wrong.user))
  <2>1. /\ wrong \in published /\ wrong.price = j.rqst.p1
        /\ wrong.store = j.rqst.store /\ wrong.item = j.rqst.item
    BY <1>3 DEF Known, JobsKnown, IInv, JobsMatch, Key
  <2> QED BY <2>1 DEF TrueCulprit, SynAnswer
<1>4. ASSUME NEW m \in net' PROVE TrueCulprit(m)
  <2>1. CASE m \in net
    BY <2>1 DEF CulpritsKnown
  <2>2. CASE m \notin net
    BY <1>3, <2>2, NetSteps DEF TrueCulprit
  <2> QED BY <2>1, <2>2
<1>5. ASSUME NEW c \in Thr, NEW i \in DOMAIN queue'[c] PROVE TrueCulprit(queue'[c][i])
  BY QueueSteps DEF CulpritsKnown
<1>6. \A m \in net' : TrueCulprit(m)'
  BY <1>2, <1>4
<1>7. \A c \in Thr : \A i \in DOMAIN queue'[c] : TrueCulprit(queue[c][i])'
  <2> SUFFICES ASSUME NEW c \in Thr, NEW i \in DOMAIN queue'[c]
               PROVE  TrueCulprit(queue[c][i])'
    OBVIOUS
  <2> QED BY <1>1, <1>5 DEF TrueCulprit
<1> QED BY <1>6, <1>7 DEF CulpritsKnown

\* Each of the two rests on the other: a name that is read as a row is the name
\* of somebody who published one.
LEMMA KnownAlways == Spec => [](Known /\ CulpritsKnown)
<1>1. Init => CulpritsKnown
  BY DEF Init, CulpritsKnown
<1> QED BY <1>1, InitIInv, NextIInv, InitKnown, NextKnown, CulpritsNext, PTL DEF Spec

\* What a database holds and what a correction rests on was published.  So was
\* a row in a cache, a queue, a datagram or a reply, through any number of
\* caches and crashes, unless it is the name of a user who published one.
THEOREM PricesAreReal == Spec => []NoInventedPrices
BY KnownAlways, KnownIsNoInvention, PTL

\* The user named to a server whose client complains of a price did enter that
\* price, whoever corrected the entry first and however late the answer comes.
THEOREM CulpritsAreReal == Spec => []CulpritsArePublished
<1>1. CulpritsKnown => CulpritsArePublished
  BY DEF CulpritsKnown, TrueCulprit, CulpritsArePublished
<1> QED BY <1>1, KnownAlways, PTL
-----------------------------------------------------------------------------
\* QuietScanIsCheapest, and what a scan keeps true until it answers.  Here d and
\* k are the rows of the server's database and cache, r is the request, l are
\* the handler's local variables.

Choice(r, d, k) == {row \in d \cup k : row.store \in Wanted(r)}

BestOf(bests, choice) ==
  \A best \in bests : best \in Cheapest({row \in choice : row.item = best.item})

\* Each item of the request has its row or its turn to come.
Covered(r, bests, items) ==
  \A i \in DOMAIN r.items : \/ \E best \in bests : best.item = r.items[i]
                            \/ \E n \in DOMAIN items : items[n] = r.items[i]

\* The rows of the item in turn at the shops read so far: of a shop whose cache
\* entry comes next, the row in the database.
ReadSoFar(l, r, d, k) ==
  {row \in Choice(r, d, k) : /\ row.item = Head(l.items)
                             /\ row.store \notin l.stores
                             /\ row.store \in l.at => row \in d}

Exact(l, r, d, k) ==
  /\ l.stores \subseteq Wanted(r)
  /\ \A store \in l.at : l.at = {store} /\ store \in Wanted(r) \ l.stores
  /\ l.info = ReadSoFar(l, r, d, k)
  /\ BestOf(l.bests, Choice(r, d, k))
  /\ Covered(r, l.bests, l.items)

ScanIsExact(c) ==
  (quiet[c] /\ Scanning(c)) => Exact(loc[c], rqst[c], db[Home[c]], cache[Home[c]])

AnswerIsCheapest(c) ==
  (quiet[c] /\ out[c].type = "sDwnInfo" /\ out[c].rows # {}) =>
    /\ BestOf(out[c].rows, Choice(rqst[c], db[Home[c]], cache[Home[c]]))
    /\ Covered(rqst[c], out[c].rows, <<>>)

ScansAreExact == \A c \in Thr : ScanIsExact(c) /\ AnswerIsCheapest(c)

LEMMA ScanStarts ==
  ASSUME NEW r \in Request, r.type = "cDownload", NEW d, NEW k
  PROVE  Exact(Scan(r), r, d, k)
<1>1. /\ Scan(r).items = r.items /\ Scan(r).stores = Wanted(r)
      /\ Scan(r).at = {} /\ Scan(r).info = {} /\ Scan(r).bests = {}
  BY DEF Scan, NoLocals
<1>2. ReadSoFar(Scan(r), r, d, k) = {}
  BY <1>1 DEF ReadSoFar, Choice
<1>3. BestOf({}, Choice(r, d, k)) /\ Covered(r, {}, r.items)
  BY DEF BestOf, Covered
<1> QED BY <1>1, <1>2, <1>3 DEF Exact

LEMMA DbRead ==
  ASSUME NEW l \in Locals, NEW r, NEW d, NEW k, Exact(l, r, d, k),
         l.at = {}, NEW store \in l.stores
  PROVE  Exact([l EXCEPT !.stores = @ \ {store}, !.at = {store},
                         !.info = @ \cup Lookup(d, store, Head(l.items))], r, d, k)
<1> DEFINE rows == Lookup(d, store, Head(l.items))
           next == [l EXCEPT !.stores = @ \ {store}, !.at = {store}, !.info = @ \cup rows]
<1>1. /\ next.items = l.items /\ next.bests = l.bests /\ next.at = {store}
      /\ next.stores = l.stores \ {store} /\ next.info = l.info \cup rows
  BY DEF Locals
<1> HIDE DEF next
<1>2. \A row : row \in rows <=> row \in d /\ row.store = store /\ row.item = Head(l.items)
  BY DEF Lookup, Selected, Key
<1> HIDE DEF rows
<1>3. \A row : row \in l.info <=> row \in ReadSoFar(l, r, d, k)
  BY DEF Exact
<1>4. store \in Wanted(r)
  BY DEF Exact
<1>5. \A row : row \in next.info <=> row \in ReadSoFar(next, r, d, k)
  BY <1>1, <1>2, <1>3, <1>4 DEF ReadSoFar, Choice
<1>6. next.info = ReadSoFar(next, r, d, k)
  BY <1>1, <1>5 DEF ReadSoFar
<1>7. Exact(next, r, d, k)
  BY <1>1, <1>4, <1>6 DEF Exact
<1> QED BY <1>7 DEF next, rows

LEMMA CacheRead ==
  ASSUME NEW l \in Locals, NEW r, NEW d, NEW k, Exact(l, r, d, k), NEW store \in l.at
  PROVE  Exact([l EXCEPT !.at = {},
                         !.info = l.info \cup Lookup(k, store, Head(l.items))], r, d, k)
<1> DEFINE rows == Lookup(k, store, Head(l.items))
           next == [l EXCEPT !.at = {}, !.info = l.info \cup rows]
<1>1. /\ next.items = l.items /\ next.bests = l.bests /\ next.at = {}
      /\ next.stores = l.stores /\ next.info = l.info \cup rows
  BY DEF Locals
<1> HIDE DEF next
<1>2. \A row : row \in rows <=> row \in k /\ row.store = store /\ row.item = Head(l.items)
  BY DEF Lookup, Selected, Key
<1> HIDE DEF rows
<1>3. next.info = ReadSoFar(next, r, d, k)
  BY <1>1, <1>2 DEF Exact, ReadSoFar, Choice
<1>4. Exact(next, r, d, k)
  BY <1>1, <1>3 DEF Exact
<1> QED BY <1>4 DEF next, rows

\* All shops read: the cheapest row read is the cheapest there is.
LEMMA BestPicked ==
  ASSUME NEW l \in Locals, l.items # <<>>, NEW r, NEW d, NEW k, Exact(l, r, d, k),
         l.at = {}, l.stores = {}, NEW best \in Cheapest(l.info)
  PROVE  /\ BestOf(l.bests \cup {best}, Choice(r, d, k))
         /\ Covered(r, l.bests \cup {best}, Tail(l.items))
<1>1. l.info = {row \in Choice(r, d, k) : row.item = Head(l.items)}
  <2>1. l.info = ReadSoFar(l, r, d, k)
    BY DEF Exact
  <2>2. \A row : row \in ReadSoFar(l, r, d, k)
                  <=> row \in Choice(r, d, k) /\ row.item = Head(l.items)
    BY DEF ReadSoFar
  <2> QED BY <2>1, <2>2
<1>2. best.item = Head(l.items)
  BY <1>1 DEF Cheapest
<1>3. BestOf(l.bests \cup {best}, Choice(r, d, k))
  BY <1>1, <1>2 DEF Exact, BestOf
<1>4. l.items \in Seq(Items)
  BY DEF Locals
<1>5. ASSUME NEW n \in DOMAIN l.items
      PROVE  \/ best.item = l.items[n]
             \/ \E m \in DOMAIN Tail(l.items) : Tail(l.items)[m] = l.items[n]
  <2>1. CASE n = 1
    BY <1>2, <1>4, <2>1
  <2>2. CASE n # 1
    <3>1. n - 1 \in DOMAIN Tail(l.items) /\ Tail(l.items)[n - 1] = l.items[n]
      BY <1>4, <2>2
    <3> QED BY <3>1
  <2> QED BY <2>1, <2>2
<1>6. Covered(r, l.bests \cup {best}, Tail(l.items))
  BY <1>5 DEF Exact, Covered
<1> QED BY <1>3, <1>6

LEMMA NextScanExact ==
  ASSUME NEW l \in Locals, l.at = {}, NEW r, NEW d, NEW k, NEW best,
         BestOf(l.bests \cup {best}, Choice(r, d, k)),
         Covered(r, l.bests \cup {best}, Tail(l.items))
  PROVE  Exact([l EXCEPT !.items = Tail(@), !.stores = Wanted(r),
                         !.info = {}, !.bests = @ \cup {best}], r, d, k)
<1> DEFINE next == [l EXCEPT !.items = Tail(@), !.stores = Wanted(r),
                             !.info = {}, !.bests = @ \cup {best}]
<1>1. /\ next.items = Tail(l.items) /\ next.bests = l.bests \cup {best}
      /\ next.at = {} /\ next.stores = Wanted(r) /\ next.info = {}
  BY DEF Locals
<1> HIDE DEF next
<1>2. ReadSoFar(next, r, d, k) = {}
  BY <1>1 DEF ReadSoFar, Choice
<1>3. Exact(next, r, d, k)
  BY <1>1, <1>2 DEF Exact
<1> QED BY <1>3 DEF next

\* Nobody wrote to a table of c's server if the scan of c is quiet after a step.
LEMMA QuietTables ==
  ASSUME IInv, [Next]_vars, NEW c \in Thr, quiet'[c]
  PROVE  /\ db'[Home[c]] = db[Home[c]] /\ cache'[Home[c]] = cache[Home[c]]
         /\ quiet[c] \/ \E r \in Menu[c] : RecvDownload(c, r)
<1> DEFINE Goal == /\ db'[Home[c]] = db[Home[c]] /\ cache'[Home[c]] = cache[Home[c]]
                   /\ quiet[c] \/ \E r \in Menu[c] : RecvDownload(c, r)
<1> USE DEF IInv, TypeOK, TablesOK
<1>h. \A d \in Thr : Home[d] \in Servers
  BY MainServerAssumption
<1>1. CASE UNCHANGED tableVars \/ UNCHANGED <<db, cache, quiet>>
  BY <1>1 DEF tableVars
<1>2. ASSUME NEW s \in Servers, NEW row, WriteDb(s, row), UNCHANGED cache PROVE Goal
  BY <1>2, <1>h DEF WriteDb, Disturb
<1>3. ASSUME NEW s \in Servers, NEW row, WriteCache(s, row), UNCHANGED db PROVE Goal
  BY <1>3, <1>h DEF WriteCache, Disturb
<1>4. ASSUME NEW d \in Thr, \/ GetName(d) \/ StoreUpdate(d)
                            \/ \E store \in Stores : ReadDb(d, store)
                            \/ \E row \in Row : GetAnswer(d, row)
      PROVE  Goal
  <2>1. \/ UNCHANGED <<db, cache, quiet>>
        \/ \E row : WriteDb(Home[d], row) /\ UNCHANGED cache
        \/ \E row : WriteCache(Home[d], row) /\ UNCHANGED db
    BY <1>4 DEF GetName, StoreUpdate, ReadDb, GetAnswer, Jam, tableVars
  <2> QED BY <2>1, <1>1, <1>2, <1>3, <1>h
<1>5. ASSUME NEW d \in Thr, NEW r \in Menu[d], RecvDownload(d, r) PROVE Goal
  BY <1>5 DEF RecvDownload
<1>6. ASSUME NEW j \in jobs, \/ JobCheck(j) \/ JobFix(j)
                             \/ \E store \in Stores : JobReadDb(j, store)
      PROVE  Goal
  <2>1. j.rqst.dst \in Servers
    BY DEF UdpOK, Job, DwnRqst, SynRqst
  <2>2. \/ UNCHANGED <<db, cache, quiet>>
        \/ \E row : WriteDb(j.rqst.dst, row) /\ UNCHANGED cache
    BY <1>6 DEF JobCheck, JobFix, JobReadDb, Jam, tableVars
  <2> QED BY <2>1, <2>2, <1>1, <1>2
<1>7. ASSUME NEW s \in Servers, Crash(s) PROVE Goal
  BY <1>7, <1>h DEF Crash
<1> QED BY <1>1, <1>4, <1>5, <1>6, <1>7, TableWriters

LEMMA AnswerKept ==
  ASSUME IInv, [Next]_vars, NEW c \in Thr, AnswerIsCheapest(c), quiet[c], quiet'[c],
         \/ out'[c] = out[c] /\ rqst'[c] = rqst[c]
         \/ out'[c].type # "sDwnInfo"
  PROVE  AnswerIsCheapest(c)'
BY QuietTables DEF AnswerIsCheapest

LEMMA ScansFromClient ==
  ASSUME IInv, [Next]_vars, NEW c \in Thr, FromClient(c), quiet'[c],
         ScanIsExact(c), AnswerIsCheapest(c)
  PROVE  ScanIsExact(c)' /\ AnswerIsCheapest(c)'
<1> USE DEF IInv, TypeOK, HandlersOK
<1>1. ASSUME NEW r \in Menu[c], RecvDownload(c, r)
      PROVE  ScanIsExact(c)' /\ AnswerIsCheapest(c)'
  <2>1. /\ loc'[c] = Scan(r) /\ rqst'[c] = r /\ out'[c] = NoReply
        /\ r \in Request /\ r.type = "cDownload"
    BY <1>1, MainServerAssumption DEF RecvDownload, Receive, Process, Go
  <2> QED BY <2>1, ScanStarts DEF ScanIsExact, AnswerIsCheapest, NoReply
<1>2. ASSUME \A r \in Menu[c] : ~RecvDownload(c, r)
      PROVE  ScanIsExact(c)' /\ AnswerIsCheapest(c)'
  <2>1. quiet[c]
    BY <1>2, QuietTables
  <2>2. pc'[c] \notin {"dwn_scan", "dwn_rescan"}
    BY <1>2 DEF FromClient, Accept, HangUp, Reset, Authenticate, RecvUpdate,
                RefuseUpdate, RecvSynch, Receive, Process, Go, Die
  <2>3. \/ out'[c] = out[c] /\ rqst'[c] = rqst[c]
        \/ out'[c].type # "sDwnInfo"
    <3>1. ASSUME Accept(c) \/ HangUp(c) \/ Reset(c)
          PROVE  out'[c] = out[c] /\ rqst'[c] = rqst[c]
      BY <3>1 DEF Accept, HangUp, Reset, Die
    <3>2. ASSUME NEW r \in Menu[c], Authenticate(c, r) \/ RefuseUpdate(c, r)
          PROVE  out'[c].type # "sDwnInfo"
      <4>1. \E type \in {"sAuthOK", "sAuthErr", "sUpdErr"} :
              out' = [out EXCEPT ![c] = [type |-> type]]
        BY <3>2 DEF Authenticate, RefuseUpdate
      <4> QED BY <4>1
    <3>3. ASSUME NEW r \in Menu[c], RecvUpdate(c, r) \/ RecvSynch(c, r)
          PROVE  out'[c].type # "sDwnInfo"
      BY <3>3 DEF RecvUpdate, RecvSynch, Process, NoReply
    <3> QED BY <1>2, <3>1, <3>2, <3>3 DEF FromClient
  <2> QED BY <2>1, <2>2, <2>3, AnswerKept DEF ScanIsExact, Scanning
<1> QED BY <1>1, <1>2

LEMMA ScansProceed ==
  ASSUME IInv, [Next]_vars, NEW c \in Thr, Proceed(c), quiet[c], quiet'[c],
         ScanIsExact(c), AnswerIsCheapest(c)
  PROVE  ScanIsExact(c)' /\ AnswerIsCheapest(c)'
<1> DEFINE Goal == ScanIsExact(c)' /\ AnswerIsCheapest(c)'
           d == db[Home[c]]
           k == cache[Home[c]]
<1> USE DEF IInv, TypeOK, HandlersOK
<1>t. db'[Home[c]] = d /\ cache'[Home[c]] = k
  BY QuietTables
<1>l. loc[c] \in Locals /\ rqst[c] \in Request \cup {NoRequest}
  OBVIOUS
<1>p. rqst' = rqst
  BY DEF Proceed, StoreUpdate, ReadDb, ReadCache, PickBest, PickNone, Ask, NextItem,
         DwnTimeout, GetNothing, GetAnswer, GetName, GetSynch, SynTimeout, Answer, Die
\* Where a step leaves no scan in progress, and no new reply with rows.
<1>n. ASSUME pc'[c] \notin {"dwn_scan", "dwn_rescan"},
             out'[c] = out[c] \/ out'[c].type # "sDwnInfo" \/ out'[c].rows = {}
      PROVE  Goal
  BY <1>n, <1>p, <1>t DEF ScanIsExact, AnswerIsCheapest, Scanning
\* Where it takes a scan on.
<1>s. ASSUME out' = out, Exact(loc'[c], rqst[c], d, k) PROVE Goal
  BY <1>s, <1>p, <1>t DEF ScanIsExact, AnswerIsCheapest
<1>1. CASE StoreUpdate(c) \/ GetSynch(c) \/ PickNone(c)
  <2>1. \/ Die(c)
        \/ \E reply : Answer(c, reply) /\ (reply.type # "sDwnInfo" \/ reply.rows = {})
    BY <1>1 DEF StoreUpdate, GetSynch, PickNone
  <2> QED BY <2>1, <1>n DEF Answer, Die, Go
<1>2. ASSUME NEW store \in Stores, ReadDb(c, store) PROVE Goal
  <2> DEFINE next == [loc[c] EXCEPT !.stores = @ \ {store}, !.at = {store},
                        !.info = @ \cup Lookup(d, store, Head(loc[c].items))]
  <2>1. Scanning(c) /\ loc[c].at = {} /\ store \in loc[c].stores
    BY <1>2 DEF ReadDb
  <2>2. Exact(next, rqst[c], d, k)
    BY <1>l, <2>1, DbRead DEF ScanIsExact
  <2>3. Die(c) \/ (loc' = [loc EXCEPT ![c] = next] /\ out' = out)
    BY <1>2 DEF ReadDb
  <2> HIDE DEF next
  <2> QED BY <2>2, <2>3, <1>n, <1>s DEF Die, Go
<1>3. ASSUME NEW store \in Stores, ReadCache(c, store) PROVE Goal
  <2> DEFINE info == loc[c].info \cup Lookup(k, store, Head(loc[c].items))
             next == [loc[c] EXCEPT !.at = {}, !.info = info]
  <2>1. Scanning(c) /\ store \in loc[c].at /\ out' = out
    BY <1>3 DEF ReadCache
  <2>2. Exact(next, rqst[c], d, k)
    BY <1>l, <2>1, CacheRead DEF ScanIsExact
  <2>3. pc'[c] = "dwn_ask" \/ loc' = [loc EXCEPT ![c] = next]
    BY <1>3 DEF ReadCache, Go
  <2> HIDE DEF next
  <2> QED BY <2>1, <2>2, <2>3, <1>n, <1>s
<1>4. CASE PickBest(c)
  <2>1. Scanning(c) /\ loc[c].at = {} /\ loc[c].stores = {}
    BY <1>4 DEF PickBest
  <2>2. loc[c].items # <<>> /\ Exact(loc[c], rqst[c], d, k)
    BY <2>1 DEF HandlersMatch, Scanning, ScanIsExact
  <2>3. PICK best \in Cheapest(loc[c].info) :
          IF Tail(loc[c].items) = <<>>
          THEN Answer(c, [type |-> "sDwnInfo", rows |-> loc[c].bests \cup {best}])
          ELSE loc' = [loc EXCEPT ![c] = NextScan(c, best)] /\ out' = out
    BY <1>4 DEF PickBest
  <2>4. /\ BestOf(loc[c].bests \cup {best}, Choice(rqst[c], d, k))
        /\ Covered(rqst[c], loc[c].bests \cup {best}, Tail(loc[c].items))
    BY <1>l, <2>1, <2>2, BestPicked
  <2>5. CASE Tail(loc[c].items) = <<>>
    <3> DEFINE picked == loc[c].bests \cup {best}
    <3>1. BestOf(picked, Choice(rqst[c], d, k)) /\ Covered(rqst[c], picked, <<>>)
      BY <2>4, <2>5
    <3>2. pc'[c] = "main_ready" /\ out'[c] = [type |-> "sDwnInfo", rows |-> picked]
      BY <2>3, <2>5 DEF Answer, Go
    <3> HIDE DEF picked
    <3>3. out'[c].rows = picked /\ rqst'[c] = rqst[c]
      BY <3>2, <1>p
    <3>4. AnswerIsCheapest(c)'
      BY <3>1, <3>3, <1>t DEF AnswerIsCheapest
    <3> QED BY <3>2, <3>4 DEF ScanIsExact, Scanning
  <2>6. CASE Tail(loc[c].items) # <<>>
    <3>1. Exact(NextScan(c, best), rqst[c], d, k)
      BY <1>l, <2>1, <2>4, NextScanExact DEF NextScan
    <3> QED BY <2>3, <2>6, <3>1, <1>s
  <2> QED BY <2>5, <2>6
<1>5. ASSUME NEW s \in Servers, Ask(c, s) PROVE Goal
  BY <1>5, <1>n DEF Ask, Go
<1>6. CASE NextItem(c)
  <2>1. /\ out' = out
        /\ pc'[c] = "dwn_ask" \/ loc' = [loc EXCEPT ![c] = Scan(rqst[c])]
    BY <1>6 DEF NextItem, Go
  <2>2. rqst[c] \in Request /\ rqst[c].type = "cDownload"
    BY <1>6, <1>l DEF NextItem, HandlersMatch, NoRequest
  <2> QED BY <2>1, <2>2, ScanStarts, <1>n, <1>s
<1>7. CASE DwnTimeout(c) \/ GetNothing(c) \/ SynTimeout(c)
  BY <1>7, <1>n DEF DwnTimeout, GetNothing, SynTimeout, Go
<1>8. CASE GetName(c) \/ \E row \in Row : GetAnswer(c, row)
  BY <1>8, <1>n DEF GetName, GetAnswer, Die, Go
<1> QED BY <1>1, <1>2, <1>3, <1>4, <1>5, <1>6, <1>7, <1>8 DEF Proceed

LEMMA ScansNext == IInv /\ ScansAreExact /\ [Next]_vars => ScansAreExact'
<1> SUFFICES ASSUME IInv, ScansAreExact, [Next]_vars, NEW c \in Thr
             PROVE  ScanIsExact(c)' /\ AnswerIsCheapest(c)'
  BY DEF ScansAreExact
<1>1. CASE ~quiet'[c]
  BY <1>1 DEF ScanIsExact, AnswerIsCheapest
<1>2. CASE quiet'[c] /\ FromClient(c)
  BY <1>2, ScansFromClient DEF ScansAreExact
<1>3. CASE quiet'[c] /\ ~FromClient(c)
  <2>1. quiet[c]
    BY <1>3, QuietTables DEF FromClient
  <2>2. CASE Proceed(c)
    BY <1>3, <2>1, <2>2, ScansProceed DEF ScansAreExact
  <2>3. CASE ~Proceed(c)
    <3>1. ~Crash(Home[c])
      BY <1>3 DEF Crash, IInv, TypeOK, TablesOK
    <3> QED BY <1>3, <2>1, <2>3, <3>1, OthersLeave, QuietTables
            DEF ScansAreExact, ScanIsExact, AnswerIsCheapest, Scanning
  <2> QED BY <2>2, <2>3
<1> QED BY <1>1, <1>2, <1>3

\* If nothing is written at its server since its scan began, a reply with rows
\* has the cheapest row the server knows at the wanted shops of each item asked
\* about, whatever the other handlers and servers do.
THEOREM QuietScansFindTheCheapest == Spec => []QuietScanIsCheapest
<1>1. Init => ScansAreExact
  BY DEF Init, ScansAreExact, ScanIsExact, AnswerIsCheapest
<1>2. ASSUME ScansAreExact PROVE QuietScanIsCheapest
  <2>1. ASSUME NEW r, NEW bests, Covered(r, bests, <<>>)
        PROVE  \A i \in DOMAIN r.items : \E best \in bests : best.item = r.items[i]
    BY <2>1 DEF Covered
  <2>2. ASSUME NEW c \in Thr, quiet[c], out[c].type = "sDwnInfo", out[c].rows # {}
        PROVE  LET known == {r \in db[Home[c]] \cup cache[Home[c]] :
                               r.store \in Wanted(rqst[c])} IN
               /\ \A b \in out[c].rows : b \in Cheapest({r \in known : r.item = b.item})
               /\ \A i \in DOMAIN rqst[c].items :
                    \E b \in out[c].rows : b.item = rqst[c].items[i]
    <3>1. AnswerIsCheapest(c)
      BY <1>2 DEF ScansAreExact
    <3>2. /\ BestOf(out[c].rows, Choice(rqst[c], db[Home[c]], cache[Home[c]]))
          /\ Covered(rqst[c], out[c].rows, <<>>)
      BY <2>2, <3>1 DEF AnswerIsCheapest
    <3> QED BY <2>1, <3>2 DEF BestOf, Choice
  <2> QED BY <2>2 DEF QuietScanIsCheapest
<1> QED BY <1>1, <1>2, InitIInv, NextIInv, ScansNext, PTL DEF Spec
=============================================================================
