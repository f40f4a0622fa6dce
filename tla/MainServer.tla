----------------------------- MODULE MainServer -----------------------------
(***************************************************************************)
(* The network of main servers: client handlers, server handlers, the UDP  *)
(* network between them, and crashes of a server process.                  *)
(***************************************************************************)
EXTENDS ClientHandler, ServerHandler

Lose(m) ==
  /\ m \in net
  /\ net' = net \ {m}
  /\ UNCHANGED <<ask, jobs, handlerVars, mailVars, tableVars, boundVars>>

\* Server s stops and is started again.  The file of the database survives;
\* cache, locks, threads, pending and the count thr_no start anew, so that the
\* next clients get the numbers of the last ones.
Crash(s) ==
  LET Reborn(f, v) == [c \in Thr |-> IF Home[c] = s THEN v ELSE f[c]] IN
  /\ crashes < MaxCrashes
  /\ crashes' = crashes + 1
  /\ pc' = Reborn(pc, "fresh") /\ user' = Reborn(user, None)
  /\ rqst' = Reborn(rqst, NoRequest) /\ loc' = Reborn(loc, NoLocals)
  /\ out' = Reborn(out, NoReply) /\ queue' = Reborn(queue, <<>>)
  /\ quiet' = Reborn(quiet, FALSE)
  /\ pending' = {c \in pending : Home[c] # s}
  /\ cache' = [cache EXCEPT ![s] = {}]
  /\ stuck' = stuck \ {<<s, "db">>, <<s, "cache">>}
  /\ jobs' = {j \in jobs : j.rqst.dst # s}
  /\ UNCHANGED <<db, published, net, ask, served>>

Next ==
  \/ \E c \in Thr : FromClient(c) \/ Proceed(c)
  \/ \E m \in net : Serve(m) \/ PutResponse(m) \/ Lose(m)
  \/ \E j \in jobs : Work(j)
  \/ \E s \in Servers : Crash(s)

\* Threads are scheduled, and a wait with a timeout ends.  Nothing is assumed
\* of the network, of the clients or of crashes.
Spec == Init /\ [][Next]_vars /\ \A c \in Thr : WF_vars(Proceed(c))
-----------------------------------------------------------------------------
PCs == {"fresh", "main_anonymous", "main_ready", "upd_store", "dwn_scan",
        "dwn_ask", "dwn_wait", "dwn_rescan", "syn_wait", "closed", "dead"}

HandlersOK ==
  /\ pc \in [Thr -> PCs]
  /\ user \in [Thr -> Users \cup {None}]
  /\ rqst \in [Thr -> Request \cup {NoRequest}]
  /\ loc \in [Thr -> Locals]
  /\ out \in [Thr -> Reply]

MailOK ==
  /\ pending \subseteq Thr
  /\ queue \in [Thr -> Seq(DwnResp \cup SynResp)]

TablesOK ==
  /\ db \in [Servers -> SUBSET Row] /\ cache \in [Servers -> SUBSET Row]
  /\ stuck \subseteq Servers \X {"db", "cache"}
  /\ published \subseteq Row
  /\ quiet \in [Thr -> BOOLEAN]

UdpOK ==
  /\ net \subseteq DwnRqst \cup SynRqst \cup DwnResp \cup SynResp
  /\ jobs \subseteq Job
  /\ ask \in Nat

\* Every variable has its type.
TypeOK ==
  HandlersOK /\ MailOK /\ TablesOK /\ UdpOK /\ served \in Nat /\ crashes \in Nat

\* The rows at work in threads, datagrams, queues and replies.
RowsAbout ==
  (UNION {loc[c].info \cup loc[c].bests : c \in Thr})
    \cup (UNION {j.info : j \in jobs})
    \cup (UNION {m.best : m \in {n \in net : n.type = "sDwnResp"}})
    \cup (UNION {UNION {queue[c][i].best :
                         i \in {k \in DOMAIN queue[c] : queue[c][k].type = "sDwnResp"}}
                 : c \in Thr})
    \cup (UNION {out[c].rows : c \in {d \in Thr : out[d].type = "sDwnInfo"}})

\* Rows that nobody published: what GetName makes of the name of a user.
Misread == {Spelt[r.user] : r \in {q \in published : q.user \in DOMAIN Spelt}}
Sourced == published \cup Misread

\* A price that was not published comes from one place only: a row in a cache, on
\* the way or in a reply was once committed to the database of a server, however
\* many caches it went through and whatever crashed meanwhile, or it is the name
\* of somebody who published one, read as a row.  A correction rests on a row
\* that was published.
NoInventedPrices ==
  /\ (UNION {db[s] : s \in Servers}) \cup (UNION {j.found : j \in jobs}) \subseteq published
  /\ (UNION {cache[s] : s \in Servers}) \cup RowsAbout \subseteq Sourced

\* A database has rows of its server's own shops only, under names of
\* registered users, although the cSynch of other servers' clients writes to it
\* too, without the checks of cUpdate.
DbIsLocal ==
  \A s \in Servers : \A r \in db[s] :
    r.store \in LocalStores[s] /\ r.user \in Registered

\* What a handler relies on in the middle of process(): an authenticated user,
\* a request of the kind it is working on, an item left to work on.
HandlersMatch ==
  \A c \in Thr :
    /\ pc[c] \notin {"fresh", "main_anonymous", "closed", "dead"} =>
         user[c] \in Registered
    /\ pc[c] = "upd_store" =>
         rqst[c].type = "cUpdate" /\ p_updShopOK(c, rqst[c])
    /\ pc[c] \in {"dwn_scan", "dwn_rescan", "dwn_ask", "dwn_wait"} =>
         rqst[c].type = "cDownload" /\ loc[c].items # <<>>

\* What a job relies on when it overwrites an entry: the entry it found was of
\* the database it is about to write to, and the correction has an author.
JobsMatch ==
  /\ \A m \in net : m.type = "sSynRqst" => m.user \in Registered
  /\ \A j \in jobs :
       j.rqst.type = "sSynRqst" =>
         /\ j.rqst.user \in Registered
         /\ \A r \in j.found : /\ Key(r) = <<j.rqst.store, j.rqst.item>>
                               /\ r.price = j.rqst.p1
                               /\ r.store \in LocalStores[j.rqst.dst]

\* Inductive invariant: why DbIsLocal holds.
IInv == TypeOK /\ DbIsLocal /\ HandlersMatch /\ JobsMatch

\* A handler that waits for a response has a queue it can come through, and
\* a handler that left by the front door has none: pending[self.thr_no] does
\* not raise in process(), and responses that come too late leave nothing.
QueuesMatchWaits ==
  \A c \in Thr :
    /\ pc[c] \in {"dwn_ask", "dwn_wait", "dwn_rescan", "syn_wait"} => c \in pending
    /\ pc[c] \in {"fresh", "main_anonymous", "closed"} => c \notin pending
    /\ c \notin pending => queue[c] = <<>>

\* If nothing was written at its server since its scan began, each row of a
\* reply is the cheapest the server knows of its item at the wanted shops, and
\* every item asked about has one or the reply is empty.
QuietScanIsCheapest ==
  \A c \in Thr :
    (quiet[c] /\ out[c].type = "sDwnInfo" /\ out[c].rows # {}) =>
      LET known == {r \in db[Home[c]] \cup cache[Home[c]] : r.store \in Wanted(rqst[c])} IN
      /\ \A b \in out[c].rows :
           b \in Cheapest({r \in known : r.item = b.item})
      /\ \A i \in DOMAIN rqst[c].items :
           \E b \in out[c].rows : b.item = rqst[c].items[i]

\* Responses between servers name a true culprit: the user of an sSynResp
\* entered the very price the request complains about.
CulpritsArePublished ==
  \A m \in net \cup (UNION {{queue[c][i] : i \in DOMAIN queue[c]} : c \in Thr}) :
    m.type = "sSynResp" =>
      \E r \in published : /\ r.store = m.re.store /\ r.item = m.re.item
                           /\ r.price = m.re.p1 /\ r.user = m.user

Busy(c) == pc[c] \notin {"fresh", "main_anonymous", "main_ready", "closed", "dead"}

\* The handler comes back to its client, unless a thread of its server died
\* with the lock of a table (or the handler dies itself): other servers,
\* lost datagrams and answers that never come cannot hold it up for ever.
HandlerComesBack ==
  \A c \in Thr :
    Busy(c) ~> (~Busy(c) \/ \E t \in {"db", "cache"} : ~Works(Home[c], t))
-----------------------------------------------------------------------------
\* What comments of the code say and the code does not do: see the violation
\* runs.

\* "Synch OK. Found culprit to be user" (client.py:361): the user in an sSynOK
\* entered the price this cSynch corrects.
SynOKNamesTheCulprit ==
  \A c \in Thr :
    out[c].type = "sSynOK" =>
      \E r \in published : /\ r.store = rqst[c].store /\ r.item = rqst[c].item
                           /\ r.price = rqst[c].p1 /\ r.user = out[c].user
=============================================================================
