------------------------------- MODULE Service -------------------------------
(***************************************************************************)
(* What the thread that serves a client promises: one request at a time,   *)
(* at most one answer to each, of its kind, in the order of the requests;  *)
(* only a synch may go unanswered.  ClientHandler implements this          *)
(* (HandlersServe in HandlerService.tla); Session.tla composes it with the *)
(* client.                                                                 *)
(***************************************************************************)
VARIABLES
  stage,   \* fresh (no client yet), anonymous, ready, busy, closed, dead
  doing,   \* the type of the last request
  reply    \* the type of the last answer, "none" since a request was taken

serviceVars == <<stage, doing, reply>>

AnswersTo ==
  [cUpdate |-> {"sUpdOK", "sUpdErr"}, cDownload |-> {"sDwnInfo"}, cSynch |-> {"sSynOK"}]

ServiceInit == stage = "fresh" /\ doing = "none" /\ reply = "none"

Open == stage = "fresh" /\ stage' = "anonymous" /\ UNCHANGED <<doing, reply>>

Login(ok) ==
  /\ stage = "anonymous"
  /\ stage' = IF ok THEN "ready" ELSE "closed"
  /\ reply' = IF ok THEN "sAuthOK" ELSE "sAuthErr"
  /\ UNCHANGED doing

Begin(type) ==
  /\ stage = "ready" /\ type \in DOMAIN AnswersTo
  /\ stage' = "busy" /\ doing' = type /\ reply' = "none"

\* An update for a shop of another server is refused at once.
Refuse ==
  /\ stage = "ready"
  /\ doing' = "cUpdate" /\ reply' = "sUpdErr"
  /\ UNCHANGED stage

Reply(type) ==
  /\ stage = "busy" /\ type \in AnswersTo[doing]
  /\ stage' = "ready" /\ reply' = type
  /\ UNCHANGED doing

\* No server knew the price within T_SYNCH.
LeaveUnanswered ==
  /\ stage = "busy" /\ doing = "cSynch"
  /\ stage' = "ready"
  /\ UNCHANGED <<doing, reply>>

\* An exception; the request in process is not answered.
Perish ==
  /\ stage \in {"anonymous", "ready", "busy"}
  /\ stage' = "dead"
  /\ UNCHANGED <<doing, reply>>

\* The client has closed the connection.
Close ==
  /\ stage \in {"anonymous", "ready"}
  /\ stage' = "closed"
  /\ UNCHANGED <<doing, reply>>

\* The server process is started again.
Reset == stage' = "fresh" /\ doing' = "none" /\ reply' = "none"

Step ==
  \/ Open \/ (\E ok \in BOOLEAN : Login(ok)) \/ Refuse \/ LeaveUnanswered
  \/ (\E type \in DOMAIN AnswersTo : Begin(type))
  \/ (\E type \in UNION {AnswersTo[k] : k \in DOMAIN AnswersTo} : Reply(type))
  \/ Perish \/ Close \/ Reset
=============================================================================
