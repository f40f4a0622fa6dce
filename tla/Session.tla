------------------------------ MODULE Session ------------------------------
(***************************************************************************)
(* A client and the handler that serves it, over one TCP connection: what  *)
(* arrives is what was sent, in order, but one recv() may return several   *)
(* PDUs or a part of one.                                                  *)
(***************************************************************************)
EXTENDS Client, Service

VARIABLES
  number,    \* history: the number of the request in process
  hup,       \* the server's end of the connection is closed
  swallowed  \* history: PDUs that one recv() returned and decode() dropped

sessionVars == <<number, hup, swallowed>>
vars == <<clientVars, serviceVars, sessionVars>>

Init ==
  /\ ClientInit /\ ServiceInit
  /\ number = 0 /\ hup = FALSE /\ swallowed = 0

\* The client's process has ended: threading waits for its timers.
Gone == Over /\ \A t \in Timers : timer[t] \in {"idle", "done"}

\* More than one PDU in one recv(), or a piece of one.
Lossy(run) == Len(run) > 1 \/ run[1].part # "whole"

\* The steps of the client.  It gets past connection() once the server has
\* accepted it, and reads the end of the connection if there is one.
ClientSays(line) == ReadStdin(line) /\ UNCHANGED <<serviceVars, sessionVars>>

ClientHears(k) ==
  /\ ReadTcp(k)
  /\ swallowed' = swallowed + (IF Lossy(SubSeq(s2c, 1, k)) THEN 1 ELSE 0)
  /\ UNCHANGED <<serviceVars, number, hup>>

ClientHearsEnd ==
  /\ hup \/ shut
  /\ ReadEnd \/ Crash
  /\ UNCHANGED <<serviceVars, sessionVars>>

ClientConnects ==
  /\ Connect
  /\ IF main' = "listen" THEN Open ELSE UNCHANGED serviceVars
  /\ UNCHANGED sessionVars

ClientWorks == (Again \/ Act) /\ UNCHANGED <<serviceVars, sessionVars>>
TimerWorks(t) == Timer(t) /\ UNCHANGED <<serviceVars, sessionVars>>
StdinEnds == Crash /\ UNCHANGED <<serviceVars, sessionVars>>
-----------------------------------------------------------------------------
\* The steps of the handler.

SendReply(type, n, long) ==
  \E pad \in BOOLEAN : s2c' = s2c \o Pieces(Encode(type, n, pad), long)

\* One recv() and the start of process().
HandlerHears(k) ==
  /\ stage \in {"anonymous", "ready"} /\ k \in DOMAIN c2s
  /\ c2s' = SubSeq(c2s, k + 1, Len(c2s))
  /\ swallowed' = swallowed + (IF Lossy(SubSeq(c2s, 1, k)) THEN 1 ELSE 0)
  /\ \E e \in Received(SubSeq(c2s, 1, k)) :
       LET type == IF e = <<>> THEN "none" ELSE e[1].type IN
       \/ /\ stage = "anonymous" /\ type = "cAuth"
          /\ \E ok \in BOOLEAN : Login(ok)
          /\ SendReply(reply', e[1].n, FALSE)
          /\ hup' = (stage' = "closed") /\ UNCHANGED number
       \/ /\ Begin(type)
          /\ number' = e[1].n
          /\ UNCHANGED <<s2c, hup>>
       \/ /\ type = "cUpdate" /\ Refuse
          /\ SendReply("sUpdErr", e[1].n, FALSE)
          /\ number' = e[1].n /\ UNCHANGED hup
       \/ /\ IF stage = "ready" THEN type \notin DOMAIN AnswersTo ELSE type # "cAuth"
          /\ UNCHANGED <<serviceVars, s2c, number, hup>>
  /\ UNCHANGED <<globals, threads, shut, typed, history>>

\* An answer; send() to a client that is gone may raise.
HandlerAnswers ==
  /\ stage = "busy"
  /\ UNCHANGED <<globals, threads, c2s, shut, typed, history, number, swallowed>>
  /\ \/ /\ \E type \in AnswersTo[doing] :
             /\ Reply(type)
             /\ \E long \in BOOLEAN : /\ long => type = "sDwnInfo"
                                      /\ SendReply(type, number, long)
        /\ UNCHANGED hup
     \/ Gone /\ Perish /\ hup' = TRUE /\ UNCHANGED s2c

HandlerGivesUp == LeaveUnanswered /\ UNCHANGED <<clientVars, sessionVars>>

\* The socket of a dead thread is closed when nothing refers to it any more;
\* `new_chan' of the accept loop does until the next client is accepted.
HandlerDies ==
  /\ Perish
  /\ hup' \in BOOLEAN
  /\ UNCHANGED <<clientVars, number, swallowed>>

NextClientAccepted ==
  /\ stage = "dead" /\ ~hup
  /\ hup' = TRUE
  /\ UNCHANGED <<clientVars, serviceVars, number, swallowed>>

HandlerHangsUp ==
  /\ Gone /\ c2s = <<>> /\ Close
  /\ hup' = TRUE
  /\ UNCHANGED <<clientVars, number, swallowed>>

Client ==
  \/ ClientConnects \/ (\E k \in DOMAIN s2c : ClientHears(k)) \/ ClientHearsEnd
  \/ ClientWorks

Handler ==
  \/ (\E k \in DOMAIN c2s : HandlerHears(k)) \/ HandlerAnswers \/ HandlerGivesUp
  \/ HandlerHangsUp

Next ==
  \/ Client \/ (\E line \in Lines : ClientSays(line)) \/ StdinEnds
  \/ \E t \in Timers : TimerWorks(t)
  \/ Handler \/ HandlerDies \/ NextClientAccepted

\* The handler's steps that nothing holds up: the waits of a synch have timeouts,
\* but an update or a download may wait for ever for the lock of a table, if a
\* thread died with it.
FreeHandler ==
  \/ (\E k \in DOMAIN c2s : HandlerHears(k)) \/ HandlerHangsUp
  \/ doing = "cSynch" /\ (HandlerAnswers \/ HandlerGivesUp)

\* Threads run, and what was sent arrives.  Nothing is assumed of the user, nor
\* of another client that may come.
Spec ==
  /\ Init /\ [][Next]_vars
  /\ WF_vars(Client) /\ WF_vars(FreeHandler) /\ \A t \in Timers : WF_vars(TimerWorks(t))
-----------------------------------------------------------------------------
Stages == {"fresh", "anonymous", "ready", "busy", "closed", "dead"}

\* Every variable has its type.
TypeOK ==
  /\ state \in Early \cup Late \cup {"main_init"}
  /\ s_data \in Seq(Priced)
  /\ t_synch \in Timers \cup {0}
  /\ main \in {"boot", "listen", "again", "act", "stopped", "crashed"}
  /\ branch \in Early \cup Late \cup {"none"}
  /\ timer \in [Timers -> {"idle", "armed", "fired", "ending", "giving_up", "done"}]
  /\ c2s \in Seq(PDU({"cAuth"} \cup DOMAIN AnswersTo))
  /\ s2c \in Seq(PDU({"sAuthOK", "sAuthErr"} \cup UNION {AnswersTo[k] : k \in DOMAIN AnswersTo}))
  /\ {quit, shut, late, raced, hup} \subseteq BOOLEAN
  /\ {typed, sent, number, swallowed} \subseteq Nat /\ sawQuit \subseteq Timers
  /\ stage \in Stages

\* A batch is never empty while the client waits for the answer to its first
\* query: p_updFile and p_updRem index it when the answer comes, whatever the
\* timers did to `state' and whatever the user typed meanwhile.
BatchHasItsQuery == state = "upd_wait" /\ ~Over => s_data # <<>>

\* Every variable has its type, and the automaton has the data of its state.
StateOK == TypeOK /\ BatchHasItsQuery

FromServer(e) == e.type \in {"sAuthOK", "sAuthErr", "sUpdOK", "sUpdErr", "sDwnInfo", "sSynOK"}

\* Where the requests and answers under way are: in either channel, with the
\* handler, or in the hands of the client's main thread.
InFlight ==
  {<<"c2s", i>> : i \in {k \in DOMAIN c2s : c2s[k].part # "tail"}}
    \cup {<<"s2c", i>> : i \in {k \in DOMAIN s2c : s2c[k].part # "tail"}}
    \cup (IF stage = "busy" THEN {<<"handler", 0>>} ELSE {})
    \cup (IF main \in {"again", "act"} /\ FromServer(event) THEN {<<"client", 0>>} ELSE {})

\* Why it works that one recv() is taken for one PDU: until a timer gives up a
\* synch there is one request or answer under way at a time, so that no two run
\* together.  What may be in the way all the same is the tail of one
\* longer than MTU or MAX_RECV.
OneInFlight == ~late => \A p, q \in InFlight : p = q

\* The answer that the client takes for the one it waits for answers its last
\* request: an sSynOK may come from a synch it gave up, any other may not,
\* unless a timer thread has overwritten the state of the wait.
TakesItsOwnAnswer ==
  [][/\ UpdOK \/ Done \/ AuthOK => event.n = sent \/ raced
     /\ SynOK => event.n = sent \/ late]_vars

\* A quit typed during a synch is kept: the client does not go back to its
\* prompt, unless a timer does it that had looked at the state before the quit
\* came.
QuitIsKept ==
  [][state = "syn_wait_quit" =>
       \/ state' = "syn_wait_quit"
       \/ \E t \in Timers \ sawQuit : timer[t] = "giving_up" /\ timer'[t] = "done"]_vars

\* A wait for anything but a synch has no timeout.  It ends all the same, if
\* the handler does not wait for ever for the lock of a table, the socket of a
\* dead handler is closed and no recv() swallowed a PDU.
AnswerEndsWait ==
  state \in {"main_auth_u", "main_auth_d", "main_auth_s", "upd_wait", "dwn_wait"} ~>
    \/ state = "main_ready" \/ Over
    \/ [](stage = "busy")
    \/ stage = "dead" /\ ~hup
    \/ swallowed > 0

\* Whatever the server does, a synch ends: answered, given up, or with the end
\* of the client, if the timer does not overtake the main thread.
TimerEndsSynch ==
  state \in {"syn_wait", "syn_wait_quit"} ~>
    state \notin {"syn_wait", "syn_wait_quit"} \/ Over \/ raced
=============================================================================
