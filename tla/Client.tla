------------------------------- MODULE Client -------------------------------
(***************************************************************************)
(* client.py: the loop of the main thread, its automaton process(), and    *)
(* the timers of synchs, threads that test and set the same globals.       *)
(*                                                                         *)
(* `main' is where the main thread is: "boot", "listen" (in select),       *)
(* "again" (between the test of main_ready and those of the states after   *)
(* it in the chain of elifs), "act" (in the branch it has chosen),         *)
(* "stopped" (left the loop), "crashed" (an exception nobody catches).     *)
(***************************************************************************)
EXTENDS Wire, Commands

CONSTANTS
  Lines,     \* what the user may type
  MayBeLong, \* the requests that may exceed the MAX_RECV of the server's recv()
  MaxTyped   \* bound: lines typed

ASSUME ClientAssumption == Lines \subseteq Line /\ MaxTyped \in Nat

Early == {"main_connected", "main_auth_u", "main_auth_d", "main_auth_s", "main_ready"}
Late == {"upd_wait", "dwn_wait", "syn_wait", "syn_wait_quit"}

\* Each synch has a timer of its own; t_synch is the number of the last one.
Timers == 1..MaxTyped

VARIABLES
  state, s_data, quit, t_synch,  \* the globals; s_data: the queries of an update
  main, branch, event,           \* the main thread: the branch, the event in hand
  timer,                         \* timer[t]: where the thread of timer t is
  c2s, s2c,                      \* the connection, each way
  shut,                          \* locsrv.shutdown(SHUT_RD) was called
  typed,                         \* lines typed so far
  sent,                          \* history: number of the last request sent
  late,                          \* history: a timer has ended a wait for an sSynOK
  raced,                         \* history: a timer has set `state' in another
                                 \* state than the one it had tested
  sawQuit                        \* history: the timers that tested a syn_wait_quit

globals == <<state, s_data, quit, t_synch>>
threads == <<main, branch, event, timer>>
wire == <<c2s, s2c, shut>>
history == <<sent, late, raced, sawQuit>>
clientVars == <<globals, threads, wire, typed, history>>

NoEvent == [type |-> "none"]

ClientInit ==
  /\ state = "main_init" /\ s_data = <<>> /\ quit = FALSE /\ t_synch = 0
  /\ main = "boot" /\ branch = "none" /\ event = NoEvent
  /\ timer = [t \in Timers |-> "idle"]
  /\ c2s = <<>> /\ s2c = <<>> /\ shut = FALSE
  /\ typed = 0 /\ sent = 0 /\ late = FALSE /\ raced = FALSE /\ sawQuit = {}

Over == main \in {"stopped", "crashed"}

\* Nothing more to do for this event: `while not quit'.
LoopUnless(stop) == main' = IF stop THEN "stopped" ELSE "listen"
Loop == LoopUnless(quit)

\* An event for process(): the first tests of the chain.
Dispatch(e) ==
  /\ event' = e
  /\ IF state \in Early THEN main' = "act" /\ branch' = state
                        ELSE main' = "again" /\ UNCHANGED branch

\* connection(), and `if locsrv'.
Connect ==
  /\ main = "boot"
  /\ \/ state' = "main_connected" /\ main' = "listen"
     \/ main' = "stopped" /\ UNCHANGED state
  /\ UNCHANGED <<s_data, quit, t_synch, branch, event, timer, wire, typed, history>>

\* sys.stdin is ready.
ReadStdin(line) ==
  LET e == read_stdin(line) IN
  /\ main = "listen" /\ typed < MaxTyped
  /\ typed' = typed + 1
  /\ UNCHANGED <<globals, timer, wire, history>>
  /\ \/ e = Exception /\ main' = "crashed" /\ UNCHANGED <<branch, event>>
     \/ e = Nothing /\ Loop /\ UNCHANGED <<branch, event>>
     \/ e \notin {Exception, Nothing} /\ Dispatch(e)

\* locsrv is ready: one recv(), of the first k pieces there.
ReadTcp(k) ==
  /\ main = "listen" /\ k \in DOMAIN s2c
  /\ s2c' = SubSeq(s2c, k + 1, Len(s2c))
  /\ \E e \in Received(SubSeq(s2c, 1, k)) :
       IF e = <<>> THEN Loop /\ UNCHANGED <<branch, event>> ELSE Dispatch(e[1])
  /\ UNCHANGED <<globals, timer, c2s, shut, typed, history>>

\* recv() returns nothing: ConnectionError, quit = True.
ReadEnd ==
  /\ main = "listen" /\ s2c = <<>>
  /\ main' = "stopped" /\ quit' = TRUE
  /\ UNCHANGED <<state, s_data, t_synch, branch, event, timer, wire, typed, history>>

\* The end of stdin (EOFError), or a connection that was reset (socket.error).
Crash ==
  /\ main = "listen"
  /\ main' = "crashed"
  /\ UNCHANGED <<globals, branch, event, timer, wire, typed, history>>

\* The second half of the chain of tests.
Again ==
  /\ main = "again"
  /\ main' = "act"
  /\ branch' = IF state \in Late THEN state ELSE "none"
  /\ UNCHANGED <<globals, event, timer, wire, typed, history>>
-----------------------------------------------------------------------------
\* The branches of process().

In(b, type) == main = "act" /\ branch = b /\ event.type = type

Send(type) ==
  \E pad, long \in BOOLEAN :
    /\ long => type \in MayBeLong
    /\ c2s' = c2s \o Pieces(Encode(type, sent', pad), long)
    /\ UNCHANGED <<s2c, shut>>

\* A request that answers will refer to.
Ask(type) == sent' = sent + 1 /\ Send(type) /\ UNCHANGED <<late, raced, sawQuit>>

Requests == {"iUpdate", "iDownload", "iSynch"}
Queries(e) == IF e.type = "iUpdate" THEN e.queries ELSE <<>>

AuthState ==
  [iUpdate |-> "main_auth_u", iDownload |-> "main_auth_d", iSynch |-> "main_auth_s"]

\* Mutant of FirstRequest: the request is sent along, before the answer to cAuth.
FirstRequestEager ==
  /\ main = "act" /\ branch = "main_connected" /\ event.type \in Requests
  /\ state' = AuthState[event.type] /\ s_data' = Queries(event)
  /\ sent' = sent + 1 /\ UNCHANGED <<late, raced, sawQuit>>
  /\ c2s' = c2s \o <<Encode("cAuth", sent', TRUE), Encode("cDownload", sent', TRUE)>>
  /\ Loop
  /\ UNCHANGED <<quit, t_synch, timer, s2c, shut>>

\* main_connected: the first command is kept until the server knows the user.
FirstRequest ==
  /\ main = "act" /\ branch = "main_connected" /\ event.type \in Requests
  /\ state' = AuthState[event.type] /\ s_data' = Queries(event)
  /\ Ask("cAuth") /\ Loop
  /\ UNCHANGED <<quit, t_synch, timer>>

\* iQuit where nothing is outstanding.
Quit ==
  /\ In("main_connected", "iQuit") \/ In("main_ready", "iQuit")
  /\ quit' = TRUE /\ LoopUnless(TRUE)
  /\ UNCHANGED <<state, s_data, t_synch, timer, wire, history>>

AuthErr ==
  /\ \E b \in {"main_auth_u", "main_auth_d", "main_auth_s"} : In(b, "sAuthErr")
  /\ quit' = TRUE /\ LoopUnless(TRUE)
  /\ UNCHANGED <<state, s_data, t_synch, timer, wire, history>>

\* state = upd_wait, then s_data['queries'][0]: IndexError for an empty batch.
StartUpdate(queries) ==
  /\ state' = "upd_wait" /\ s_data' = queries
  /\ IF queries = <<>> THEN main' = "crashed" /\ UNCHANGED <<wire, history>>
                       ELSE Ask("cUpdate") /\ Loop
  /\ UNCHANGED <<quit, t_synch, timer>>

StartDownload ==
  /\ state' = "dwn_wait" /\ Ask("cDownload") /\ Loop
  /\ UNCHANGED <<s_data, quit, t_synch, timer>>

\* a_synSetTimeout
StartSynch ==
  /\ state' = "syn_wait"
  /\ t_synch' = t_synch + 1 /\ timer' = [timer EXCEPT ![t_synch'] = "armed"]
  /\ Ask("cSynch") /\ Loop
  /\ UNCHANGED <<s_data, quit>>

AuthOK ==
  \/ In("main_auth_u", "sAuthOK") /\ StartUpdate(s_data)
  \/ In("main_auth_d", "sAuthOK") /\ StartDownload
  \/ In("main_auth_s", "sAuthOK") /\ StartSynch

NextRequest ==
  \/ In("main_ready", "iUpdate") /\ StartUpdate(event.queries)
  \/ In("main_ready", "iDownload") /\ StartDownload
  \/ In("main_ready", "iSynch") /\ StartSynch

p_updRem(batch) == [left |-> Tail(batch), more |-> Tail(batch) # <<>>]

\* Mutant of UpdOK: the state of the batch stays when its last query is done.
UpdOKStaying ==
  /\ In("upd_wait", "sUpdOK")
  /\ s_data' = Tail(s_data)
  /\ IF s_data' # <<>> THEN Ask("cUpdate") ELSE UNCHANGED <<wire, history>>
  /\ Loop
  /\ UNCHANGED <<state, quit, t_synch, timer>>

UpdOK ==
  LET rem == p_updRem(s_data) IN
  /\ In("upd_wait", "sUpdOK")
  /\ s_data' = rem.left
  /\ IF rem.more
     THEN /\ IF rem.left = <<>> THEN main' = "crashed" /\ UNCHANGED <<wire, history>>
                                ELSE Ask("cUpdate") /\ Loop
          /\ UNCHANGED state
     ELSE state' = "main_ready" /\ Loop /\ UNCHANGED <<wire, history>>
  /\ UNCHANGED <<quit, t_synch, timer>>

\* Mutant of Done: the end of a synch ends a download.
DoneByAnything ==
  /\ In("upd_wait", "sUpdErr") \/ In("dwn_wait", "sDwnInfo") \/ In("dwn_wait", "sSynOK")
  /\ state' = "main_ready" /\ Loop
  /\ UNCHANGED <<s_data, quit, t_synch, timer, wire, history>>

\* Mutant of Done: the state of a download stays.
DoneStaying ==
  /\ In("upd_wait", "sUpdErr") \/ In("dwn_wait", "sDwnInfo")
  /\ state' = (IF branch = "upd_wait" THEN "main_ready" ELSE state) /\ Loop
  /\ UNCHANGED <<s_data, quit, t_synch, timer, wire, history>>

\* sUpdErr ends the batch, sDwnInfo the download (p_dwnFile is never true).
Done ==
  /\ In("upd_wait", "sUpdErr") \/ In("dwn_wait", "sDwnInfo")
  /\ state' = "main_ready" /\ Loop
  /\ UNCHANGED <<s_data, quit, t_synch, timer, wire, history>>

\* t_synch.cancel() stops a timer that has not gone off yet.
Cancelled == IF timer[t_synch] = "armed" THEN [timer EXCEPT ![t_synch] = "done"] ELSE timer

SynOK ==
  /\ In("syn_wait", "sSynOK") \/ In("syn_wait_quit", "sSynOK")
  /\ timer' = Cancelled
  /\ IF branch = "syn_wait" THEN state' = "main_ready" /\ Loop /\ UNCHANGED quit
                            ELSE quit' = TRUE /\ LoopUnless(TRUE) /\ UNCHANGED state
  /\ UNCHANGED <<s_data, t_synch, wire, history>>

QuitAfterSynch ==
  /\ In("syn_wait", "iQuit")
  /\ state' = "syn_wait_quit" /\ Loop
  /\ UNCHANGED <<s_data, quit, t_synch, timer, wire, history>>

\* The events a branch has a use for; it drops all others.
Uses ==
  [b \in Early \cup Late \cup {"none"} |->
    CASE b \in {"main_connected", "main_ready"} -> Requests \cup {"iQuit"}
      [] b \in {"main_auth_u", "main_auth_d", "main_auth_s"} -> {"sAuthOK", "sAuthErr"}
      [] b = "upd_wait" -> {"sUpdOK", "sUpdErr"}
      [] b = "dwn_wait" -> {"sDwnInfo"}
      [] b = "syn_wait" -> {"sSynOK", "iQuit"}
      [] b = "syn_wait_quit" -> {"sSynOK"}
      [] b = "none" -> {}]

Drop ==
  /\ main = "act" /\ event.type \notin Uses[branch]
  /\ Loop
  /\ UNCHANGED <<globals, timer, wire, history>>

Act ==
  /\ \/ FirstRequest \/ Quit \/ AuthErr \/ AuthOK \/ NextRequest
     \/ UpdOK \/ Done \/ SynOK \/ QuitAfterSynch \/ Drop
  /\ branch' = "none" /\ event' = NoEvent
  /\ UNCHANGED typed
-----------------------------------------------------------------------------
\* The thread of a timer: a_synTimeout.

\* T_SYNCH has passed and cancel() was not called.
GoOff(t) ==
  /\ timer[t] = "armed"
  /\ timer' = [timer EXCEPT ![t] = "fired"]
  /\ UNCHANGED <<globals, main, branch, event, wire, typed, history>>

Tests(t, outcome) ==
  /\ timer[t] = "fired"
  /\ timer' = [timer EXCEPT ![t] = outcome]
  /\ sawQuit' = IF state = "syn_wait_quit" THEN sawQuit \cup {t} ELSE sawQuit
  /\ UNCHANGED <<globals, main, branch, event, wire, typed, sent, late, raced>>

\* Mutant of TestState: the timer gives the synch up whether or not a quit waits.
TestStateBlind(t) == Tests(t, "giving_up")

\* if state == client.syn_wait_quit
TestState(t) == Tests(t, IF state = "syn_wait_quit" THEN "ending" ELSE "giving_up")

EndClient(t) ==
  /\ timer[t] = "ending"
  /\ timer' = [timer EXCEPT ![t] = "done"]
  /\ quit' = TRUE /\ shut' = TRUE
  /\ UNCHANGED <<state, s_data, t_synch, main, branch, event, c2s, s2c, typed, history>>

\* Mutant of GiveUp: the timer leaves the state as it is.
GiveUpSilently(t) ==
  /\ timer[t] = "giving_up"
  /\ timer' = [timer EXCEPT ![t] = "done"]
  /\ UNCHANGED <<globals, main, branch, event, wire, typed, history>>

GiveUp(t) ==
  /\ timer[t] = "giving_up"
  /\ timer' = [timer EXCEPT ![t] = "done"]
  /\ state' = "main_ready"
  /\ late' = TRUE
  /\ raced' = (raced \/ state # "syn_wait" \/ (main = "act" /\ branch = "syn_wait"))
  /\ UNCHANGED <<s_data, quit, t_synch, main, branch, event, wire, typed, sent, sawQuit>>

Timer(t) == GoOff(t) \/ TestState(t) \/ EndClient(t) \/ GiveUp(t)
=============================================================================
