------------------------------- MODULE Table -------------------------------
(***************************************************************************)
(* What the price table of storage.py promises the threads of a server: a  *)
(* set of rows keyed by (store, item) on which every call takes effect in  *)
(* one step, between the moment a thread makes it and the moment it        *)
(* returns.  A statement that SQLite rejects never takes effect.           *)
(*                                                                         *)
(* Storage.tla, the code's lock, cursor, execute and commit, implements    *)
(* this specification; MainServer.tla uses the table in this atomic form.  *)
(***************************************************************************)
EXTENDS TableOps

VARIABLES
  rows,     \* the table
  status,   \* status[t]: "idle", "called", "done" or "failed"
  call,     \* call[t]: the call thread t last made
  val       \* val[t]: the rows its last query returned

vars == <<rows, status, call, val>>

Init ==
  /\ rows = {}
  /\ status = [t \in Threads |-> "idle"]
  /\ call \in [Threads -> Ops]
  /\ val = [t \in Threads |-> {}]

Call(t, o) ==
  /\ status[t] = "idle"
  /\ status' = [status EXCEPT ![t] = "called"]
  /\ call' = [call EXCEPT ![t] = o]
  /\ UNCHANGED <<rows, val>>

Apply(t) ==
  /\ status[t] = "called"
  /\ ~Rejects(rows, call[t])
  /\ rows' = Effect(rows, call[t])
  /\ val' = IF IsWrite(call[t]) THEN val
            ELSE [val EXCEPT ![t] = Selected(rows, call[t].keys)]
  /\ status' = [status EXCEPT ![t] = "done"]
  /\ UNCHANGED call

Fail(t) ==
  /\ status[t] = "called"
  /\ Rejects(rows, call[t])
  /\ status' = [status EXCEPT ![t] = "failed"]
  /\ UNCHANGED <<rows, call, val>>

Return(t) ==
  /\ status[t] = "done"
  /\ status' = [status EXCEPT ![t] = "idle"]
  /\ UNCHANGED <<rows, call, val>>

\* The server process ends and starts again: only a table on disk survives.
Restart ==
  /\ rows' = IF Persistent THEN rows ELSE {}
  /\ status' = [t \in Threads |-> "idle"]
  /\ val' = [t \in Threads |-> {}]
  /\ UNCHANGED call

Next ==
  \/ \E t \in Threads :
       \/ \E o \in Ops : Call(t, o)
       \/ Apply(t) \/ Fail(t) \/ Return(t)
  \/ Restart

Spec == Init /\ [][Next]_vars
=============================================================================
