------------------------------ MODULE Storage ------------------------------
(***************************************************************************)
(* storage.py, class DB and its subclass Cache: one SQLite connection and  *)
(* one cursor, shared by every thread of a server behind one               *)
(* threading.Lock.  Every method acquires the lock, executes a statement   *)
(* on the shared cursor, commits (writes) or fetches (queries), and        *)
(* releases the lock - without try/finally, so a statement that SQLite     *)
(* rejects ends the thread with the lock held.                             *)
(***************************************************************************)
EXTENDS TableOps

CONSTANT NoThread   \* the lock is free

VARIABLES
  table,    \* the committed rows
  work,     \* the rows as the connection sees them, uncommitted changes included
  cursor,   \* the rows of self.cur not fetched yet
  lock,     \* the thread that holds self.lock, or NoThread
  pc,       \* pc[t]: where thread t is in the method it called
  op,       \* op[t]: the method and arguments it called
  ret       \* ret[t]: what its last query returned

vars == <<table, work, cursor, lock, pc, op, ret>>

ASSUME NoThreadAssumption == NoThread \notin Threads

\* The abstract table's view of a thread: a write is done once it is committed,
\* a query once it is executed, and the rows of a query are its value whether
\* they are fetched yet or not.
StatusAt(place) ==
  IF place = "idle" THEN "idle"
  ELSE IF place = "dead" THEN "failed"
  ELSE IF place \in {"fetch", "release"} THEN "done" ELSE "called"

status == [t \in Threads |-> StatusAt(pc[t])]

val == [t \in Threads |-> IF pc[t] = "fetch" THEN cursor ELSE ret[t]]

T == INSTANCE Table WITH rows <- table, call <- op
-----------------------------------------------------------------------------
Init ==
  /\ table = {} /\ work = {} /\ cursor = {}
  /\ lock = NoThread
  /\ pc = [t \in Threads |-> "idle"]
  /\ op \in [Threads -> Ops]
  /\ ret = [t \in Threads |-> {}]

\* A thread calls get, _get, insert, update or remove: the query text is built.
Call(t, o) ==
  /\ pc[t] = "idle"
  /\ pc' = [pc EXCEPT ![t] = "acquire"]
  /\ op' = [op EXCEPT ![t] = o]
  /\ UNCHANGED <<table, work, cursor, lock, ret>>

\* Mutant of Acquire: the lock is never waited for.
AcquireWithoutWaiting(t) ==
  /\ pc[t] = "acquire"
  /\ lock' = t
  /\ pc' = [pc EXCEPT ![t] = "execute"]
  /\ UNCHANGED <<table, work, cursor, op, ret>>

\* self.lock.acquire()
Acquire(t) ==
  /\ pc[t] = "acquire"
  /\ lock = NoThread
  /\ lock' = t
  /\ pc' = [pc EXCEPT ![t] = "execute"]
  /\ UNCHANGED <<table, work, cursor, op, ret>>

\* self.cur.execute(query) of a SELECT.
ExecuteQuery(t) ==
  /\ pc[t] = "execute"
  /\ ~IsWrite(op[t]) /\ ~Rejects(work, op[t])
  /\ cursor' = Selected(work, op[t].keys)
  /\ pc' = [pc EXCEPT ![t] = "fetch"]
  /\ UNCHANGED <<table, work, lock, op, ret>>

\* self.cur.execute(query) of an INSERT, REPLACE or DELETE.
ExecuteWrite(t) ==
  /\ pc[t] = "execute"
  /\ IsWrite(op[t]) /\ ~Rejects(work, op[t])
  /\ work' = Effect(work, op[t])
  /\ cursor' = {}
  /\ pc' = [pc EXCEPT ![t] = "commit"]
  /\ UNCHANGED <<table, lock, op, ret>>

\* self.cur.execute(query) raises: the exception leaves the method before
\* self.lock.release() and ends the thread.
ExecuteRejected(t) ==
  /\ pc[t] = "execute"
  /\ Rejects(work, op[t])
  /\ pc' = [pc EXCEPT ![t] = "dead"]
  /\ UNCHANGED <<table, work, cursor, lock, op, ret>>

\* self.con.commit()
Commit(t) ==
  /\ pc[t] = "commit"
  /\ table' = work
  /\ pc' = [pc EXCEPT ![t] = "release"]
  /\ UNCHANGED <<work, cursor, lock, op, ret>>

\* r = self.cur.fetchall()
Fetch(t) ==
  /\ pc[t] = "fetch"
  /\ ret' = [ret EXCEPT ![t] = cursor]
  /\ cursor' = {}
  /\ pc' = [pc EXCEPT ![t] = "release"]
  /\ UNCHANGED <<table, work, lock, op>>

\* Mutant of Release: a return without the release.
ReleaseForgotten(t) ==
  /\ pc[t] = "release"
  /\ pc' = [pc EXCEPT ![t] = "idle"]
  /\ UNCHANGED <<table, work, cursor, lock, op, ret>>

\* self.lock.release() and the return.
Release(t) ==
  /\ pc[t] = "release"
  /\ lock' = NoThread
  /\ pc' = [pc EXCEPT ![t] = "idle"]
  /\ UNCHANGED <<table, work, cursor, op, ret>>

\* Mutant of Restart: the process comes back with the uncommitted rows on disk.
RestartDirty ==
  /\ table' = IF Persistent THEN work ELSE {}
  /\ work' = table'
  /\ cursor' = {}
  /\ lock' = NoThread
  /\ pc' = [t \in Threads |-> "idle"]
  /\ ret' = [t \in Threads |-> {}]
  /\ UNCHANGED op

\* The process ends and starts again (DB.__init__): the uncommitted change is
\* rolled back, the lock is a new one, and Cache opens an empty ':memory:'.
Restart ==
  /\ table' = IF Persistent THEN table ELSE {}
  /\ work' = table'
  /\ cursor' = {}
  /\ lock' = NoThread
  /\ pc' = [t \in Threads |-> "idle"]
  /\ ret' = [t \in Threads |-> {}]
  /\ UNCHANGED op

\* The steps of thread t inside the critical section.
Inside(t) ==
  \/ ExecuteQuery(t) \/ ExecuteWrite(t) \/ ExecuteRejected(t)
  \/ Commit(t) \/ Fetch(t) \/ Release(t)

Next ==
  \/ \E t \in Threads : (\E o \in Ops : Call(t, o)) \/ Acquire(t) \/ Inside(t)
  \/ Restart

\* A thread that holds the lock is scheduled; nothing is assumed of who gets
\* the lock next, which Python does not promise either.
Spec == Init /\ [][Next]_vars /\ \A t \in Threads : WF_vars(Inside(t))
-----------------------------------------------------------------------------
PCs == {"idle", "acquire", "execute", "commit", "fetch", "release", "dead"}

\* Every variable has its type.
TypeOK ==
  /\ table \subseteq Row /\ work \subseteq Row /\ cursor \subseteq Row
  /\ lock \in Threads \cup {NoThread}
  /\ pc \in [Threads -> PCs]
  /\ op \in [Threads -> Ops]
  /\ ret \in [Threads -> SUBSET Row]

\* The lock is held by t exactly while t is between acquire and release, or
\* has died there: the cursor and the transaction are one thread's at a time,
\* and a rejected statement leaves the lock taken for good.
HolderIsInside ==
  \A t \in Threads :
    lock = t <=> pc[t] \in {"execute", "commit", "fetch", "release", "dead"}

\* The shared cursor still holds the rows of the query its thread executed
\* when that thread comes to fetch them, and they are the committed rows.
FetchesOwnRows ==
  \A t \in Threads :
    pc[t] = "fetch" => /\ op[t].kind = "SELECT"
                       /\ cursor = Selected(table, op[t].keys)

\* What differs between the connection and the disk is the one write that is
\* about to commit: nothing dirty is ever left for another thread to commit.
OnlyTheWriterIsDirty ==
  /\ \A t \in Threads :
       pc[t] = "commit" => /\ IsWrite(op[t]) /\ ~Rejects(table, op[t])
                           /\ work = Effect(table, op[t])
  /\ (\A t \in Threads : pc[t] # "commit") => work = table

\* (store, item) is the primary key: server.py relies on 'entries' having at
\* most one element.
PrimaryKey == UniqueKeys(table) /\ UniqueKeys(work)

\* Inductive invariant: one thread at a time has the cursor and the transaction,
\* and what it fetches or commits is of its own statement.
IInv == TypeOK /\ HolderIsInside /\ FetchesOwnRows /\ OnlyTheWriterIsDirty

\* Storage implements the atomic table.
ImplementsTable == T!Spec

\* Whoever takes the lock gives it back, unless its statement was rejected
\* (or the process restarts): no method keeps the lock by itself.
LockComesBack ==
  \A t \in Threads : (lock = t) ~> (lock # t \/ pc[t] = "dead")
=============================================================================
