--------------------------- MODULE StorageProofs ---------------------------
(***************************************************************************)
(* The locking discipline of storage.py, for any number of threads, any    *)
(* rows and any calls: IInv is inductive, (store, item) stays a key, and   *)
(* every step of Storage is a step of the atomic table or a stutter.       *)
(***************************************************************************)
EXTENDS Storage, TLAPS

\* What an insertion leaves behind are rows.
LEMMA ReplacedType ==
  ASSUME NEW rows \in SUBSET Row, NEW new \in Row
  PROVE  Replaced(rows, new) \in SUBSET Row
BY DEF Replaced

\* The effect of a call on rows is rows.
LEMMA EffectType ==
  ASSUME NEW rows \in SUBSET Row, NEW o \in Ops, IsWrite(o)
  PROVE  Effect(rows, o) \in SUBSET Row
<1>1. CASE o.kind \in {"INSERT", "REPLACE"}
  <2>1. o.row \in Row
    BY <1>1, TableAssumption DEF Insertion, Query
  <2> QED BY <1>1, <2>1 DEF Effect, Replaced
<1>2. CASE o.kind = "DELETE"
  BY <1>2 DEF Effect, Selected
<1> QED BY <1>1, <1>2 DEF IsWrite

\* A write, whatever the call, keeps one row per key.
LEMMA EffectKeepsKeys ==
  ASSUME NEW rows, NEW o, IsWrite(o), UniqueKeys(rows)
  PROVE  UniqueKeys(Effect(rows, o))
<1>1. CASE o.kind \in {"INSERT", "REPLACE"}
  BY <1>1 DEF Effect, UniqueKeys, Replaced
<1>2. CASE o.kind = "DELETE"
  BY <1>2 DEF Effect, UniqueKeys, Selected
<1> QED BY <1>1, <1>2 DEF IsWrite
-----------------------------------------------------------------------------
LEMMA InitIInv == Init => IInv
<1> SUFFICES ASSUME Init PROVE IInv
  OBVIOUS
<1>1. TypeOK
  BY DEF Init, TypeOK, PCs
<1>2. HolderIsInside /\ FetchesOwnRows /\ OnlyTheWriterIsDirty
  BY NoThreadAssumption DEF Init, HolderIsInside, FetchesOwnRows, OnlyTheWriterIsDirty
<1> QED BY <1>1, <1>2 DEF IInv

LEMMA NextIInv == IInv /\ [Next]_vars => IInv'
<1> SUFFICES ASSUME IInv, [Next]_vars PROVE IInv'
  OBVIOUS
<1> USE NoThreadAssumption
<1> USE DEF IInv, TypeOK, PCs
<1>1. ASSUME NEW t \in Threads, NEW o \in Ops, Call(t, o) PROVE IInv'
  BY <1>1 DEF Call, HolderIsInside, FetchesOwnRows, OnlyTheWriterIsDirty
<1>2. ASSUME NEW t \in Threads, Acquire(t) PROVE IInv'
  BY <1>2 DEF Acquire, HolderIsInside, FetchesOwnRows, OnlyTheWriterIsDirty
<1>3. ASSUME NEW t \in Threads, ExecuteQuery(t) PROVE IInv'
  <2>1. op[t].kind = "SELECT" /\ op[t] \in Query
    BY <1>3, TableAssumption DEF ExecuteQuery, IsWrite, Insertion, Query
  <2>2. work = table
    BY <1>3 DEF ExecuteQuery, HolderIsInside, OnlyTheWriterIsDirty
  <2>3. TypeOK'
    BY <1>3 DEF ExecuteQuery, Selected
  <2>4. HolderIsInside'
    BY <1>3 DEF ExecuteQuery, HolderIsInside
  <2>5. FetchesOwnRows'
    BY <1>3, <2>1, <2>2 DEF ExecuteQuery, HolderIsInside, FetchesOwnRows
  <2>6. OnlyTheWriterIsDirty'
    BY <1>3, <2>2 DEF ExecuteQuery, HolderIsInside, OnlyTheWriterIsDirty
  <2> QED BY <2>3, <2>4, <2>5, <2>6
<1>4. ASSUME NEW t \in Threads, ExecuteWrite(t) PROVE IInv'
  <2>1. work = table
    BY <1>4 DEF ExecuteWrite, HolderIsInside, OnlyTheWriterIsDirty
  <2>2. TypeOK'
    BY <1>4, EffectType DEF ExecuteWrite
  <2>3. HolderIsInside' /\ FetchesOwnRows'
    BY <1>4 DEF ExecuteWrite, HolderIsInside, FetchesOwnRows
  <2>4. OnlyTheWriterIsDirty'
    BY <1>4, <2>1 DEF ExecuteWrite, HolderIsInside, OnlyTheWriterIsDirty
  <2> QED BY <2>2, <2>3, <2>4
<1>5. ASSUME NEW t \in Threads, ExecuteRejected(t) PROVE IInv'
  BY <1>5 DEF ExecuteRejected, HolderIsInside, FetchesOwnRows, OnlyTheWriterIsDirty
<1>6. ASSUME NEW t \in Threads, Commit(t) PROVE IInv'
  BY <1>6 DEF Commit, HolderIsInside, FetchesOwnRows, OnlyTheWriterIsDirty
<1>7. ASSUME NEW t \in Threads, Fetch(t) PROVE IInv'
  BY <1>7 DEF Fetch, HolderIsInside, FetchesOwnRows, OnlyTheWriterIsDirty
<1>8. ASSUME NEW t \in Threads, Release(t) PROVE IInv'
  BY <1>8 DEF Release, HolderIsInside, FetchesOwnRows, OnlyTheWriterIsDirty
<1>9. CASE Restart
  BY <1>9 DEF Restart, HolderIsInside, FetchesOwnRows, OnlyTheWriterIsDirty
<1>10. CASE UNCHANGED vars
  BY <1>10 DEF vars, HolderIsInside, FetchesOwnRows, OnlyTheWriterIsDirty
<1> QED BY <1>1, <1>2, <1>3, <1>4, <1>5, <1>6, <1>7, <1>8, <1>9, <1>10 DEF Next, Inside

\* The lock protects cursor and transaction: whoever is between acquire and
\* release holds it, fetches the rows of its own query, and commits its own
\* write.
THEOREM LockingIsSound == Spec => []IInv
BY InitIInv, NextIInv, PTL DEF Spec
-----------------------------------------------------------------------------
LEMMA InitPrimaryKey == Init => PrimaryKey
BY DEF Init, PrimaryKey, UniqueKeys

LEMMA NextPrimaryKey == IInv /\ PrimaryKey /\ [Next]_vars => PrimaryKey'
<1> SUFFICES ASSUME IInv, PrimaryKey, [Next]_vars PROVE PrimaryKey'
  OBVIOUS
<1>1. ASSUME NEW t \in Threads, ExecuteWrite(t) PROVE PrimaryKey'
  BY <1>1, EffectKeepsKeys DEF ExecuteWrite, PrimaryKey
<1>2. ASSUME NEW t \in Threads, Commit(t) PROVE PrimaryKey'
  BY <1>2 DEF Commit, PrimaryKey
<1>3. CASE Restart
  BY <1>3 DEF Restart, PrimaryKey, UniqueKeys
<1>4. CASE UNCHANGED <<table, work>>
  BY <1>4 DEF PrimaryKey
<1> QED
  BY <1>1, <1>2, <1>3, <1>4
     DEF Next, Inside, Call, Acquire, ExecuteQuery, ExecuteRejected, Fetch,
         Release, vars

\* Whatever threads do to a table, it has at most one row per (store, item).
THEOREM KeysAreUnique == Spec => []PrimaryKey
<1>1. Init => IInv /\ PrimaryKey
  BY InitIInv, InitPrimaryKey
<1>2. (IInv /\ PrimaryKey) /\ [Next]_vars => (IInv /\ PrimaryKey)'
  BY NextIInv, NextPrimaryKey
<1> QED BY <1>1, <1>2, PTL DEF Spec
-----------------------------------------------------------------------------
LEMMA InitRefines == Init => T!Init
BY DEF Init, T!Init, status, StatusAt, val

\* A commit (of a write) and the execution (of a query) are where a call takes
\* effect; acquiring the lock, executing a write and fetching are stutters.
LEMMA NextRefines == IInv /\ IInv' /\ [Next]_vars => [T!Next]_(T!vars)
<1> SUFFICES ASSUME IInv, IInv', [Next]_vars PROVE [T!Next]_(T!vars)
  OBVIOUS
<1> USE DEF IInv, TypeOK, PCs, status, StatusAt, val
<1>a. \A rows, o : /\ T!Rejects(rows, o) <=> Rejects(rows, o)
                   /\ T!IsWrite(o) <=> IsWrite(o)
  BY DEF T!Rejects, Rejects, T!IsWrite, IsWrite, T!Selected, Selected, T!Key, Key
<1>b. \A rows, keys : T!Selected(rows, keys) = Selected(rows, keys)
  BY DEF T!Selected, Selected, T!Key, Key
<1>c. \A rows, o : IsWrite(o) => T!Effect(rows, o) = Effect(rows, o)
  <2> SUFFICES ASSUME NEW rows, NEW o, IsWrite(o)
               PROVE  T!Effect(rows, o) = Effect(rows, o)
    OBVIOUS
  <2>1. CASE o.kind \in {"INSERT", "REPLACE"}
    BY <2>1 DEF T!Effect, Effect, T!Replaced, Replaced, T!Key, Key
  <2>2. CASE o.kind = "DELETE"
    BY <2>2, <1>b DEF T!Effect, Effect
  <2> QED BY <2>1, <2>2 DEF IsWrite
<1>1. ASSUME NEW t \in Threads, NEW o \in Ops, Call(t, o) PROVE T!Call(t, o)
  BY <1>1 DEF Call, T!Call
<1>2. ASSUME NEW t \in Threads, Acquire(t) \/ ExecuteWrite(t) \/ Fetch(t)
      PROVE  UNCHANGED T!vars
  <2>1. UNCHANGED <<table, op, status>>
    BY <1>2 DEF Acquire, ExecuteWrite, Fetch
  <2>2. UNCHANGED val
    BY <1>2 DEF Acquire, ExecuteWrite, Fetch, HolderIsInside
  <2> QED BY <2>1, <2>2 DEF T!vars
<1>3. ASSUME NEW t \in Threads, ExecuteQuery(t) PROVE T!Apply(t)
  <2>1. op[t].kind = "SELECT" /\ work = table
    BY <1>3, TableAssumption
       DEF ExecuteQuery, IsWrite, Insertion, Query, HolderIsInside, OnlyTheWriterIsDirty
  <2>2. T!Effect(table, op[t]) = table
    BY <2>1 DEF T!Effect
  <2>3. val' = [val EXCEPT ![t] = Selected(table, op[t].keys)]
    BY <1>3, <2>1 DEF ExecuteQuery, HolderIsInside
  <2> QED BY <1>3, <1>a, <1>b, <2>1, <2>2, <2>3 DEF ExecuteQuery, T!Apply
<1>4. ASSUME NEW t \in Threads, ExecuteRejected(t) PROVE T!Fail(t)
  <2>1. work = table
    BY <1>4 DEF ExecuteRejected, HolderIsInside, OnlyTheWriterIsDirty
  <2> QED BY <1>4, <1>a, <2>1 DEF ExecuteRejected, T!Fail
<1>5. ASSUME NEW t \in Threads, Commit(t) PROVE T!Apply(t)
  <2>1. IsWrite(op[t]) /\ ~Rejects(table, op[t]) /\ work = Effect(table, op[t])
    BY <1>5 DEF Commit, OnlyTheWriterIsDirty
  <2>2. UNCHANGED val
    BY <1>5 DEF Commit
  <2>3. status[t] = "called" /\ status' = [status EXCEPT ![t] = "done"]
    BY <1>5 DEF Commit
  <2> QED BY <1>5, <1>a, <1>c, <2>1, <2>2, <2>3 DEF Commit, T!Apply
<1>6. ASSUME NEW t \in Threads, Release(t) PROVE T!Return(t)
  BY <1>6 DEF Release, T!Return
<1>7. CASE Restart
  <2>1. status' = [t \in Threads |-> "idle"] /\ val' = [t \in Threads |-> {}]
    BY <1>7 DEF Restart
  <2>2. T!Restart
    BY <1>7, <2>1 DEF Restart, T!Restart
  <2> QED BY <2>2 DEF T!Next
<1>8. CASE UNCHANGED vars
  BY <1>8 DEF vars, T!vars
<1> QED
  BY <1>1, <1>2, <1>3, <1>4, <1>5, <1>6, <1>7, <1>8 DEF Next, Inside, T!Next

\* Storage implements the atomic table: T!Spec is a safety property.
THEOREM StorageIsAtomic == Spec => ImplementsTable
<1>1. Init => IInv /\ T!Init
  BY InitIInv, InitRefines
<1>2. IInv /\ [Next]_vars => IInv' /\ [T!Next]_(T!vars)
  BY NextIInv, NextRefines
<1> QED BY <1>1, <1>2, PTL DEF Spec, ImplementsTable, T!Spec
=============================================================================
