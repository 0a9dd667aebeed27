----------------------------- MODULE SettingsProofs -----------------------------
(***************************************************************************)
(* Proofs about Settings: types, the optimistic lock, and that the running *)
(* server follows its cache.                                               *)
(***************************************************************************)
EXTENDS Settings, TLAPS, FiniteSetTheorems, SequenceTheorems

USE DEF Goroutine

------------------------------------------------------------------------------
(* What the statements do to the table.                                    *)

LEMMA FirstRows == 2 * Cardinality(Instance) \in 0 .. MaxRows
  BY ConfigAssumption, FS_CardinalityType

LEMMA InsertTypes ==
    ASSUME TableOK, NEW s \in Seq(Value), Insert(s)
    PROVE  /\ TableOK'
           /\ inserted' >= inserted
           /\ \A k \in ids : k \in ids' /\ row'[k] = row[k]
           /\ \A k \in ids' \ ids : k > inserted
  <1>1. Len(s) \in Nat /\ DOMAIN s = 1 .. Len(s) /\ MaxRows \in Nat
    BY ConfigAssumption, LenProperties
  <1>2. inserted' \in 0 .. MaxRows /\ inserted' >= inserted
    BY <1>1 DEF Insert, TableOK
  <1>3. ids' \subseteq 1 .. inserted'
    <2>1. inserted \in Nat /\ inserted' = inserted + Len(s)
      BY <1>1 DEF Insert, TableOK
    <2>2. ids \subseteq 1 .. inserted' /\ NewIds(s) \subseteq 1 .. inserted'
      BY <1>1, <2>1 DEF TableOK, NewIds
    <2> QED
      BY <2>2 DEF Insert
  <1>4. written' \in Nat
    BY DEF Insert, TableOK
  <1>5. ASSUME NEW k \in NewIds(s) PROVE s[k - inserted] \in Value
    <2>1. k - inserted \in 1 .. Len(s)
      BY <1>1 DEF NewIds, TableOK
    <2> QED
      BY <1>1, <2>1, ElementOfSeq
  <1>6. row' \in [Id -> Row] /\ config' \in Accepted
    BY <1>4, <1>5 DEF Insert, TableOK, Row
  <1>7. \A k \in ids : k \in Id /\ k \notin NewIds(s)
    BY <1>1 DEF TableOK, NewIds, Id
  <1> QED
    BY <1>1, <1>2, <1>3, <1>4, <1>6, <1>7 DEF Insert, TableOK, NewIds

LEMMA UpdateTypes ==
    ASSUME TableOK, NEW v \in Value, NEW n \in Nat, Update(v, n)
    PROVE  /\ TableOK' /\ ids' = ids /\ inserted' = inserted
           /\ \A k \in ids :
                 \/ row'[k] = row[k]
                 \/ row[k].version = n /\ row'[k].version = n + 1
  <1>1. written' \in Nat
    BY DEF Update, TableOK
  <1>2. \A k \in Id : NewTime(k) \in Nat
    BY <1>1 DEF NewTime, TableOK, Row
  <1>3. row' \in [Id -> Row]
    BY <1>1, <1>2 DEF Update, TableOK, Row
  <1>4. ids \subseteq Id
    BY ConfigAssumption DEF TableOK, Id
  <1> QED
    BY <1>1, <1>3, <1>4 DEF Update, TableOK, Matching

------------------------------------------------------------------------------
(* Types.                                                                  *)

LEMMA GotoOK ==
    ASSUME ThreadsOK, NEW t \in Goroutine, NEW s, ThreadOK(s), Goto(t, s)
    PROVE  ThreadsOK'
  BY DEF ThreadsOK, ThreadOK, Goto

LEMMA IdleOK ==
    /\ ThreadOK(IdleThread)
    /\ \A i \in Instance : ThreadOK(Refreshing(i))
                         /\ ThreadOK([Refreshing(i) EXCEPT !.pc = "load"])
    /\ \A i \in Instance, v \in Value \cup {NoValue} : ThreadOK(Listing(i, v))
  BY DEF ThreadOK, IdleThread, Refreshing, Listing, ThreadState, PC

LEMMA WritingOK ==
    ASSUME NEW i \in Instance, NEW v \in Value, NEW n \in Nat,
           NEW pc \in {"create", "update", "local"}
    PROVE  /\ ThreadOK(Writing(pc, i, v, n))
           /\ ThreadOK([Writing(pc, i, v, n) EXCEPT !.replies = FALSE])
           /\ v \in Accepted => ThreadOK(Writing("save", i, v, n))
  BY DEF ThreadOK, Writing, ThreadState, PC

(* A goroutine that is on an instance goes on with another value.          *)
LEMMA GoingOn ==
    ASSUME NEW s \in ThreadState, s.on \in Instance, NEW pc \in PC
    PROVE  /\ \A v \in Value \cup {NoValue} :
                 pc \notin {"create", "update", "reread", "local", "save"}
                    => ThreadOK([s EXCEPT !.pc = pc, !.value = v])
           /\ \A n \in Nat :
                 s.value \in Value /\ pc # "save"
                    => ThreadOK([s EXCEPT !.pc = pc, !.version = n])
           /\ s.value \in Value /\ pc # "save" => ThreadOK([s EXCEPT !.pc = pc])
  <1>1. ASSUME NEW v \in Value \cup {NoValue},
               pc \notin {"create", "update", "reread", "local", "save"}
        PROVE  ThreadOK([s EXCEPT !.pc = pc, !.value = v])
    <2> DEFINE r == [s EXCEPT !.pc = pc, !.value = v]
    <2>1. r \in ThreadState
      BY DEF ThreadState
    <2>2. r.pc = pc /\ r.on = s.on
      BY DEF ThreadState
    <2> QED
      BY <1>1, <2>1, <2>2 DEF ThreadOK
  <1>2. ASSUME NEW n \in Nat, s.value \in Value, pc # "save"
        PROVE  ThreadOK([s EXCEPT !.pc = pc, !.version = n])
    <2> DEFINE r == [s EXCEPT !.pc = pc, !.version = n]
    <2>1. r \in ThreadState
      BY DEF ThreadState
    <2>2. r.pc = pc /\ r.on = s.on /\ r.value = s.value
      BY DEF ThreadState
    <2> QED
      BY <1>2, <2>1, <2>2 DEF ThreadOK
  <1>3. ASSUME s.value \in Value, pc # "save" PROVE ThreadOK([s EXCEPT !.pc = pc])
    BY <1>3 DEF ThreadOK, ThreadState
  <1> QED
    BY <1>1, <1>2, <1>3

LEMMA AtWork ==
    ASSUME ThreadsOK, NEW t \in Goroutine
    PROVE  /\ thread[t] \in ThreadState
           /\ thread[t].pc # "idle" => thread[t].on \in Instance
           /\ thread[t].pc \in {"create", "update", "reread", "local"}
                => thread[t].value \in Value
           /\ thread[t].pc = "save" => thread[t].value \in Accepted
           /\ thread[t].value \in Value \cup {NoValue}
           /\ thread[t].version \in Nat /\ thread[t].replies \in BOOLEAN
  BY DEF ThreadsOK, ThreadOK, ThreadState

LEMMA RowVersion ==
    ASSUME TableOK, NEW k \in ids
    PROVE  k \in Id /\ row[k].version \in Nat /\ row[k].value \in Value
  BY ConfigAssumption DEF TableOK, Row, Id

LEMMA NowCrossedOK ==
    ASSUME crossed \in [Instance -> BOOLEAN], NEW t, NEW i
    PROVE  NowCrossed(t, i) \in [Instance -> BOOLEAN]
  BY DEF NowCrossed

LEMMA AppliedOK ==
    ASSUME applied \in [Instance -> Accepted], direct \in [Instance -> BOOLEAN],
           NEW i, NEW v \in Value \cup {NoValue}
    PROVE  Applied(i, v) \in [Instance -> Accepted] /\ Direct(i, v) \in [Instance -> BOOLEAN]
  BY DEF Applied, Direct

LEMMA InitTypes == Init => TypeOK
  <1> SUFFICES ASSUME Init PROVE TypeOK
    OBVIOUS
  <1>1. inserted \in 0 .. MaxRows /\ ids \subseteq 1 .. inserted /\ written \in Nat
    BY FirstRows DEF Init
  <1>2. NoRow \in Row /\ [NoRow EXCEPT !.value = Configured] \in Row
    BY ConfigAssumption DEF NoRow, Row, Accepted
  <1>4. row \in [Id -> Row] /\ config \in Accepted
    BY <1>2, ConfigAssumption DEF Init
  <1>5. ThreadsOK
    BY IdleOK DEF Init, ThreadsOK, ThreadOK
  <1>6. known \in [Client -> Knowledge] /\ ops \in 0 .. MaxOps
    BY ConfigAssumption DEF Init, Knowledge, Nothing
  <1> QED
    BY <1>1, <1>4, <1>5, <1>6, ConfigAssumption DEF Init, TypeOK, TableOK

LEMMA RequestTypes ==
    ASSUME TypeOK, NEW c \in Client, Request(c)
    PROVE  TypeOK'
  <1>0. /\ TableOK /\ ThreadsOK /\ c \in Goroutine
        /\ known[c].version \in Nat /\ Reaches[c] \subseteq Instance
        /\ Enters[c] \subseteq Value
        /\ ops \in Nat /\ MaxOps \in Nat
    BY ConfigAssumption DEF TypeOK, Knowledge
  <1>1. CASE Get(c)
    <2>1. known' \in [Client -> Knowledge]
      BY <1>0, <1>1, RowVersion DEF Get, TypeOK, Knowledge, Nothing
    <2> QED
      BY <1>1, <2>1 DEF Get, TypeOK, TableOK, ThreadsOK, table, memory
  <1>2. ASSUME NEW i \in Reaches[c], NEW v \in Enters[c], Put(c, i, v) PROVE TypeOK'
    <2>1. ThreadsOK'
      BY <1>0, <1>2, WritingOK, GotoOK DEF Put
    <2> QED
      BY <1>0, <1>2, <2>1 DEF Put, Begin, TypeOK, TableOK, table, memory
  <1>3. ASSUME NEW i \in Reaches[c], NEW v \in Enters[c], PutAccount(c, i, v) PROVE TypeOK'
    <2>1. ThreadsOK'
      BY <1>0, <1>3, WritingOK, GotoOK DEF PutAccount
    <2> QED
      BY <1>0, <1>3, <2>1 DEF PutAccount, Begin, TypeOK, TableOK, table, memory
  <1>4. ASSUME NEW i \in Reaches[c], NEW v \in Enters[c], Batch(c, i, v) PROVE TypeOK'
    <2>1. ThreadsOK'
      BY <1>0, <1>4, IdleOK, GotoOK DEF Batch
    <2>2. <<v>> \in Seq(Value)
      BY <1>0
    <2>3. TableOK'
      BY <1>0, <1>4, <2>2, InsertTypes, UpdateTypes DEF Batch
    <2> QED
      BY <1>0, <1>4, <2>1, <2>3 DEF Batch, Begin, TypeOK, memory
  <1>5. ASSUME NEW i \in Reaches[c], Delete(c, i) PROVE TypeOK'
    <2>1. ThreadsOK'
      BY <1>0, <1>5, IdleOK, GotoOK DEF Delete
    <2>2. TableOK'
      BY <1>0, <1>5, ConfigAssumption DEF Delete, TableOK, NoRow, Row, Accepted
    <2> QED
      BY <1>0, <1>5, <2>1, <2>2 DEF Delete, Begin, TypeOK, memory
  <1>6. ASSUME NEW i \in Reaches[c], NEW v \in Enters[c], SetConfig(c, i, v) PROVE TypeOK'
    <2>1. ThreadsOK'
      BY <1>0, <1>6, WritingOK, GotoOK DEF SetConfig
    <2>2. /\ applied' \in [Instance -> Accepted]
          /\ direct' \in [Instance -> BOOLEAN]
      BY <1>6 DEF SetConfig, TypeOK
    <2> QED
      BY <1>0, <1>6, <2>1, <2>2 DEF SetConfig, Begin, TypeOK, TableOK, table
  <1> QED
    BY <1>1, <1>2, <1>3, <1>4, <1>5, <1>6 DEF Request

LEMMA HandleTypes ==
    ASSUME TypeOK, NEW c \in Client, Handle(c)
    PROVE  TypeOK'
  <1>0. /\ TableOK /\ ThreadsOK /\ c \in Goroutine
    BY DEF TypeOK
  <1>1. CASE Create(c)
    <2>1. ThreadOK([thread[c] EXCEPT !.pc = "reread"])
      BY <1>0, <1>1, AtWork DEF Create, ThreadOK, ThreadState, PC
    <2>2. ThreadsOK'
      BY <1>0, <1>1, <2>1, GotoOK DEF Create
    <2>3. <<thread[c].value>> \in Seq(Value)
      BY <1>0, <1>1, AtWork DEF Create
    <2>4. TableOK'
      BY <1>0, <1>1, <2>3, InsertTypes DEF Create
    <2> QED
      BY <1>1, <2>2, <2>4 DEF Create, TypeOK, memory
  <1>2. CASE UpdateRows(c)
    <2>1. ThreadOK([thread[c] EXCEPT !.pc = "reread"])
      BY <1>0, <1>2, AtWork DEF UpdateRows, ThreadOK, ThreadState, PC
    <2>2. ThreadsOK'
      BY <1>0, <1>2, <2>1, GotoOK DEF UpdateRows
    <2>3. TableOK'
      BY <1>0, <1>2, AtWork, UpdateTypes DEF UpdateRows
    <2> QED
      BY <1>2, <2>2, <2>3 DEF UpdateRows, TypeOK, memory
  <1>3. CASE UpdateConflicts(c)
    <2>1. ThreadsOK'
      BY <1>0, <1>3, IdleOK, GotoOK DEF UpdateConflicts
    <2> QED
      BY <1>3, <2>1 DEF UpdateConflicts, TypeOK, TableOK, table, memory
  <1>4. CASE Reread(c)
    <2>1. /\ ThreadOK([thread[c] EXCEPT !.pc = "local"])
          /\ \A n \in Nat : ThreadOK([thread[c] EXCEPT !.pc = "local", !.version = n])
      BY <1>0, <1>4, AtWork, GoingOn DEF Reread, PC
    <2>2. ThreadsOK'
      BY <1>0, <1>4, <2>1, RowVersion, GotoOK DEF Reread
    <2> QED
      BY <1>4, <2>2 DEF Reread, TypeOK, TableOK, table, memory
  <1>5. CASE UpdateLocal(c)
    <2>1. ThreadOK(Notifying(thread[c], thread[c].value))
      BY <1>0, <1>5, AtWork, GoingOn DEF UpdateLocal, Notifying, PC
    <2>2. ThreadsOK'
      BY <1>0, <1>5, <2>1, GotoOK DEF UpdateLocal
    <2>3. crossed' \in [Instance -> BOOLEAN]
      BY <1>5, NowCrossedOK DEF UpdateLocal, TypeOK
    <2>4. cache' \in [Instance -> Value \cup {NoValue}]
      BY <1>0, <1>5, AtWork DEF UpdateLocal, TypeOK
    <2> QED
      BY <1>5, <2>2, <2>3, <2>4 DEF UpdateLocal, TypeOK, TableOK, table
  <1>6. CASE List(c)
    <2>1. ThreadsOK'
      BY <1>0, <1>6, AtWork, IdleOK, GotoOK DEF List
    <2> QED
      BY <1>6, <2>1 DEF List, TypeOK, TableOK, table, memory
  <1>7. CASE SaveConfig(c)
    <2>1. ThreadsOK'
      BY <1>0, <1>7, IdleOK, GotoOK DEF SaveConfig
    <2>2. config' \in Accepted
      BY <1>0, <1>7, AtWork DEF SaveConfig
    <2> QED
      BY <1>7, <2>1, <2>2 DEF SaveConfig, TypeOK, TableOK, memory
  <1> QED
    BY <1>1, <1>2, <1>3, <1>4, <1>5, <1>6, <1>7 DEF Handle

LEMMA RefreshTypes ==
    ASSUME TypeOK, NEW t \in Goroutine, Refresh(t)
    PROVE  TypeOK'
  <1>0. TableOK /\ ThreadsOK
    BY DEF TypeOK
  <1>1. CASE Swap(t)
    <2>1. ThreadOK(Notifying(thread[t], thread[t].value))
      BY <1>0, <1>1, AtWork, GoingOn DEF Swap, Notifying, PC
    <2>2. ThreadsOK'
      BY <1>0, <1>1, <2>1, IdleOK, GotoOK DEF Swap
    <2>3. crossed' \in [Instance -> BOOLEAN]
      BY <1>1, NowCrossedOK DEF Swap, TypeOK
    <2>4. cache' \in [Instance -> Value \cup {NoValue}]
      BY <1>0, <1>1, AtWork DEF Swap, TypeOK
    <2> QED
      BY <1>1, <2>2, <2>3, <2>4 DEF Swap, TypeOK, TableOK, table
  <1>2. CASE Notify(t)
    <2>1. ThreadsOK'
      BY <1>0, <1>2, IdleOK, GotoOK DEF Notify
    <2>2. applied' \in [Instance -> Accepted] /\ direct' \in [Instance -> BOOLEAN]
      BY <1>0, <1>2, AtWork, AppliedOK DEF Notify, TypeOK
    <2>3. [Nothing EXCEPT !.version = thread[t].version] \in Knowledge
      BY <1>0, AtWork DEF Nothing, Knowledge
    <2>4. known' \in [Client -> Knowledge]
      BY <1>2, <2>3 DEF Notify, TypeOK
    <2> QED
      BY <1>2, <2>1, <2>2, <2>4 DEF Notify, TypeOK, TableOK, table
  <1> QED
    BY <1>1, <1>2 DEF Refresh

LEMMA ServerTypes ==
    ASSUME TypeOK, NEW i \in Instance, Watch(i) \/ Boot(i) \/ Restart(i)
    PROVE  TypeOK'
  <1>0. TableOK /\ ThreadsOK /\ i \in Goroutine
    BY DEF TypeOK
  <1>1. CASE Watch(i)
    <2>1. ThreadsOK'
      BY <1>0, <1>1, IdleOK, GotoOK DEF Watch
    <2> QED
      BY <1>1, <2>1 DEF Watch, TypeOK, TableOK, table, memory
  <1>2. CASE Load(i)
    <2>1. \A v \in Value \cup {NoValue} : ThreadOK([thread[i] EXCEPT !.pc = "start", !.value = v])
      BY <1>0, <1>2, AtWork, GoingOn DEF Load, PC
    <2>2. ThreadsOK'
      BY <1>0, <1>2, <2>1, GotoOK DEF Load
    <2> QED
      BY <1>2, <2>2 DEF Load, TypeOK, TableOK, table, memory
  <1>3. CASE Start(i)
    <2>1. ThreadsOK'
      BY <1>0, <1>3, IdleOK, GotoOK DEF Start
    <2>2. applied' \in [Instance -> Accepted] /\ direct' \in [Instance -> BOOLEAN]
      BY <1>0, <1>3, AtWork, AppliedOK DEF Start, TypeOK
    <2>3. cache' \in [Instance -> Value \cup {NoValue}]
      BY <1>0, <1>3, AtWork DEF Start, TypeOK
    <2> QED
      BY <1>3, <2>1, <2>2, <2>3 DEF Start, TypeOK, TableOK, table
  <1>4. CASE Restart(i)
    <2>1. ThreadsOK'
      BY <1>0, <1>4, IdleOK DEF Restart, ThreadsOK, ThreadOK
    <2>2. TableOK'
      <3>1. <<Default, config>> \in Seq(Value)
        BY <1>0, ConfigAssumption DEF TableOK, Accepted
      <3> QED
        BY <1>0, <1>4, <3>1, InsertTypes DEF Restart
    <2>3. /\ cache' \in [Instance -> Value \cup {NoValue}]
          /\ applied' \in [Instance -> Accepted]
          /\ direct' \in [Instance -> BOOLEAN]
          /\ crossed' \in [Instance -> BOOLEAN]
          /\ ops' \in 0 .. MaxOps
      BY <1>4 DEF Restart, TypeOK, TableOK
    <2> QED
      BY <1>4, <2>1, <2>2, <2>3 DEF Restart, TypeOK
  <1> QED
    BY <1>1, <1>2, <1>3, <1>4 DEF Boot

LEMMA TypeStep == TypeOK /\ [Next]_vars => TypeOK'
  <1> SUFFICES ASSUME TypeOK, [Next]_vars PROVE TypeOK'
    OBVIOUS
  <1>1. CASE UNCHANGED vars
    BY <1>1 DEF vars, TypeOK, TableOK, ThreadsOK, table, memory
  <1> QED
    BY <1>1, RequestTypes, HandleTypes, RefreshTypes, ServerTypes DEF Next

(* Every variable keeps its type, and every goroutine at work is on an     *)
(* instance.                                                               *)
THEOREM TypeCorrect == Spec => []TypeOK
  BY InitTypes, TypeStep, PTL DEF Spec

------------------------------------------------------------------------------
(* The optimistic lock.                                                    *)

(* The version of a row only grows, so one that a client read earlier      *)
(* either is past or still stands for the value read with it.              *)
KnownVersions ==
    \A c \in Client, k \in ids :
        known[c].id = k =>
            /\ known[c].version <= row[k].version
            /\ known[c].version = row[k].version => known[c].value = row[k].value

(* A client waits for its answer before it learns another version.         *)
SendsKnown ==
    \A c \in Client : thread[c].pc = "update" => thread[c].version = known[c].version

(* Ids are not given out twice.                                            *)
KnownIds == \A c \in Client : known[c].id <= inserted

LockInv == KnownVersions /\ SendsKnown /\ KnownIds

LEMMA TableKeepsLock ==
    ASSUME TypeOK, TypeOK', LockInv, known' = known, inserted' >= inserted,
           \A k \in ids' : k \in ids \/ k > inserted,
           \A k \in ids \cap ids' :
              row'[k] = row[k] \/ row'[k].version = row[k].version + 1
    PROVE  KnownVersions' /\ KnownIds'
  <1>1. /\ inserted \in Nat /\ inserted' \in Nat
        /\ \A c \in Client : known[c].id \in Nat /\ known[c].version \in Nat
        /\ \A k \in ids : k \in Nat /\ row[k].version \in Nat
    BY RowVersion, ConfigAssumption DEF TypeOK, TableOK, Knowledge, Id, NoId
  <1>2. KnownIds'
    BY <1>1 DEF LockInv, KnownIds
  <1>3. ASSUME NEW c \in Client, NEW k \in ids', known'[c].id = k
        PROVE  /\ known'[c].version <= row'[k].version
               /\ known'[c].version = row'[k].version => known'[c].value = row'[k].value
    <2>1. k \in ids
      BY <1>1, <1>3 DEF LockInv, KnownIds
    <2>2. row'[k] = row[k] \/ row'[k].version = row[k].version + 1
      BY <1>3, <2>1
    <2> QED
      BY <1>1, <1>3, <2>1, <2>2 DEF LockInv, KnownVersions
  <1> QED
    BY <1>2, <1>3 DEF KnownVersions

LEMMA InitLock == Init => LockInv
  <1> SUFFICES ASSUME Init PROVE LockInv
    OBVIOUS
  <1>1. inserted \in Nat /\ ids = 1 .. inserted
    BY FirstRows DEF Init
  <1>2. \A c \in Client : known[c].id = 0 /\ thread[c].pc = "idle"
    BY ConfigAssumption DEF Init, Nothing, NoId, IdleThread
  <1> QED
    BY <1>1, <1>2 DEF LockInv, KnownVersions, SendsKnown, KnownIds

(* The threads of the clients may move as long as none comes to "update".  *)
LEMMA QuietKeepsSending ==
    ASSUME SendsKnown, known' = known,
           \A c \in Client : thread'[c] = thread[c] \/ thread'[c].pc # "update"
    PROVE  SendsKnown'
  BY DEF SendsKnown

(* No row and no knowledge changes.                                        *)
LEMMA SameTableKeepsLock ==
    ASSUME TypeOK, TypeOK', LockInv, UNCHANGED <<ids, row, inserted, known>>
    PROVE  KnownVersions' /\ KnownIds'
  BY DEF LockInv, KnownVersions, KnownIds

(* What a statement of a handler or a start may do to the rows there are.  *)
LEMMA InsertKeepsLock ==
    ASSUME TypeOK, TypeOK', LockInv, known' = known, NEW s \in Seq(Value), Insert(s)
    PROVE  KnownVersions' /\ KnownIds'
  <1>1. /\ inserted' >= inserted
        /\ \A k \in ids : k \in ids' /\ row'[k] = row[k]
        /\ \A k \in ids' \ ids : k > inserted
    BY InsertTypes DEF TypeOK
  <1> QED
    BY <1>1, TableKeepsLock

LEMMA UpdateKeepsLock ==
    ASSUME TypeOK, TypeOK', LockInv, known' = known,
           NEW v \in Value, NEW n \in Nat, Update(v, n)
    PROVE  KnownVersions' /\ KnownIds'
  <1>1. /\ ids' = ids /\ inserted' = inserted
        /\ \A k \in ids :
              row'[k] = row[k] \/ row'[k].version = row[k].version + 1
    BY UpdateTypes DEF TypeOK
  <1>2. inserted' >= inserted
    BY <1>1 DEF TypeOK, TableOK
  <1> QED
    BY <1>1, <1>2, TableKeepsLock

LEMMA RequestLock ==
    ASSUME TypeOK, TypeOK', LockInv, NEW c \in Client, Request(c)
    PROVE  LockInv'
  <1>0. /\ TableOK /\ ThreadsOK /\ c \in Goroutine /\ SendsKnown
        /\ known[c].version \in Nat /\ thread \in [Goroutine -> ThreadState]
        /\ Enters[c] \subseteq Value
    BY ConfigAssumption DEF TypeOK, Knowledge, ThreadsOK, LockInv
  <1>1. CASE Get(c)
    <2>1. SendsKnown'
      BY <1>0, <1>1 DEF Get, SendsKnown, TypeOK
    <2>2. CASE ids = {} /\ known' = [known EXCEPT ![c] = Nothing]
      BY <1>0, <1>1, <2>1, <2>2 DEF Get, LockInv, KnownVersions, KnownIds, TypeOK, table,
         Nothing, NoId, TableOK
    <2>3. ASSUME NEW k \in ids,
                 known' = [known EXCEPT ![c] = [id |-> k, value |-> row[k].value,
                                                version |-> row[k].version]]
          PROVE  LockInv'
      <3>1. k <= inserted /\ row[k].version \in Nat
        BY <1>0, RowVersion DEF TableOK
      <3> QED
        BY <1>1, <2>1, <2>3, <3>1 DEF Get, LockInv, KnownVersions, KnownIds, TypeOK, table
    <2> QED
      BY <1>1, <2>2, <2>3 DEF Get
  <1>2. ASSUME NEW i \in Reaches[c], NEW v \in Enters[c], Put(c, i, v) PROVE LockInv'
    <2>1. SendsKnown'
      BY <1>0, <1>2 DEF Put, Goto, Writing, SendsKnown
    <2> QED
      BY <1>2, <2>1, SameTableKeepsLock DEF Put, LockInv, table
  <1>3. ASSUME NEW i \in Reaches[c], NEW v \in Enters[c], PutAccount(c, i, v) PROVE LockInv'
    <2>1. SendsKnown'
      BY <1>0, <1>3 DEF PutAccount, Goto, Writing, SendsKnown
    <2> QED
      BY <1>3, <2>1, SameTableKeepsLock DEF PutAccount, LockInv, table
  <1>4. ASSUME NEW i \in Reaches[c], NEW v \in Enters[c], Batch(c, i, v) PROVE LockInv'
    <2>1. SendsKnown'
      BY <1>0, <1>4 DEF Batch, Goto, Refreshing, IdleThread, SendsKnown
    <2>2. <<v>> \in Seq(Value)
      BY <1>0
    <2>3. KnownVersions' /\ KnownIds'
      BY <1>0, <1>4, <2>2, InsertKeepsLock, UpdateKeepsLock DEF Batch
    <2> QED
      BY <2>1, <2>3 DEF LockInv
  <1>5. ASSUME NEW i \in Reaches[c], Delete(c, i) PROVE LockInv'
    <2>1. SendsKnown'
      BY <1>0, <1>5 DEF Delete, Goto, Refreshing, IdleThread, SendsKnown
    <2> QED
      BY <1>5, <2>1 DEF Delete, LockInv, KnownVersions, KnownIds
  <1>6. ASSUME NEW i \in Reaches[c], NEW v \in Enters[c], SetConfig(c, i, v) PROVE LockInv'
    <2>1. SendsKnown'
      BY <1>0, <1>6 DEF SetConfig, Goto, Writing, SendsKnown
    <2> QED
      BY <1>6, <2>1, SameTableKeepsLock DEF SetConfig, LockInv, table
  <1> QED
    BY <1>1, <1>2, <1>3, <1>4, <1>5, <1>6 DEF Request

LEMMA HandleLock ==
    ASSUME TypeOK, TypeOK', LockInv, NEW c \in Client, Handle(c)
    PROVE  LockInv'
  <1>0. /\ TableOK /\ ThreadsOK /\ c \in Goroutine /\ SendsKnown
        /\ thread \in [Goroutine -> ThreadState]
    BY DEF TypeOK, ThreadsOK, LockInv
  <1>1. CASE Create(c)
    <2>1. SendsKnown'
      BY <1>0, <1>1 DEF Create, Goto, ThreadState, SendsKnown
    <2>2. <<thread[c].value>> \in Seq(Value)
      BY <1>0, <1>1, AtWork DEF Create
    <2> QED
      BY <1>1, <2>1, <2>2, InsertKeepsLock DEF Create, LockInv
  <1>2. CASE UpdateRows(c)
    <2>1. SendsKnown'
      BY <1>0, <1>2 DEF UpdateRows, Goto, ThreadState, SendsKnown
    <2> QED
      BY <1>0, <1>2, <2>1, AtWork, UpdateKeepsLock DEF UpdateRows, LockInv
  <1>3. CASE UpdateConflicts(c)
    <2>1. SendsKnown'
      BY <1>0, <1>3 DEF UpdateConflicts, Goto, IdleThread, SendsKnown
    <2> QED
      BY <1>3, <2>1, SameTableKeepsLock DEF UpdateConflicts, LockInv, table
  <1>4. CASE Reread(c)
    <2>1. SendsKnown'
      BY <1>0, <1>4 DEF Reread, Goto, ThreadState, SendsKnown
    <2> QED
      BY <1>4, <2>1, SameTableKeepsLock DEF Reread, LockInv, table
  <1>5. CASE UpdateLocal(c)
    <2>1. SendsKnown'
      BY <1>0, <1>5 DEF UpdateLocal, Goto, Notifying, ThreadState, SendsKnown
    <2> QED
      BY <1>5, <2>1, SameTableKeepsLock DEF UpdateLocal, LockInv, table
  <1>6. CASE List(c)
    <2>1. SendsKnown'
      BY <1>0, <1>6 DEF List, Goto, Listing, IdleThread, SendsKnown
    <2> QED
      BY <1>6, <2>1, SameTableKeepsLock DEF List, LockInv, table
  <1>7. CASE SaveConfig(c)
    <2>1. SendsKnown'
      BY <1>0, <1>7 DEF SaveConfig, Goto, IdleThread, SendsKnown
    <2> QED
      BY <1>7, <2>1, SameTableKeepsLock DEF SaveConfig, LockInv
  <1> QED
    BY <1>1, <1>2, <1>3, <1>4, <1>5, <1>6, <1>7 DEF Handle

LEMMA RefreshLock ==
    ASSUME TypeOK, TypeOK', LockInv, NEW t \in Goroutine, Refresh(t)
    PROVE  LockInv'
  <1>0. /\ thread \in [Goroutine -> ThreadState] /\ SendsKnown
        /\ inserted \in Nat /\ ids \subseteq 1 .. inserted
        /\ known \in [Client -> Knowledge]
    BY DEF TypeOK, ThreadsOK, LockInv, TableOK
  <1>1. CASE Swap(t)
    <2>1. known' = known /\ \A u \in Goroutine \ {t} : thread'[u] = thread[u]
      BY <1>0, <1>1 DEF Swap, Goto
    <2>2. IdleThread.pc # "update" /\ Notifying(thread[t], thread[t].value).pc # "update"
      BY <1>0 DEF Notifying, IdleThread, ThreadState
    <2>3. thread'[t].pc # "update"
      BY <1>0, <1>1, <2>2 DEF Swap, Goto
    <2>4. SendsKnown'
      BY <1>0, <2>1, <2>3, QuietKeepsSending
    <2> QED
      BY <1>1, <2>4, SameTableKeepsLock DEF Swap, LockInv, table
  <1>2. CASE Notify(t)
    <2>1. \A c \in Client : c # t => thread'[c] = thread[c] /\ known'[c] = known[c]
      BY <1>0, <1>2 DEF Notify, Goto
    <2>2. thread'[t].pc = "idle"
      BY <1>0, <1>2 DEF Notify, Goto, IdleThread
    <2>3. SendsKnown'
      BY <1>0, <2>1, <2>2 DEF SendsKnown
    <2>4. \A c \in Client : known'[c] = known[c] \/ known'[c].id = 0
      BY <1>0, <1>2 DEF Notify, Nothing, NoId
    <2> QED
      BY <1>0, <1>2, <2>3, <2>4 DEF Notify, LockInv, KnownVersions, KnownIds, table
  <1> QED
    BY <1>1, <1>2 DEF Refresh

LEMMA ServerLock ==
    ASSUME TypeOK, TypeOK', LockInv, NEW i \in Instance, Watch(i) \/ Boot(i) \/ Restart(i)
    PROVE  LockInv'
  <1>0. /\ thread \in [Goroutine -> ThreadState] /\ SendsKnown /\ i \in Goroutine
        /\ \A c \in Client : c # i
    BY ConfigAssumption DEF TypeOK, ThreadsOK, LockInv
  <1>1. CASE Watch(i)
    <2>1. SendsKnown'
      BY <1>0, <1>1 DEF Watch, Goto, SendsKnown
    <2> QED
      BY <1>1, <2>1, SameTableKeepsLock DEF Watch, LockInv, table
  <1>2. CASE Load(i)
    <2>1. SendsKnown'
      BY <1>0, <1>2 DEF Load, Goto, SendsKnown
    <2> QED
      BY <1>2, <2>1, SameTableKeepsLock DEF Load, LockInv, table
  <1>3. CASE Start(i)
    <2>1. SendsKnown'
      BY <1>0, <1>3 DEF Start, Goto, SendsKnown
    <2> QED
      BY <1>3, <2>1, SameTableKeepsLock DEF Start, LockInv, table
  <1>4. CASE Restart(i)
    <2>1. SendsKnown'
      BY <1>0, <1>4 DEF Restart, IdleThread, SendsKnown
    <2> QED
      <3>1. <<Default, config>> \in Seq(Value)
        BY ConfigAssumption DEF TypeOK, TableOK, Accepted
      <3> QED
        BY <1>4, <2>1, <3>1, InsertKeepsLock DEF Restart, LockInv
  <1> QED
    BY <1>1, <1>2, <1>3, <1>4 DEF Boot

LEMMA LockStep == TypeOK /\ TypeOK' /\ LockInv /\ [Next]_vars => LockInv'
  <1> SUFFICES ASSUME TypeOK, TypeOK', LockInv, [Next]_vars PROVE LockInv'
    OBVIOUS
  <1>1. CASE UNCHANGED vars
    <2>1. SendsKnown'
      BY <1>1 DEF vars, LockInv, SendsKnown
    <2> QED
      BY <1>1, <2>1, SameTableKeepsLock DEF vars, LockInv, table
  <1> QED
    BY <1>1, RequestLock, HandleLock, RefreshLock, ServerLock DEF Next

(* A write changes only rows that still have the version it was sent with. *)
OverwritesKnown ==
    \A c \in Client, k \in ids \cap ids' :
        thread'[c] # thread[c] /\ row'[k] # row[k] /\ known[c].id = k
            => row[k].value = known[c].value

LEMMA WriterKnows ==
    ASSUME TypeOK, LockInv, NEW c \in Client, NEW v \in Value,
           Update(v, known[c].version),
           \A d \in Client : d # c => thread'[d] = thread[d]
    PROVE  OverwritesKnown
  <1>1. known[c].version \in Nat
    BY DEF TypeOK, Knowledge
  <1>2. \A k \in ids : row'[k] = row[k] \/ row[k].version = known[c].version
    BY <1>1, UpdateTypes DEF TypeOK
  <1> QED
    BY <1>2 DEF OverwritesKnown, LockInv, KnownVersions

LEMMA InsertOverwritesNothing ==
    ASSUME TypeOK, NEW s \in Seq(Value), Insert(s)
    PROVE  OverwritesKnown
  BY InsertTypes DEF OverwritesKnown, TypeOK

LEMMA LockHolds == TypeOK /\ LockInv /\ [Next]_vars => OverwritesKnown
  <1> SUFFICES ASSUME TypeOK, LockInv, [Next]_vars PROVE OverwritesKnown
    OBVIOUS
  <1>0. thread \in [Goroutine -> ThreadState] /\ TableOK /\ ThreadsOK
        /\ \A c \in Client : Enters[c] \subseteq Value
    BY ConfigAssumption DEF TypeOK, ThreadsOK
  <1>1. CASE row' = row
    BY <1>1 DEF OverwritesKnown
  <1>2. ASSUME NEW c \in Client, NEW i \in Reaches[c], NEW v \in Enters[c], Batch(c, i, v)
        PROVE  OverwritesKnown
    <2>1. <<v>> \in Seq(Value) /\ \A d \in Client : d # c => thread'[d] = thread[d]
      BY <1>0, <1>2 DEF Batch, Goto
    <2> QED
      BY <1>0, <1>2, <2>1, WriterKnows, InsertOverwritesNothing DEF Batch
  <1>3. ASSUME NEW c \in Client, NEW i \in Reaches[c], Delete(c, i) PROVE OverwritesKnown
    BY <1>3 DEF Delete, OverwritesKnown
  <1>4. ASSUME NEW c \in Client, Create(c) PROVE OverwritesKnown
    <2>1. <<thread[c].value>> \in Seq(Value)
      BY <1>0, <1>4, AtWork DEF Create
    <2> QED
      BY <1>4, <2>1, InsertOverwritesNothing DEF Create
  <1>5. ASSUME NEW c \in Client, UpdateRows(c) PROVE OverwritesKnown
    <2>1. thread[c].value \in Value /\ thread[c].version = known[c].version
      BY <1>0, <1>5, AtWork DEF UpdateRows, LockInv, SendsKnown
    <2>2. \A d \in Client : d # c => thread'[d] = thread[d]
      BY <1>0, <1>5 DEF UpdateRows, Goto
    <2> QED
      BY <1>5, <2>1, <2>2, WriterKnows DEF UpdateRows
  <1>6. ASSUME NEW i \in Instance, Restart(i) PROVE OverwritesKnown
    <2>1. <<Default, config>> \in Seq(Value)
      BY <1>0, ConfigAssumption DEF TableOK, Accepted
    <2> QED
      BY <1>6, <2>1, InsertOverwritesNothing DEF Restart
  <1>7. ASSUME NEW c \in Client, Request(c) PROVE OverwritesKnown
    BY <1>1, <1>2, <1>3, <1>7 DEF Request, Get, Put, PutAccount, SetConfig, table
  <1>8. ASSUME NEW c \in Client, Handle(c) PROVE OverwritesKnown
    BY <1>1, <1>4, <1>5, <1>8 DEF Handle, UpdateConflicts, Reread, UpdateLocal, List, SaveConfig,
       table
  <1>9. ASSUME NEW t \in Goroutine, Refresh(t) PROVE OverwritesKnown
    BY <1>1, <1>9 DEF Refresh, Swap, Notify, table
  <1>10. ASSUME NEW i \in Instance, Watch(i) \/ Boot(i) \/ Restart(i) PROVE OverwritesKnown
    BY <1>1, <1>6, <1>10 DEF Watch, Boot, Load, Start, table
  <1>11. CASE UNCHANGED vars
    BY <1>1, <1>11 DEF vars, table
  <1> QED
    BY <1>7, <1>8, <1>9, <1>10, <1>11 DEF Next

(* A client that has read a row and writes with its version overwrites in  *)
(* that row exactly the value it has read.                                 *)
THEOREM NoLostUpdateHolds == Spec => NoLostUpdate
  <1>1. Init => LockInv
    BY InitLock
  <1>2. TypeOK /\ TypeOK' /\ LockInv /\ [Next]_vars => LockInv'
    BY LockStep
  <1>3. TypeOK /\ LockInv /\ [Next]_vars => [OverwritesKnown]_vars
    BY LockHolds
  <1>4. Spec => [][OverwritesKnown]_vars
    BY <1>1, <1>2, <1>3, TypeCorrect, PTL DEF Spec
  <1> QED
    BY <1>4 DEF NoLostUpdate, OverwritesKnown
------------------------------------------------------------------------------
(* The running server and the cache.  A goroutine that has changed the     *)
(* cache of an instance tells the callbacks what it has put there; as long *)
(* as one at a time does, the last value told is the one in the cache.     *)

Tells(t, i) == thread[t].pc = "notify" /\ thread[t].on = i

InOrder(i) ==
    /\ \A t, u \in Goroutine : Tells(t, i) /\ Tells(u, i) => t = u
    /\ \A t \in Goroutine : Tells(t, i) => thread[t].value = cache[i]
    /\ Told(i) /\ ~direct[i] /\ cache[i] \in Accepted => applied[i] = cache[i]

(* Nobody is on an instance that starts, and the goroutine of an instance  *)
(* is on no other.                                                         *)
Booting(t) == thread[t].pc \in {"load", "start"}
Alone(i) ==
    Booting(i) => cache[i] = NoValue /\ \A t \in Goroutine \ {i} : thread[t].on # i
AtHome == \A i \in Instance : thread[i].on \in {i, Nowhere}

Following ==
    /\ AtHome
    /\ \A i \in Instance : Alone(i) /\ (crossed[i] \/ InOrder(i))

LEMMA InitFollowing == Init => Following
  <1> SUFFICES ASSUME Init PROVE Following
    OBVIOUS
  <1>1. \A t \in Goroutine : /\ t \in Instance => thread[t].pc = "load" /\ thread[t].on = t
                             /\ t \notin Instance => thread[t].on = Nowhere
                             /\ thread[t].pc # "notify"
    BY DEF Init, IdleThread, Refreshing
  <1>2. \A i \in Instance : cache[i] = NoValue
    BY DEF Init
  <1>3. AtHome
    BY <1>1 DEF AtHome
  <1>4. \A i \in Instance : Alone(i) /\ InOrder(i)
    BY <1>1, <1>2, ConfigAssumption DEF Alone, InOrder, Tells, Accepted
  <1> QED
    BY <1>3, <1>4 DEF Following

LEMMA Apart == \A t \in Client : t \notin Instance
  BY ConfigAssumption

(* A goroutine does something else, and has nothing to tell before or      *)
(* after it; if the running server works with another value, that is       *)
(* recorded in direct.                                                     *)
LEMMA ElsewhereFollowing ==
    ASSUME thread \in [Goroutine -> ThreadState], Following, UNCHANGED <<cache, crossed>>,
           \A i \in Instance :
              direct'[i] \/ (applied'[i] = applied[i] /\ direct'[i] = direct[i]),
           NEW t \in Goroutine, NEW s, Goto(t, s),
           thread[t].pc # "notify", s.pc # "notify",
           \/ s.on \in {thread[t].on, Nowhere}
           \/ t \in Client /\ s.on \in Instance /\ Up(s.on)
           \/ t \in Instance /\ s.on = t,
           s.pc \in {"load", "start"} => Booting(t)
    PROVE  Following'
  <1>1. \A u \in Goroutine : thread'[u] = IF u = t THEN s ELSE thread[u]
    BY DEF Goto
  <1>2. UNCHANGED <<cache, crossed>>
    OBVIOUS
  <1>3. AtHome'
    BY <1>1, Apart DEF Following, AtHome
  <1>4. ASSUME NEW i \in Instance PROVE Alone(i)'
    <2> SUFFICES ASSUME Booting(i)'
                 PROVE  cache[i] = NoValue /\ \A u \in Goroutine \ {i} : thread'[u].on # i
      BY <1>2 DEF Alone
    <2>1. Booting(i)
      BY <1>1 DEF Booting
    <2>2. cache[i] = NoValue /\ \A u \in Goroutine \ {i} : thread[u].on # i
      BY <2>1 DEF Following, Alone
    <2>3. t # i => s.on # i
      BY <2>1, <2>2, ConfigAssumption DEF Booting, Up
    <2> QED
      BY <1>1, <2>2, <2>3
  <1>5. \A u \in Goroutine, i \in Instance :
            /\ Tells(u, i)' <=> Tells(u, i)
            /\ Tells(u, i) => thread'[u] = thread[u]
    BY <1>1 DEF Tells
  <1>6. \A i \in Instance : Told(i)' <=> Told(i)
    BY <1>5 DEF Told, Tells
  <1>7. ASSUME NEW i \in Instance, InOrder(i) PROVE InOrder(i)'
    BY <1>2, <1>5, <1>6, <1>7 DEF InOrder
  <1> QED
    BY <1>2, <1>3, <1>4, <1>7 DEF Following

LEMMA QuietFollowing ==
    ASSUME thread \in [Goroutine -> ThreadState], Following, UNCHANGED memory,
           NEW t \in Goroutine, NEW s, Goto(t, s),
           thread[t].pc # "notify", s.pc # "notify",
           \/ s.on \in {thread[t].on, Nowhere}
           \/ t \in Client /\ s.on \in Instance /\ Up(s.on)
           \/ t \in Instance /\ s.on = t,
           s.pc \in {"load", "start"} => Booting(t)
    PROVE  Following'
  <1>1. UNCHANGED <<cache, applied, direct, crossed>>
    BY DEF memory
  <1> QED
    BY <1>1, ElsewhereFollowing

(* A goroutine changes the cache of its instance and has to tell it.       *)
LEMMA ChangeFollowing ==
    ASSUME thread \in [Goroutine -> ThreadState], Following,
           cache \in [Instance -> Value \cup {NoValue}], crossed \in [Instance -> BOOLEAN],
           NEW t \in Goroutine, NEW v, NEW i \in Instance, thread[t].on = i,
           thread[t].pc \in {"swap", "local"},
           cache' = [cache EXCEPT ![i] = v],
           crossed' = NowCrossed(t, i),
           Goto(t, Notifying(thread[t], v)),
           UNCHANGED <<applied, direct>>
    PROVE  Following'
  <1>1. \A u \in Goroutine : thread'[u] = IF u = t THEN Notifying(thread[t], v) ELSE thread[u]
    BY DEF Goto
  <1>2. thread'[t].pc = "notify" /\ thread'[t].on = i /\ thread'[t].value = v
    BY <1>1 DEF Notifying, ThreadState
  <1>3. \A j \in Instance : cache'[j] = IF j = i THEN v ELSE cache[j]
    OBVIOUS
  <1>4. AtHome'
    BY <1>1, <1>2 DEF Following, AtHome
  <1>5. ASSUME NEW j \in Instance PROVE Alone(j)'
    <2> SUFFICES ASSUME Booting(j)'
                 PROVE  cache'[j] = NoValue /\ \A u \in Goroutine \ {j} : thread'[u].on # j
      BY DEF Alone
    <2>1. Booting(j) /\ j # t
      BY <1>1, <1>2 DEF Booting
    <2>2. cache[j] = NoValue /\ \A u \in Goroutine \ {j} : thread[u].on # j
      BY <2>1 DEF Following, Alone
    <2>3. j # i
      BY <2>1, <2>2
    <2> QED
      BY <1>1, <1>2, <1>3, <2>2, <2>3
  <1>6. ASSUME NEW j \in Instance PROVE crossed'[j] \/ InOrder(j)'
    <2>1. CASE j # i
      <3>1. crossed'[j] = crossed[j] /\ cache'[j] = cache[j]
        BY <1>3, <2>1 DEF NowCrossed
      <3>2. \A u \in Goroutine : /\ Tells(u, j)' <=> Tells(u, j)
                                 /\ Tells(u, j) => thread'[u] = thread[u]
        BY <1>1, <1>2, <2>1 DEF Tells
      <3>3. Told(j)' <=> Told(j)
        BY <3>2 DEF Told, Tells
      <3> QED
        BY <3>1, <3>2, <3>3 DEF Following, InOrder
    <2>2. CASE j = i /\ \E u \in Goroutine \ {t} : Tells(u, i)
      BY <2>2 DEF NowCrossed, Tells
    <2>3. CASE j = i /\ ~\E u \in Goroutine \ {t} : Tells(u, i)
      <3>1. \A u \in Goroutine : Tells(u, i)' <=> u = t
        BY <1>1, <1>2, <2>3 DEF Tells
      <3>2. ~Told(i)'
        BY <1>2 DEF Told
      <3> QED
        BY <1>2, <1>3, <2>3, <3>1, <3>2 DEF InOrder
    <2> QED
      BY <2>1, <2>2, <2>3
  <1> QED
    BY <1>4, <1>5, <1>6 DEF Following

LEMMA SwapFollowing ==
    ASSUME TypeOK, Following, NEW t \in Goroutine, Swap(t)
    PROVE  Following'
  <1>1. /\ thread \in [Goroutine -> ThreadState]
        /\ cache \in [Instance -> Value \cup {NoValue}] /\ crossed \in [Instance -> BOOLEAN]
        /\ thread[t].pc = "swap" /\ thread[t].on \in Instance
    BY AtWork DEF TypeOK, ThreadsOK, Swap
  <1>2. CASE thread[t].value = cache[thread[t].on]
    <2>1. UNCHANGED memory /\ Goto(t, IdleThread)
      BY <1>1, <1>2 DEF Swap, memory
    <2>2. IdleThread.pc = "idle" /\ IdleThread.on = Nowhere
      BY DEF IdleThread
    <2> QED
      BY <1>1, <2>1, <2>2, QuietFollowing
  <1>3. CASE thread[t].value # cache[thread[t].on]
    BY <1>1, <1>3, ChangeFollowing DEF Swap
  <1> QED
    BY <1>2, <1>3

LEMMA NotifyFollowing ==
    ASSUME TypeOK, Following, NEW t \in Goroutine, Notify(t)
    PROVE  Following'
  <1> DEFINE v == thread[t].value
  <1>0. PICK i \in Instance : thread[t].on = i
    BY AtWork DEF TypeOK, Notify
  <1>1. /\ thread \in [Goroutine -> ThreadState] /\ applied \in [Instance -> Accepted]
        /\ direct \in [Instance -> BOOLEAN]
        /\ thread[t].pc = "notify" /\ thread[t].on = i
    BY <1>0 DEF TypeOK, ThreadsOK, Notify
  <1>2. /\ \A u \in Goroutine : thread'[u] = IF u = t THEN IdleThread ELSE thread[u]
        /\ IdleThread.pc = "idle" /\ IdleThread.on = Nowhere
        /\ UNCHANGED <<cache, crossed>>
        /\ applied' = Applied(i, v) /\ direct' = Direct(i, v)
    BY <1>1 DEF Notify, Goto, IdleThread
  <1> HIDE DEF v
  <1>3. AtHome'
    BY <1>2 DEF Following, AtHome
  <1>4. ASSUME NEW j \in Instance PROVE Alone(j)'
    BY <1>2, ConfigAssumption DEF Following, Alone, Booting
  <1>5. ASSUME NEW j \in Instance, InOrder(j) PROVE InOrder(j)'
    <2>1. CASE j # i
      <3>1. \A u \in Goroutine : /\ Tells(u, j)' <=> Tells(u, j)
                                 /\ Tells(u, j) => thread'[u] = thread[u]
        BY <1>1, <1>2, <2>1 DEF Tells
      <3>2. Told(j)' <=> Told(j)
        BY <3>1 DEF Told, Tells
      <3>3. applied'[j] = applied[j] /\ direct'[j] = direct[j]
        BY <1>1, <1>2, <2>1 DEF Applied, Direct
      <3> QED
        BY <1>2, <1>5, <3>1, <3>2, <3>3 DEF InOrder
    <2>2. CASE j = i
      <3>1. v = cache[i] /\ \A u \in Goroutine : Tells(u, i) => u = t
        BY <1>1, <1>5, <2>2 DEF InOrder, Tells, v
      <3>2. \A u \in Goroutine : ~Tells(u, i)'
        BY <1>2, <3>1 DEF Tells
      <3>3. cache[i] \in Accepted => applied'[i] = cache[i]
        BY <1>1, <1>2, <3>1 DEF Applied
      <3> QED
        BY <1>2, <2>2, <3>2, <3>3 DEF InOrder
    <2> QED
      BY <2>1, <2>2
  <1> QED
    BY <1>2, <1>3, <1>4, <1>5 DEF Following

LEMMA StartFollowing ==
    ASSUME TypeOK, Following, NEW i \in Instance, Start(i)
    PROVE  Following'
  <1>1. /\ thread \in [Goroutine -> ThreadState] /\ applied \in [Instance -> Accepted]
        /\ direct \in [Instance -> BOOLEAN]
        /\ cache \in [Instance -> Value \cup {NoValue}]
        /\ thread[i].pc = "start" /\ i \in Goroutine
    BY DEF TypeOK, ThreadsOK, Start
  <1>2. /\ \A u \in Goroutine : thread'[u] = IF u = i THEN IdleThread ELSE thread[u]
        /\ IdleThread.pc = "idle" /\ IdleThread.on = Nowhere
        /\ \A j \in Instance : cache'[j] = IF j = i THEN thread[i].value ELSE cache[j]
        /\ crossed' = crossed /\ applied' = Applied(i, thread[i].value)
        /\ direct' = Direct(i, thread[i].value)
    BY <1>1 DEF Start, Goto, IdleThread
  <1>3. \A u \in Goroutine \ {i} : thread[u].on # i
    BY <1>1 DEF Following, Alone, Booting
  <1>4. AtHome'
    BY <1>2 DEF Following, AtHome
  <1>5. ASSUME NEW j \in Instance PROVE Alone(j)'
    BY <1>2, ConfigAssumption DEF Following, Alone, Booting
  <1>6. ASSUME NEW j \in Instance PROVE crossed'[j] \/ InOrder(j)'
    <2>1. CASE j # i
      <3>1. \A u \in Goroutine : /\ Tells(u, j)' <=> Tells(u, j)
                                 /\ Tells(u, j) => thread'[u] = thread[u]
        BY <1>1, <1>2, <2>1 DEF Tells
      <3>2. Told(j)' <=> Told(j)
        BY <3>1 DEF Told, Tells
      <3>3. /\ applied'[j] = applied[j] /\ direct'[j] = direct[j]
            /\ cache'[j] = cache[j] /\ crossed'[j] = crossed[j]
        BY <1>1, <1>2, <2>1 DEF Applied, Direct
      <3> QED
        BY <3>1, <3>2, <3>3 DEF Following, InOrder
    <2>2. CASE j = i
      <3>1. \A u \in Goroutine : ~Tells(u, i)'
        BY <1>2, <1>3 DEF Tells
      <3>2. cache'[i] \in Accepted => applied'[i] = cache'[i]
        BY <1>1, <1>2 DEF Applied
      <3> QED
        BY <2>2, <3>1, <3>2 DEF InOrder
    <2> QED
      BY <2>1, <2>2
  <1> QED
    BY <1>4, <1>5, <1>6 DEF Following

LEMMA RestartFollowing ==
    ASSUME TypeOK, Following, NEW i \in Instance, Restart(i)
    PROVE  Following'
  <1>1. /\ thread \in [Goroutine -> ThreadState] /\ i \in Goroutine
        /\ cache \in [Instance -> Value \cup {NoValue}]
        /\ applied \in [Instance -> Accepted] /\ direct \in [Instance -> BOOLEAN]
        /\ crossed \in [Instance -> BOOLEAN] /\ NoValue \notin Accepted
    BY ConfigAssumption DEF TypeOK, ThreadsOK, Accepted
  <1>2. /\ thread'[i].pc = "load" /\ thread'[i].on = i
        /\ \A u \in Goroutine \ {i} :
              thread'[u] = IF thread[u].on = i THEN IdleThread ELSE thread[u]
        /\ IdleThread.pc = "idle" /\ IdleThread.on = Nowhere
    BY <1>1 DEF Restart, Refreshing, IdleThread
  <1>3. /\ cache'[i] = NoValue
        /\ \A j \in Instance \ {i} : /\ cache'[j] = cache[j]
                                     /\ applied'[j] = applied[j] /\ direct'[j] = direct[j]
                                     /\ crossed'[j] = crossed[j]
    BY <1>1 DEF Restart
  <1>4. \A u \in Goroutine \ {i} : thread'[u].on # i
    BY <1>2, ConfigAssumption
  <1>5. AtHome'
    BY <1>2 DEF Following, AtHome
  <1>6. ASSUME NEW j \in Instance PROVE Alone(j)'
    <2>1. CASE j = i
      BY <1>3, <1>4, <2>1 DEF Alone
    <2>2. CASE j # i
      <3>1. Booting(j)' => Booting(j) /\ thread'[j] = thread[j]
        BY <1>2, <2>2 DEF Booting
      <3>2. \A u \in Goroutine : thread[u].on # j => thread'[u].on # j
        BY <1>2, <2>2, ConfigAssumption
      <3> QED
        BY <1>3, <2>2, <3>1, <3>2 DEF Following, Alone
    <2> QED
      BY <2>1, <2>2
  <1>7. ASSUME NEW j \in Instance PROVE crossed'[j] \/ InOrder(j)'
    <2>1. CASE j = i
      <3>1. \A u \in Goroutine : ~Tells(u, i)'
        BY <1>2, <1>4 DEF Tells
      <3> QED
        BY <1>1, <1>3, <2>1, <3>1 DEF InOrder
    <2>2. CASE j # i
      <3>1. thread[i].on # j
        BY <2>2, ConfigAssumption DEF Following, AtHome
      <3>2. \A u \in Goroutine : /\ Tells(u, j)' <=> Tells(u, j)
                                 /\ Tells(u, j) => thread'[u] = thread[u]
        BY <1>2, <2>2, <3>1 DEF Tells
      <3>3. Told(j)' <=> Told(j)
        BY <3>2 DEF Told, Tells
      <3> QED
        BY <1>3, <2>2, <3>2, <3>3 DEF Following, InOrder
    <2> QED
      BY <2>1, <2>2
  <1> QED
    BY <1>5, <1>6, <1>7 DEF Following

(* A request that comes to an instance that has started.                   *)
LEMMA RequestFollowing ==
    ASSUME TypeOK, Following, NEW c \in Client, Request(c)
    PROVE  Following'
  <1>0. /\ thread \in [Goroutine -> ThreadState] /\ c \in Goroutine
        /\ \A i \in Reaches[c] : i \in Instance
    BY ConfigAssumption DEF TypeOK, ThreadsOK
  <1>1. CASE Get(c)
    BY <1>1 DEF Get, memory, Following, AtHome, Alone, Booting, InOrder, Tells, Told
  <1>2. ASSUME NEW i \in Reaches[c], NEW s, Goto(c, s), UNCHANGED memory,
               thread[c].pc = "idle", Up(i), s.on = i, s.pc \notin {"notify", "load", "start"}
        PROVE  Following'
    BY <1>0, <1>2, QuietFollowing
  <1>3. ASSUME NEW i \in Instance, NEW v, NEW pc, NEW n
        PROVE  /\ Writing(pc, i, v, n).pc = pc /\ Writing(pc, i, v, n).on = i
               /\ [Writing(pc, i, v, n) EXCEPT !.replies = FALSE].pc = pc
               /\ [Writing(pc, i, v, n) EXCEPT !.replies = FALSE].on = i
               /\ Refreshing(i).pc = "list" /\ Refreshing(i).on = i
    BY DEF Writing, Refreshing, IdleThread
  <1>4. ASSUME NEW i \in Reaches[c], NEW v \in Enters[c], Put(c, i, v) PROVE Following'
    <2>1. PICK pc, n : pc \in {"create", "update"} /\ Goto(c, Writing(pc, i, v, n))
      BY <1>4 DEF Put
    <2> QED
      BY <1>0, <1>2, <1>3, <1>4, <2>1 DEF Put, Begin
  <1>5. ASSUME NEW i \in Reaches[c], NEW v \in Enters[c], PutAccount(c, i, v) PROVE Following'
    <2> DEFINE s == [Writing("local", i, v, 0) EXCEPT !.replies = FALSE]
    <2>1. Goto(c, s)
      BY <1>5 DEF PutAccount
    <2>2. s.pc = "local" /\ s.on = i
      BY <1>0, <1>3
    <2>3. thread[c].pc = "idle" /\ Up(i) /\ UNCHANGED memory
      BY <1>5 DEF PutAccount, Begin
    <2> HIDE DEF s
    <2> QED
      BY <1>2, <2>1, <2>2, <2>3
  <1>6. ASSUME NEW i \in Reaches[c], NEW v \in Enters[c], Batch(c, i, v) PROVE Following'
    BY <1>0, <1>2, <1>3, <1>6 DEF Batch, Begin
  <1>7. ASSUME NEW i \in Reaches[c], Delete(c, i) PROVE Following'
    BY <1>0, <1>2, <1>3, <1>7 DEF Delete, Begin
  <1>8. ASSUME NEW i \in Reaches[c], NEW v \in Enters[c], SetConfig(c, i, v) PROVE Following'
    <2>1. /\ Goto(c, Writing("save", i, v, 0)) /\ UNCHANGED <<cache, crossed>>
          /\ thread[c].pc = "idle" /\ Up(i)
      BY <1>8 DEF SetConfig, Begin
    <2>2. \A j \in Instance :
             direct'[j] \/ (applied'[j] = applied[j] /\ direct'[j] = direct[j])
      BY <1>8 DEF SetConfig, TypeOK
    <2> QED
      BY <1>0, <1>3, <2>1, <2>2, ElsewhereFollowing
  <1> QED
    BY <1>1, <1>4, <1>5, <1>6, <1>7, <1>8 DEF Request

LEMMA HandleFollowing ==
    ASSUME TypeOK, Following, NEW c \in Client, Handle(c)
    PROVE  Following'
  <1>0. /\ thread \in [Goroutine -> ThreadState] /\ c \in Goroutine
        /\ cache \in [Instance -> Value \cup {NoValue}] /\ crossed \in [Instance -> BOOLEAN]
    BY DEF TypeOK, ThreadsOK
  <1>1. ASSUME NEW s, Goto(c, s), UNCHANGED memory, thread[c].pc # "notify",
               s.pc \notin {"notify", "load", "start"}, s.on \in {thread[c].on, Nowhere}
        PROVE  Following'
    BY <1>0, <1>1, QuietFollowing
  <1>2. /\ IdleThread.pc = "idle" /\ IdleThread.on = Nowhere
        /\ \A pc \in PC, n \in Nat :
              /\ [thread[c] EXCEPT !.pc = pc].pc = pc
              /\ [thread[c] EXCEPT !.pc = pc].on = thread[c].on
              /\ [thread[c] EXCEPT !.pc = pc, !.version = n].pc = pc
              /\ [thread[c] EXCEPT !.pc = pc, !.version = n].on = thread[c].on
    BY <1>0 DEF IdleThread, ThreadState
  <1>3. "reread" \in PC /\ "local" \in PC
    BY DEF PC
  <1>4. CASE Create(c) \/ UpdateRows(c)
    <2>1. /\ Goto(c, [thread[c] EXCEPT !.pc = "reread"]) /\ UNCHANGED memory
          /\ thread[c].pc \in {"create", "update"}
      BY <1>4 DEF Create, UpdateRows
    <2> QED
      BY <1>1, <1>2, <1>3, <2>1
  <1>5. CASE UpdateConflicts(c)
    BY <1>1, <1>2, <1>5 DEF UpdateConflicts
  <1>6. CASE Reread(c)
    <2>1. /\ UNCHANGED memory /\ thread[c].pc = "reread"
          /\ \/ Goto(c, [thread[c] EXCEPT !.pc = "local"])
             \/ \E n \in Nat : Goto(c, [thread[c] EXCEPT !.pc = "local", !.version = n])
      BY <1>6, RowVersion DEF Reread, TypeOK
    <2> QED
      BY <1>1, <1>2, <1>3, <2>1
  <1>7. CASE UpdateLocal(c)
    <2>1. /\ thread[c].pc = "local" /\ thread[c].on \in Instance
          /\ cache' = [cache EXCEPT ![thread[c].on] = thread[c].value]
          /\ crossed' = NowCrossed(c, thread[c].on)
          /\ Goto(c, Notifying(thread[c], thread[c].value))
          /\ UNCHANGED <<applied, direct>>
      BY <1>0, <1>7, AtWork DEF UpdateLocal, TypeOK
    <2> QED
      BY <1>0, <2>1, ChangeFollowing
  <1>8. CASE List(c)
    <2>1. PICK v : Goto(c, Listing(thread[c].on, v))
      BY <1>8 DEF List
    <2>2. /\ Listing(thread[c].on, v).pc = "swap"
          /\ Listing(thread[c].on, v).on = thread[c].on
      BY DEF Listing, IdleThread
    <2> QED
      BY <1>1, <1>8, <2>1, <2>2 DEF List
  <1>9. CASE SaveConfig(c)
    BY <1>1, <1>2, <1>9 DEF SaveConfig
  <1> QED
    BY <1>4, <1>5, <1>6, <1>7, <1>8, <1>9 DEF Handle

LEMMA ServerFollowing ==
    ASSUME TypeOK, Following, NEW i \in Instance, Watch(i) \/ Boot(i) \/ Restart(i)
    PROVE  Following'
  <1>0. thread \in [Goroutine -> ThreadState] /\ i \in Goroutine
    BY DEF TypeOK, ThreadsOK
  <1>1. CASE Watch(i)
    <2>1. PICK v : Goto(i, Listing(i, v))
      BY <1>1 DEF Watch
    <2>2. Listing(i, v).pc = "swap" /\ Listing(i, v).on = i
      BY DEF Listing, IdleThread
    <2>3. thread[i].pc # "notify" /\ UNCHANGED memory
      BY <1>1 DEF Watch
    <2> QED
      BY <1>0, <2>1, <2>2, <2>3, QuietFollowing
  <1>2. CASE Load(i)
    <2>1. PICK v : Goto(i, [thread[i] EXCEPT !.pc = "start", !.value = v])
      BY <1>2 DEF Load
    <2>2. /\ [thread[i] EXCEPT !.pc = "start", !.value = v].pc = "start"
          /\ [thread[i] EXCEPT !.pc = "start", !.value = v].on = thread[i].on
      BY <1>0 DEF ThreadState
    <2>3. thread[i].pc # "notify" /\ UNCHANGED memory /\ Booting(i)
      BY <1>2 DEF Load, Booting
    <2> QED
      BY <1>0, <2>1, <2>2, <2>3, QuietFollowing
  <1> QED
    BY <1>1, <1>2, StartFollowing, RestartFollowing DEF Boot

LEMMA FollowingStep == TypeOK /\ Following /\ [Next]_vars => Following'
  <1> SUFFICES ASSUME TypeOK, Following, [Next]_vars PROVE Following'
    OBVIOUS
  <1>1. CASE UNCHANGED vars
    BY <1>1 DEF vars, memory, Following, AtHome, Alone, Booting, InOrder, Tells, Told
  <1>2. ASSUME NEW t \in Goroutine, Refresh(t) PROVE Following'
    BY <1>2, SwapFollowing, NotifyFollowing DEF Refresh
  <1> QED
    BY <1>1, <1>2, RequestFollowing, HandleFollowing, ServerFollowing DEF Next

(* The running server works with the value of its cache if it accepts it,  *)
(* unless two callbacks were under way at once or PUT /admin/api/config    *)
(* has set another value since, however many clients and servers there are *)
(* and wherever a server was restarted.                                    *)
THEOREM RuntimeFollowsCacheHolds == Spec => []RuntimeFollowsCache
  <1>1. Following => RuntimeFollowsCache
    BY DEF Following, InOrder, RuntimeFollowsCache
  <1>2. Spec => []Following
    BY TypeCorrect, InitFollowing, FollowingStep, PTL DEF Spec
  <1> QED
    BY <1>1, <1>2, PTL

=============================================================================
