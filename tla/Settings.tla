-------------------------------- MODULE Settings --------------------------------
(***************************************************************************)
(* One system setting: its rows in table settings (store/mysql.go), the    *)
(* cache every server instance keeps of it (settings_cache.go), the value  *)
(* the running server works with (builder.go), the handlers of             *)
(* /api/settings (settings_handler.go), and PUT /admin/api/config, which   *)
(* sets what the server works with and starts from, and neither the table  *)
(* nor the cache (api_config.go).                                          *)
(*                                                                         *)
(* A statement of SQL is one action, and so is a critical section of the   *)
(* cache.  Between them a handler holds what it has read: the row it       *)
(* compared the client's version with, the list a refresh was made from,   *)
(* the value it still has to pass to the callbacks.                        *)
(*                                                                         *)
(* A system setting has no account, and no two NULLs are equal to a unique *)
(* key: an insert never meets a row that is there, neither that of a       *)
(* handler nor that of a start.                                            *)
(***************************************************************************)
EXTENDS Naturals, Sequences, FiniteSets

CONSTANTS
    Instance,       \* servers on one database
    Client,         \* browsers of administrators
    Reaches,        \* the instances a client's requests may go to
    Value,
    Ignored,        \* not a number, or no more than 0
    Enters,         \* the values an administrator enters
    NoValue,        \* no such key
    Default,        \* the value SeedDefaultSettings inserts
    Configured,     \* the one config has at first
    TouchOnUpdate,  \* an UPDATE sets updated_at (MySQL, not SQLite)
    Ops,            \* the operations of this instance of the model
    MaxOps,         \* bound of the model: requests that change something
    MaxRows         \* bound of the model: rows inserted, so restarts too

NoId == 0
Nowhere == "nowhere"
OpName == {"put", "batch", "delete", "account", "config"}

Accepted == Value \ Ignored

ASSUME ConfigAssumption ==
    /\ IsFiniteSet(Instance)
    /\ Instance \cap Client = {}
    /\ Nowhere \notin Instance
    /\ Reaches \in [Client -> SUBSET Instance]
    /\ Enters \in [Client -> SUBSET Value]
    /\ NoValue \notin Value
    /\ Default \in Accepted
    /\ Configured \in Accepted
    /\ TouchOnUpdate \in BOOLEAN
    /\ Ops \subseteq OpName
    /\ MaxOps \in Nat
    /\ MaxRows \in Nat
    /\ 2 * Cardinality(Instance) <= MaxRows

Id == 1 .. MaxRows
Goroutine == Client \cup Instance    \* a handler of each client, a watcher of each instance

VARIABLES
    ids,        \* rows of the key
    row,        \* and their columns
    inserted,   \* ids given out
    written,    \* the time of the database, for updated_at: statements so far
    config,     \* the value in table config, of the account default
    cache,      \* SettingsCache.data of each instance, for this key
    applied,    \* what the running server works with
    direct,     \* and it is from PUT /admin/api/config
    thread,
    known,      \* what a client believes the setting to be
    crossed,    \* two callbacks of the instance have been under way at once
    ops

table == <<ids, row, inserted, written, config>>
memory == <<cache, applied, direct, crossed>>
vars == <<table, memory, thread, known, ops>>

Row == [value : Value, version : Nat, at : Nat]
NoRow == [value |-> Default, version |-> 1, at |-> 0]

PC == {"idle",
       "create",    \* UpsertSetting
       "update",    \* UpdateSetting
       "reread",    \* GetSetting after either
       "local",     \* UpdateLocal
       "save",      \* UpdateConfig
       "list",      \* ListSettings of reload
       "swap",      \* the critical section of reload
       "notify",    \* notifyChange
       "load",      \* ListSettings of NewSettingsCache
       "start"}     \* the cache is filled, applySettingsFromCache

ThreadState ==
    [pc : PC, on : Instance \cup {Nowhere}, value : Value \cup {NoValue}, version : Nat,
     replies : BOOLEAN]      \* a PUT, which tells its client the new version

IdleThread == [pc |-> "idle", on |-> Nowhere, value |-> NoValue, version |-> 0, replies |-> FALSE]
Refreshing(i) == [IdleThread EXCEPT !.pc = "list", !.on = i]

(* The version a client will send: read with a row, or the answer to its   *)
(* last PUT (SettingsContext.tsx), or 0.                                   *)
Knowledge == [id : Id \cup {NoId}, value : Value \cup {NoValue}, version : Nat]
Nothing == [id |-> NoId, value |-> NoValue, version |-> 0]

Goto(t, s) == thread' = [thread EXCEPT ![t] = s]

------------------------------------------------------------------------------
(* The table.                                                              *)

(* ListSettings puts the newest row first and reload keeps the last of a   *)
(* key: the row that was updated, then inserted, before all others.        *)
Older(j, k) == row[j].at < row[k].at \/ (row[j].at = row[k].at /\ j < k)
IsListed(k) == k \in ids /\ \A j \in ids \ {k} : Older(k, j)
Current(v) ==
    IF ids = {} THEN v = NoValue ELSE \E k \in ids : IsListed(k) /\ v = row[k].value

NewIds(s) == inserted + 1 .. inserted + Len(s)

Insert(s) ==
    /\ inserted + Len(s) <= MaxRows
    /\ inserted' = inserted + Len(s)
    /\ ids' = ids \cup NewIds(s)
    /\ written' = written + 1
    /\ row' = [k \in Id |->
                 IF k \in NewIds(s)
                 THEN [value |-> s[k - inserted], version |-> 1, at |-> written']
                 ELSE row[k]]
    /\ UNCHANGED config

Matching(version) == {k \in ids : row[k].version = version}

NewTime(k) == IF TouchOnUpdate THEN written' ELSE row[k].at

(* Every row of the key with this version.                                 *)
UpdateKeepingVersion(v, version) ==
    /\ written' = written + 1
    /\ row' = [k \in Id |->
                 IF k \in Matching(version)
                 THEN [value |-> v, version |-> version, at |-> NewTime(k)]
                 ELSE row[k]]
    /\ UNCHANGED <<ids, inserted, config>>
Update(v, version) ==
    /\ written' = written + 1
    /\ row' = [k \in Id |->
                 IF k \in Matching(version)
                 THEN [value |-> v, version |-> version + 1, at |-> NewTime(k)]
                 ELSE row[k]]
    /\ UNCHANGED <<ids, inserted, config>>

------------------------------------------------------------------------------
(* The requests of a client.                                               *)

Up(i) == thread[i].pc \notin {"load", "start"}

Begin(c, i, op) ==
    /\ thread[c].pc = "idle"
    /\ Up(i)
    /\ op \in Ops
    /\ ops < MaxOps
    /\ ops' = ops + 1

(* GET; LIMIT 1 may give any row.  (Of no use after the last operation.)   *)
Get(c) ==
    /\ thread[c].pc = "idle"
    /\ ops < MaxOps
    /\ \/ \E k \in ids :
            known' = [known EXCEPT ![c] = [id |-> k, value |-> row[k].value,
                                           version |-> row[k].version]]
       \/ ids = {} /\ known' = [known EXCEPT ![c] = Nothing]
    /\ UNCHANGED <<table, memory, thread, ops>>

Writing(pc, i, v, version) ==
    [pc |-> pc, on |-> i, value |-> v, version |-> version, replies |-> TRUE]

(* The start of a PUT: the row that GetSetting finds decides whether the   *)
(* setting is created, updated, or the request refused.                    *)
Put(c, i, v) ==
    /\ Begin(c, i, "put")
    /\ \/ ids = {} /\ Goto(c, Writing("create", i, v, 0))
       \/ \E k \in ids :
            /\ known[c].version = row[k].version
            /\ Goto(c, Writing("update", i, v, known[c].version))
    /\ UNCHANGED <<table, memory, known>>

Create(c) ==
    /\ thread[c].pc = "create"
    /\ Insert(<<thread[c].value>>)
    /\ Goto(c, [thread[c] EXCEPT !.pc = "reread"])
    /\ UNCHANGED <<memory, known, ops>>

UpdateRows(c) ==
    /\ thread[c].pc = "update"
    /\ Matching(thread[c].version) # {}
    /\ Update(thread[c].value, thread[c].version)
    /\ Goto(c, [thread[c] EXCEPT !.pc = "reread"])
    /\ UNCHANGED <<memory, known, ops>>

(* version_conflict, or the rows have been deleted.                        *)
UpdateConflicts(c) ==
    /\ thread[c].pc = "update"
    /\ Matching(thread[c].version) = {}
    /\ Goto(c, IdleThread)
    /\ UNCHANGED <<table, memory, known, ops>>

(* The version of whatever row is found now goes into the answer.          *)
Reread(c) ==
    /\ thread[c].pc = "reread"
    /\ \/ \E k \in ids :
            Goto(c, [thread[c] EXCEPT !.pc = "local", !.version = row[k].version])
       \/ ids = {} /\ Goto(c, [thread[c] EXCEPT !.pc = "local"])
    /\ UNCHANGED <<table, memory, known, ops>>

(* A PUT for the setting of an account, after it has written its own row:  *)
(* the cache does not tell scopes apart.                                   *)
PutAccount(c, i, v) ==
    /\ Begin(c, i, "account")
    /\ Goto(c, [Writing("local", i, v, 0) EXCEPT !.replies = FALSE])
    /\ UNCHANGED <<table, memory, known>>

(* A transaction; without a version it inserts, and if no row has the      *)
(* version it is rolled back.                                              *)
Batch(c, i, v) ==
    /\ Begin(c, i, "batch")
    /\ IF known[c].version = 0
       THEN Insert(<<v>>)
       ELSE Matching(known[c].version) # {} /\ Update(v, known[c].version)
    /\ Goto(c, Refreshing(i))
    /\ UNCHANGED <<memory, known>>

Delete(c, i) ==
    /\ Begin(c, i, "delete")
    /\ ids # {}
    /\ ids' = {}
    /\ row' = [k \in Id |-> NoRow]
    /\ written' = 0
    /\ Goto(c, Refreshing(i))
    /\ UNCHANGED <<inserted, config, memory, known>>

(* updateConfigForAccount: under Server.mu what the server works with,     *)
(* after it the row.                                                       *)
SetConfig(c, i, v) ==
    /\ Begin(c, i, "config")
    /\ v \in Accepted
    /\ applied' = [applied EXCEPT ![i] = v]
    /\ direct' = [direct EXCEPT ![i] = TRUE]
    /\ Goto(c, Writing("save", i, v, 0))
    /\ UNCHANGED <<table, cache, crossed, known>>

SaveConfig(c) ==
    /\ thread[c].pc = "save"
    /\ config' = thread[c].value
    /\ Goto(c, IdleThread)
    /\ UNCHANGED <<ids, row, inserted, written, memory, known, ops>>

------------------------------------------------------------------------------
(* The cache of an instance.                                               *)

Notifying(s, v) == [s EXCEPT !.pc = "notify", !.value = v]

(* Another goroutine of the instance has still to call the callbacks.      *)
NowCrossed(t, i) ==
    IF \E u \in Goroutine \ {t} : thread[u].pc = "notify" /\ thread[u].on = i
    THEN [crossed EXCEPT ![i] = TRUE]
    ELSE crossed

UpdateLocal(c) ==
    LET s == thread[c]
    IN  /\ s.pc = "local"
        /\ cache' = [cache EXCEPT ![s.on] = s.value]
        /\ crossed' = NowCrossed(c, s.on)
        /\ Goto(c, Notifying(s, s.value))
        /\ UNCHANGED <<table, applied, direct, known, ops>>

Listing(i, v) == [IdleThread EXCEPT !.pc = "swap", !.on = i, !.value = v]

List(c) ==
    /\ thread[c].pc = "list"
    /\ \E v \in Value \cup {NoValue} : Current(v) /\ Goto(c, Listing(thread[c].on, v))
    /\ UNCHANGED <<table, memory, known, ops>>

(* The ticker of startSettingsWatcher fires.                               *)
Watch(i) ==
    /\ thread[i].pc = "idle"
    /\ \E v \in Value \cup {NoValue} : Current(v) /\ Goto(i, Listing(i, v))
    /\ UNCHANGED <<table, memory, known, ops>>

SwapUnheard(t) ==
    /\ thread[t].pc = "swap"
    /\ cache' = [cache EXCEPT ![thread[t].on] = thread[t].value]
    /\ Goto(t, IdleThread)
    /\ UNCHANGED <<table, applied, direct, crossed, known, ops>>

SwapUnlessRemoved(t) ==
    LET s == thread[t]
    IN  /\ s.pc = "swap"
        /\ cache' = [cache EXCEPT ![s.on] = IF s.value = NoValue THEN cache[s.on] ELSE s.value]
        /\ crossed' = NowCrossed(t, s.on)
        /\ Goto(t, Notifying(s, s.value))
        /\ UNCHANGED <<table, applied, direct, known, ops>>

(* The list replaces the cache; callbacks are called if they differ.       *)
Swap(t) ==
    LET s == thread[t]
    IN  /\ s.pc = "swap"
        /\ cache' = [cache EXCEPT ![s.on] = s.value]
        /\ IF s.value = cache[s.on]
           THEN UNCHANGED crossed /\ Goto(t, IdleThread)
           ELSE crossed' = NowCrossed(t, s.on) /\ Goto(t, Notifying(s, s.value))
        /\ UNCHANGED <<table, applied, direct, known, ops>>

AppliedUnchecked(i, v) == IF v = NoValue THEN applied ELSE [applied EXCEPT ![i] = v]

(* What is no number or not above 0, and a setting that is removed, leave  *)
(* the running server what it has.                                         *)
Applied(i, v) == IF v \in Accepted THEN [applied EXCEPT ![i] = v] ELSE applied
Direct(i, v) == [direct EXCEPT ![i] = @ /\ v \notin Accepted]

(* The last callback has returned; a PUT is answered.                      *)
Notify(t) ==
    LET s == thread[t]
    IN  /\ s.pc = "notify"
        /\ applied' = Applied(s.on, s.value)
        /\ direct' = Direct(s.on, s.value)
        /\ IF s.replies
           THEN known' = [known EXCEPT ![t] = [Nothing EXCEPT !.version = s.version]]
           ELSE UNCHANGED known
        /\ Goto(t, IdleThread)
        /\ UNCHANGED <<table, cache, crossed, ops>>

------------------------------------------------------------------------------
(* A start, after a crash at any point: SeedDefaultSettings and            *)
(* migrateConfigToSettings insert their rows again, the server takes over  *)
(* config, then the cache is loaded and applied.                           *)

Restart(i) ==
    /\ Insert(<<Default, config>>)
    /\ cache' = [cache EXCEPT ![i] = NoValue]
    /\ applied' = [applied EXCEPT ![i] = config]
    /\ direct' = [direct EXCEPT ![i] = FALSE]
    /\ crossed' = [crossed EXCEPT ![i] = FALSE]
    /\ thread' = [t \in Goroutine |->
                    IF t = i THEN [Refreshing(i) EXCEPT !.pc = "load"]
                    ELSE IF thread[t].on = i THEN IdleThread
                    ELSE thread[t]]
    /\ UNCHANGED <<known, ops>>

Load(i) ==
    /\ thread[i].pc = "load"
    /\ \E v \in Value \cup {NoValue} :
          Current(v) /\ Goto(i, [thread[i] EXCEPT !.pc = "start", !.value = v])
    /\ UNCHANGED <<table, memory, known, ops>>

Start(i) ==
    /\ thread[i].pc = "start"
    /\ cache' = [cache EXCEPT ![i] = thread[i].value]
    /\ applied' = Applied(i, thread[i].value)
    /\ direct' = Direct(i, thread[i].value)
    /\ Goto(i, IdleThread)
    /\ UNCHANGED <<table, crossed, known, ops>>

------------------------------------------------------------------------------

(* The first start of every instance has inserted its rows.                *)
Init ==
    /\ inserted = 2 * Cardinality(Instance)
    /\ ids = 1 .. inserted
    /\ row = [k \in Id |->
                IF k \in ids /\ k % 2 = 0 THEN [NoRow EXCEPT !.value = Configured] ELSE NoRow]
    /\ written = 0
    /\ config = Configured
    /\ cache = [i \in Instance |-> NoValue]
    /\ applied = [i \in Instance |-> Configured]
    /\ direct = [i \in Instance |-> FALSE]
    /\ crossed = [i \in Instance |-> FALSE]
    /\ thread = [t \in Goroutine |->
                    IF t \in Instance THEN [Refreshing(t) EXCEPT !.pc = "load"]
                                     ELSE IdleThread]
    /\ known = [c \in Client |-> Nothing]
    /\ ops = 0

Request(c) ==
    \/ Get(c)
    \/ \E i \in Reaches[c], v \in Enters[c] :
          Put(c, i, v) \/ PutAccount(c, i, v) \/ Batch(c, i, v) \/ SetConfig(c, i, v)
    \/ \E i \in Reaches[c] : Delete(c, i)

Handle(c) ==
    \/ Create(c) \/ UpdateRows(c) \/ UpdateConflicts(c) \/ Reread(c)
    \/ UpdateLocal(c) \/ List(c) \/ SaveConfig(c)

Refresh(t) == Swap(t) \/ Notify(t)

Boot(i) == Load(i) \/ Start(i)

Next ==
    \/ \E c \in Client : Request(c) \/ Handle(c)
    \/ \E t \in Goroutine : Refresh(t)
    \/ \E i \in Instance : Watch(i) \/ Boot(i) \/ Restart(i)

Spec == Init /\ [][Next]_vars

(* Goroutines run, and the watcher's ticker fires.                         *)
FairSpec ==
    /\ Spec
    /\ \A c \in Client : WF_vars(Handle(c) \/ Refresh(c))
    /\ \A i \in Instance : WF_vars(Watch(i) \/ Boot(i) \/ Refresh(i))

------------------------------------------------------------------------------
(* Properties.                                                             *)

(* Types; a goroutine at work is on an instance, one that writes has a     *)
(* value to write, and no server ever runs with a value it must ignore,    *)
(* whatever is entered, configured, removed or found at a start.           *)
TableOK ==
    /\ inserted \in 0 .. MaxRows
    /\ ids \subseteq 1 .. inserted
    /\ row \in [Id -> Row]
    /\ written \in Nat
    /\ config \in Accepted

ThreadOK(s) ==
    /\ s \in ThreadState
    /\ s.pc # "idle" => s.on \in Instance
    /\ s.pc \in {"create", "update", "reread", "local"} => s.value \in Value
    /\ s.pc = "save" => s.value \in Accepted

ThreadsOK ==
    /\ thread \in [Goroutine -> ThreadState]
    /\ \A t \in Goroutine : ThreadOK(thread[t])

TypeOK ==
    /\ TableOK
    /\ ThreadsOK
    /\ cache \in [Instance -> Value \cup {NoValue}]
    /\ applied \in [Instance -> Accepted]
    /\ direct \in [Instance -> BOOLEAN]
    /\ crossed \in [Instance -> BOOLEAN]
    /\ known \in [Client -> Knowledge]
    /\ ops \in 0 .. MaxOps

(* The optimistic lock: a client that has read a row, value and version,   *)
(* and writes with that version overwrites in that row exactly the value   *)
(* it has read, whoever writes, deletes, creates or restarts in between.   *)
NoLostUpdate ==
    [][\A c \in Client, k \in ids \cap ids' :
         thread'[c] # thread[c] /\ row'[k] # row[k] /\ known[c].id = k
            => row[k].value = known[c].value]_vars

(* Once nobody writes any more every instance has in its cache what the    *)
(* table says, although a refresh may have listed the table before a PUT   *)
(* and replaced the cache after it.                                        *)
CacheConverges == \A i \in Instance : <>[]Current(cache[i])

(* The running server works with the value of its cache if it accepts it,  *)
(* unless two callbacks of the instance were under way at once, which may  *)
(* have come in the other order, or PUT /admin/api/config has set another  *)
(* value since the cache was last applied: no refresh undoes that one.     *)
Told(i) == \A t \in Goroutine : thread[t].pc = "notify" => thread[t].on # i
RuntimeFollowsCache ==
    \A i \in Instance :
        Told(i) /\ ~crossed[i] /\ ~direct[i] /\ cache[i] \in Accepted
            => applied[i] = cache[i]
=============================================================================
