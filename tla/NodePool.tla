------------------------------- MODULE NodePool -------------------------------
(***************************************************************************)
(* The nodes of one account: node_manager.go, health.go, warmup.go,        *)
(* metrics.go and the start-up code of server.go and builder.go.           *)
(*                                                                         *)
(* Every critical section under Server.mu is one action.  What handlers do *)
(* after they unlock is a step of its own, so other handlers come between: *)
(* the snapshot of a node that was not taken under the lock, the write of  *)
(* a snapshot to the database, the warm-up of a node chosen earlier, the   *)
(* decision of enableNode to switch, the configuration that is saved with  *)
(* the active node as it was.  A thread of the model is a goroutine (an    *)
(* HTTP handler, a proxied request, a health check, a selection started    *)
(* with `go`); HealthLoop is the goroutine of healthLoop.                  *)
(*                                                                         *)
(* Nodes are numbered in the order they are created, so that the tie-break *)
(* on CreatedAt is <.  A node that is deleted keeps its last flags: the    *)
(* goroutines that hold the pointer still read them.                       *)
(***************************************************************************)
EXTENDS Naturals, FiniteSets

CONSTANTS
    MaxNodes,          \* nodes ever created
    MaxWeight,         \* largest weight a node is given
    Thread,            \* goroutines at work at the same time
    HealthLoop,        \* the goroutine of healthLoop, not in Thread
    WarmupModes,       \* what starts may read for warmupConfig.Enabled
    Attempts,          \* warmupConfig
    RequiredSuccess,
    WarmupSlots,       \* capacity of warmupSem
    StoreMayFail,      \* a database write may return an error
    Ops,               \* the operations of this instance
    MaxOps,            \* bound of the model: operations started
    MaxAsync,          \* bound of the model: selections waiting to run
    MaxLate            \* bound of the model: checks left behind by a warm-up

OpName == {"add", "update", "delete", "activate", "disable", "enable", "request",
           "fail", "metrics", "check", "config", "loop", "restart"}

ASSUME ConfigAssumption ==
    /\ MaxNodes \in Nat
    /\ MaxWeight \in Nat \ {0}
    /\ HealthLoop \notin Thread
    /\ WarmupModes \subseteq BOOLEAN
    /\ Attempts \in Nat \ {0}
    /\ RequiredSuccess \in Nat
    /\ WarmupSlots \in Nat \ {0}
    /\ StoreMayFail \in BOOLEAN
    /\ Ops \subseteq OpName
    /\ MaxOps \in Nat
    /\ MaxAsync \in Nat
    /\ MaxLate \in Nat

Node == 1 .. MaxNodes
NoNode == 0
Weight == 1 .. MaxWeight
Goroutine == Thread \cup {HealthLoop}

VARIABLES
    warmup,            \* warmupConfig.Enabled, read from the environment at a start
    nodes,             \* keys of acc.Nodes, p.nodeIndex and p.nodeAccount
    created,           \* nodes created so far
    weight, failed, disabled,  \* fields of the Node objects
    failedSet,         \* acc.FailedSet
    activeID,          \* acc.ActiveID, NoNode for ""
    stored,            \* ids with a row in table nodes
    rows,              \* those rows
    dbActive,          \* config.active_node, NoNode for ""
    activeStale,       \* dbActive was not written, or may be overwritten by a
                       \* configuration saved with an older one
    thread,            \* what each goroutine is doing
    stale,             \* nodes whose row was not written, or is written by two
                       \* goroutines at once; until one writes it alone
    pending,           \* ids that checkFailedNodes has still to check
    asyncSelects,      \* `go selectBestAndActivate` not yet running
    lateChecks,        \* checks whose warm-up attempt has timed out
    ops

pool == <<nodes, created, weight, failed, disabled, failedSet>>
memory == <<pool, activeID>>
store == <<stored, rows, dbActive, activeStale>>
work == <<thread, stale>>
background == <<warmup, pending, asyncSelects, lateChecks>>
vars == <<memory, store, work, background, ops>>

Row == [failed : BOOLEAN, disabled : BOOLEAN, weight : Weight]
BlankRow == [failed |-> FALSE, disabled |-> FALSE, weight |-> 1]

PC == {"idle",
       "snapshot",      \* toRecord after unlocking
       "persist",       \* UpsertNode, error ignored
       "persistStrict", \* UpsertNode, error returned
       "deleteRow",     \* Store.DeleteNode
       "saveConfig",    \* Store.UpdateConfig with the active node it read
       "current",       \* enableNode asks for the current node
       "select",        \* selectBestAndActivate(Excluding)
       "queued",        \* waiting for a warm-up slot
       "warm",          \* before a warm-up attempt
       "warmPersist",   \* the check of the attempt writes its snapshot
       "activate",      \* locks again to set ActiveID
       "decide"}        \* enableNode compares with the current node

(* What a goroutine does once its snapshot is written or its selection is  *)
(* over.                                                                   *)
Continuation == {"done", "select", "promote", "enabled"}

ThreadState ==
    [pc : PC, node : Node \cup {NoNode}, row : Row, then : Continuation,
     best : Node \cup {NoNode}, skip : SUBSET Node,
     left : 0 .. Attempts, good : 0 .. Attempts]

At(pc, n, r, then) ==
    [pc |-> pc, node |-> n, row |-> r, then |-> then,
     best |-> NoNode, skip |-> {}, left |-> 0, good |-> 0]

IdleThread == At("idle", NoNode, BlankRow, "done")

------------------------------------------------------------------------------
(* Reading the pool.                                                       *)

ToRecord(n) == [failed |-> failed[n], disabled |-> disabled[n], weight |-> weight[n]]

Serving(n) == n \in nodes /\ ~failed[n] /\ ~disabled[n]
Usable(n) == Serving(n) /\ n \notin failedSet

Preferred(a, b) == weight[a] < weight[b] \/ (weight[a] = weight[b] /\ a < b)

IsBest(n, skip) ==
    /\ Usable(n) /\ n \notin skip
    /\ \A m \in nodes \ (skip \cup {n}) : Usable(m) => Preferred(n, m)

NoCandidate(skip) == \A n \in nodes \ skip : ~Usable(n)

------------------------------------------------------------------------------
(* Steps shared by the handlers.                                           *)

(* The node whose row a goroutine has changed in memory, and has to write. *)
Writing(s) ==
    CASE s.pc \in {"snapshot", "persist", "persistStrict", "deleteRow"} -> s.node
      [] s.pc = "warmPersist" -> s.best
      [] OTHER -> NoNode

(* Goroutine t goes on in state s.  If it begins to write a node, the row  *)
(* is in good hands exactly if nobody else is about to write it.           *)
Goto(t, s) ==
    /\ thread' = [thread EXCEPT ![t] = s]
    /\ stale' = IF Writing(s) \in {NoNode, Writing(thread[t])} THEN stale
                ELSE IF \E u \in Goroutine \ {t} : Writing(thread[u]) = Writing(s)
                THEN stale \cup {Writing(s)}
                ELSE stale \ {Writing(s)}

(* The same after a write that failed.                                     *)
GotoUnwritten(t, s) ==
    /\ thread' = [thread EXCEPT ![t] = s]
    /\ stale' = stale \cup {Writing(thread[t])}

Start(t, op) ==
    /\ thread[t].pc = "idle"
    /\ op \in Ops
    /\ ops < MaxOps
    /\ ops' = ops + 1

MarkFailed(n) ==
    /\ failed' = [failed EXCEPT ![n] = TRUE]
    /\ failedSet' = failedSet \cup {n}

ClearFailed(n) ==
    /\ failed' = [failed EXCEPT ![n] = FALSE]
    /\ failedSet' = failedSet \ {n}

(* A goroutine that holds a snapshot r of node n and then continues.       *)
Persisting(n, r, then) == At("persist", n, r, then)
Snapshotting(n, then) == At("snapshot", n, BlankRow, then)
Selecting == At("select", NoNode, BlankRow, "done")

(* A goroutine within a selection.                                         *)
InSelection(s, pc, best, skip, left, good) ==
    [pc |-> pc, node |-> s.node, row |-> BlankRow, then |-> s.then,
     best |-> best, skip |-> skip, left |-> left, good |-> good]

Saving == {t \in Goroutine : thread[t].pc = "saveConfig"}
Switched(n) == n # activeID /\ Saving # {}

(* Under the lock; an error is ignored.                                    *)
SetActive(n) ==
    /\ activeID' = n
    /\ \/ /\ dbActive' = n
          /\ activeStale' = (Switched(n) \/ (activeStale /\ Saving # {}))
       \/ StoreMayFail /\ activeStale' = TRUE /\ UNCHANGED dbActive
    /\ UNCHANGED <<stored, rows>>

Upsert(n, r) ==
    /\ stored' = stored \cup {n}
    /\ rows' = [rows EXCEPT ![n] = r]
    /\ UNCHANGED <<dbActive, activeStale>>

------------------------------------------------------------------------------
(* Requests of the administrator: the critical section of each handler.    *)

AddNode(t, w) ==
    LET n == created + 1
        needSwitch == ~Serving(activeID) \/ w < weight[activeID]
    IN  /\ Start(t, "add")
        /\ created < MaxNodes
        /\ created' = n
        /\ nodes' = nodes \cup {n}
        /\ weight' = [weight EXCEPT ![n] = w]
        /\ failed' = [failed EXCEPT ![n] = FALSE]
        /\ disabled' = [disabled EXCEPT ![n] = FALSE]
        /\ Goto(t, Persisting(n, [BlankRow EXCEPT !.weight = w],
                              IF needSwitch THEN "select" ELSE "done"))
        /\ UNCHANGED <<failedSet, activeID, store, background>>

UpdateNode(t, n, w) ==
    /\ Start(t, "update")
    /\ n \in nodes
    /\ weight' = [weight EXCEPT ![n] = w]
    /\ Goto(t, Snapshotting(n, IF weight[n] # w THEN "select" ELSE "done"))
    /\ UNCHANGED <<nodes, created, failed, disabled, failedSet, activeID, store,
                   background>>

DeleteKeepingFailed(t, n) ==
    /\ Start(t, "delete")
    /\ n \in nodes
    /\ nodes' = nodes \ {n}
    /\ activeID' = IF activeID = n THEN NoNode ELSE activeID
    /\ activeStale' = (activeStale \/ Switched(activeID'))
    /\ Goto(t, At("deleteRow", n, BlankRow, "done"))
    /\ UNCHANGED <<created, weight, failed, disabled, failedSet, stored, rows,
                   dbActive, background>>

DeleteNode(t, n) ==
    /\ Start(t, "delete")
    /\ n \in nodes
    /\ nodes' = nodes \ {n}
    /\ failedSet' = failedSet \ {n}
    /\ activeID' = IF activeID = n THEN NoNode ELSE activeID
    /\ activeStale' = (activeStale \/ Switched(activeID'))
    /\ Goto(t, At("deleteRow", n, BlankRow, "done"))
    /\ UNCHANGED <<created, weight, failed, disabled, stored, rows, dbActive,
                   background>>

(* activate does not look at the flags of the node.                        *)
Activate(t, n) ==
    /\ Start(t, "activate")
    /\ n \in nodes
    /\ SetActive(n)
    /\ UNCHANGED <<pool, work, background>>

DisableNode(t, n) ==
    /\ Start(t, "disable")
    /\ n \in nodes
    /\ disabled' = [disabled EXCEPT ![n] = TRUE]
    /\ Goto(t, Snapshotting(n, IF activeID = n THEN "select" ELSE "done"))
    /\ UNCHANGED <<nodes, created, weight, failed, failedSet, activeID, store,
                   background>>

EnableNode(t, n) ==
    /\ Start(t, "enable")
    /\ n \in nodes
    /\ disabled' = [disabled EXCEPT ![n] = FALSE]
    /\ ClearFailed(n)
    /\ Goto(t, Snapshotting(n, "enabled"))
    /\ UNCHANGED <<nodes, created, weight, activeID, store, background>>

(* updateConfigForAccount: reads ActiveID with the new values set, unlocks *)
(* and saves both.                                                         *)
UpdateConfig(t) ==
    /\ Start(t, "config")
    /\ Goto(t, At("saveConfig", activeID, BlankRow, "done"))
    /\ UNCHANGED <<memory, store, background>>

------------------------------------------------------------------------------
(* Requests that are proxied, and health checks.                           *)

(* getActiveNodeForAccount for a passed-through request.                   *)
Request(t) ==
    /\ Start(t, "request")
    /\ ~Serving(activeID)
    /\ Goto(t, Selecting)
    /\ UNCHANGED <<memory, store, background>>

(* handleFailure, after shouldFail has said yes.                           *)
HandleFailure(t, n) ==
    /\ Start(t, "fail")
    /\ n \in nodes
    /\ MarkFailed(n)
    /\ Goto(t, Persisting(n, [ToRecord(n) EXCEPT !.failed = TRUE], "select"))
    /\ UNCHANGED <<nodes, created, weight, disabled, activeID, store, background>>

RecordMetrics(t, n, status200) ==
    /\ Start(t, "metrics")
    /\ n \in nodes
    /\ IF status200 THEN ClearFailed(n) ELSE UNCHANGED <<failed, failedSet>>
    /\ Goto(t, Persisting(n, [ToRecord(n) EXCEPT !.failed = failed'[n]], "done"))
    /\ UNCHANGED <<nodes, created, weight, disabled, activeID, store, background>>

(* The second critical section of checkNodeHealth, when the ping is back.  *)
(* A failure of the active node starts a selection with `go`.              *)
CheckVerdict(n, ok, isWarmup) ==
    /\ IF ok THEN ClearFailed(n) ELSE MarkFailed(n)
    /\ IF ~ok /\ n = activeID /\ ~isWarmup
       THEN /\ asyncSelects < MaxAsync
            /\ asyncSelects' = asyncSelects + 1
       ELSE UNCHANGED asyncSelects
    /\ UNCHANGED <<nodes, created, weight, disabled, activeID, store, warmup>>

(* shouldPromote; without an active node activeWeight is the largest int.  *)
Promotes(n, ok) ==
    /\ ok /\ ~disabled[n]
    /\ failed[n] \/ activeID \notin nodes \/ weight[n] < weight[activeID]

CheckedBeforeVerdict(n, ok, then) == Persisting(n, ToRecord(n), then)
Checked(n, ok, then) ==
    Persisting(n, [ToRecord(n) EXCEPT !.failed = ~ok], then)

(* A check of the scheduler or the administrator.                          *)
CheckNode(t, n, ok) ==
    /\ Start(t, "check")
    /\ n \in nodes
    /\ CheckVerdict(n, ok, FALSE)
    /\ Goto(t, Checked(n, ok, IF Promotes(n, ok) THEN "promote" ELSE "done"))
    /\ UNCHANGED <<pending, lateChecks>>

(* A check whose warm-up attempt did not wait for it.                      *)
LateCheck(t, n, ok) ==
    /\ thread[t].pc = "idle"
    /\ n \in lateChecks
    /\ lateChecks' = lateChecks \ {n}
    /\ \/ /\ n \in nodes
          /\ CheckVerdict(n, ok, TRUE)
          /\ Goto(t, Checked(n, ok, "done"))
       \/ /\ n \notin nodes
          /\ UNCHANGED <<memory, store, work, asyncSelects, warmup>>
    /\ UNCHANGED <<pending, ops>>

(* checkFailedNodes; disabled nodes are skipped (skip_disabled_nodes).     *)
LoopStart ==
    /\ "loop" \in Ops
    /\ thread[HealthLoop].pc = "idle"
    /\ pending = {}
    /\ pending' = {n \in failedSet : ~(n \in nodes /\ disabled[n])}
    /\ UNCHANGED <<memory, store, work, warmup, asyncSelects, lateChecks, ops>>

LoopCheck(n, ok) ==
    /\ thread[HealthLoop].pc = "idle"
    /\ n \in pending
    /\ pending' = pending \ {n}
    /\ \/ /\ n \in nodes
          /\ CheckVerdict(n, ok, FALSE)
          /\ Goto(HealthLoop,
                  Checked(n, ok, IF Promotes(n, ok) THEN "promote" ELSE "done"))
       \/ /\ n \notin nodes
          /\ UNCHANGED <<memory, store, work, asyncSelects, warmup>>
    /\ UNCHANGED <<lateChecks, ops>>

(* A selection started with `go` begins to run.                            *)
StartAsync(t) ==
    /\ thread[t].pc = "idle"
    /\ asyncSelects > 0
    /\ asyncSelects' = asyncSelects - 1
    /\ Goto(t, Selecting)
    /\ UNCHANGED <<memory, store, warmup, pending, lateChecks, ops>>

------------------------------------------------------------------------------
(* The database, after the lock is released.                               *)

Continue(s) ==
    CASE s.then = "select"  -> Selecting
      [] s.then = "promote" -> IF s.node \in nodes THEN Selecting ELSE IdleThread
      [] s.then = "enabled" -> At("current", s.node, BlankRow, "enabled")
      [] OTHER              -> IdleThread

TakeSnapshot(t) ==
    /\ thread[t].pc = "snapshot"
    /\ Goto(t, At("persistStrict", thread[t].node, ToRecord(thread[t].node),
                 thread[t].then))
    /\ UNCHANGED <<memory, store, background, ops>>

Persist(t) ==
    /\ thread[t].pc \in {"persist", "persistStrict"}
    /\ Upsert(thread[t].node, thread[t].row)
    /\ Goto(t, Continue(thread[t]))
    /\ UNCHANGED <<memory, background, ops>>

(* An error is ignored by some handlers; others return it at once, without *)
(* the selection they would have gone on to.                               *)
PersistFails(t) ==
    /\ thread[t].pc \in {"persist", "persistStrict"}
    /\ StoreMayFail
    /\ GotoUnwritten(t, IF thread[t].pc = "persist" THEN Continue(thread[t])
                                                    ELSE IdleThread)
    /\ UNCHANGED <<memory, store, background, ops>>

DeleteRow(t) ==
    /\ thread[t].pc = "deleteRow"
    /\ stored' = stored \ {thread[t].node}
    /\ Goto(t, IdleThread)
    /\ UNCHANGED <<memory, rows, dbActive, activeStale, background, ops>>

DeleteRowFails(t) ==
    /\ thread[t].pc = "deleteRow"
    /\ StoreMayFail
    /\ GotoUnwritten(t, IdleThread)
    /\ UNCHANGED <<memory, store, background, ops>>

SaveConfig(t) ==
    /\ thread[t].pc = "saveConfig"
    /\ dbActive' = thread[t].node
    /\ Goto(t, IdleThread)
    /\ UNCHANGED <<memory, stored, rows, activeStale, background, ops>>

SaveConfigFails(t) ==
    /\ thread[t].pc = "saveConfig"
    /\ StoreMayFail
    /\ Goto(t, IdleThread)
    /\ UNCHANGED <<memory, store, background, ops>>

------------------------------------------------------------------------------
(* selectBestAndActivate and selectBestAndActivateExcluding.               *)

Deciding(n, cur) ==
    InSelection(At("current", n, BlankRow, "done"), "decide", cur, {}, 0, 0)
TakingOver(n) == InSelection(IdleThread, "activate", n, {}, 0, 0)

(* The selection is over; enableNode goes on with what it found.           *)
Selected(s, n) ==
    IF s.then = "enabled" THEN Deciding(s.node, n) ELSE IdleThread

SelectNone(t) ==
    /\ thread[t].pc = "select"
    /\ NoCandidate(thread[t].skip)
    /\ Goto(t, Selected(thread[t], NoNode))
    /\ UNCHANGED <<memory, store, background, ops>>

(* Without warm-up the choice and the activation are one critical section. *)
SelectAtOnce(t, n) ==
    /\ thread[t].pc = "select"
    /\ ~warmup
    /\ IsBest(n, thread[t].skip)
    /\ SetActive(n)
    /\ Goto(t, Selected(thread[t], n))
    /\ UNCHANGED <<pool, background, ops>>

SelectToWarm(t, n) ==
    /\ thread[t].pc = "select"
    /\ warmup
    /\ IsBest(n, thread[t].skip)
    /\ Goto(t, InSelection(thread[t], "queued", n, thread[t].skip, 0, 0))
    /\ UNCHANGED <<memory, store, background, ops>>

WarmingUp == {t \in Goroutine : thread[t].pc \in {"warm", "warmPersist"}}

AcquireWarmupSlot(t) ==
    /\ thread[t].pc = "queued"
    /\ Cardinality(WarmingUp) < WarmupSlots
    /\ Goto(t, InSelection(thread[t], "warm", thread[t].best, thread[t].skip, Attempts, 0))
    /\ UNCHANGED <<memory, store, background, ops>>

SkipNothing(s) == InSelection(s, "select", NoNode, s.skip, 0, 0)
SkipBest(s) == InSelection(s, "select", NoNode, s.skip \cup {s.best}, 0, 0)

AttemptAgain(s, good) == InSelection(s, "warm", s.best, s.skip, s.left - 1, good)

WarmupOver(s, good) ==
    IF good >= RequiredSuccess
    THEN InSelection(s, "activate", s.best, s.skip, 0, 0)
    ELSE SkipBest(s)

(* One attempt is over with `good` successes so far; after the last one    *)
(* the node is activated or skipped.                                       *)
AfterAttemptOneMore(s, good) ==
    IF s.left > 0 THEN AttemptAgain(s, good) ELSE WarmupOver(s, good)
AfterAttempt(s, good) ==
    IF s.left > 1 THEN AttemptAgain(s, good) ELSE WarmupOver(s, good)

Counted(s) == IF failed[s.best] THEN s.good ELSE s.good + 1

Reporting(s, r) ==
    [InSelection(s, "warmPersist", s.best, s.skip, s.left, s.good) EXCEPT !.row = r]

(* The check of an attempt comes back in time.                             *)
WarmupCheck(t, ok) ==
    /\ thread[t].pc = "warm"
    /\ thread[t].best \in nodes
    /\ CheckVerdict(thread[t].best, ok, TRUE)
    /\ Goto(t, Reporting(thread[t], [ToRecord(thread[t].best) EXCEPT !.failed = ~ok]))
    /\ UNCHANGED <<pending, lateChecks, ops>>

WarmupPersist(t) ==
    /\ thread[t].pc = "warmPersist"
    /\ LET s == AfterAttempt(thread[t], Counted(thread[t]))
       IN \/ Upsert(thread[t].best, thread[t].row) /\ Goto(t, s)
          \/ StoreMayFail /\ UNCHANGED store /\ GotoUnwritten(t, s)
    /\ UNCHANGED <<memory, background, ops>>

(* The node is gone: the check returns at once, and its flag is as it was. *)
WarmupNodeGone(t) ==
    /\ thread[t].pc = "warm"
    /\ thread[t].best \notin nodes
    /\ Goto(t, AfterAttempt(thread[t], Counted(thread[t])))
    /\ UNCHANGED <<memory, store, background, ops>>

(* The attempt ends first; its check goes on alone.                        *)
WarmupTimeout(t) ==
    /\ thread[t].pc = "warm"
    /\ Cardinality(lateChecks) < MaxLate
    /\ thread[t].best \in nodes \ lateChecks
    /\ lateChecks' = lateChecks \cup {thread[t].best}
    /\ Goto(t, AfterAttempt(thread[t], thread[t].good))
    /\ UNCHANGED <<memory, store, warmup, pending, asyncSelects, ops>>

(* Locked again: what was chosen before the warm-up becomes active.        *)
ActivateChosen(t) ==
    /\ thread[t].pc = "activate"
    /\ SetActive(thread[t].best)
    /\ Goto(t, Selected(thread[t], thread[t].best))
    /\ UNCHANGED <<pool, background, ops>>

------------------------------------------------------------------------------
(* The end of enableNode.                                                  *)

CurrentNode(t) ==
    /\ thread[t].pc = "current"
    /\ Goto(t, IF Serving(activeID)
               THEN Selected(thread[t], activeID)
               ELSE InSelection(thread[t], "select", NoNode, {}, 0, 0))
    /\ UNCHANGED <<memory, store, background, ops>>

(* The enabled node takes over if there is no current node, or it failed,  *)
(* or it is heavier.                                                       *)
Overrides(n, cur) == cur = NoNode \/ failed[cur] \/ weight[n] < weight[cur]

DecideEnabled(t) ==
    /\ thread[t].pc = "decide"
    /\ Goto(t, IF Overrides(thread[t].node, thread[t].best)
               THEN TakingOver(thread[t].node)
               ELSE IdleThread)
    /\ UNCHANGED <<memory, store, background, ops>>

------------------------------------------------------------------------------
(* Start-up: loadAccountsFromStore.  The flags come from the rows,         *)
(* FailedSet from the flags.  A stored active node is taken as it is, even *)
(* if it has no row; without one the default account makes any node        *)
(* active, in memory only.  A restart follows a crash at any point.        *)

LoadRow(n) == IF n \in stored THEN rows[n] ELSE BlankRow

RestartWith(restored) ==
    /\ "restart" \in Ops
    /\ ops < MaxOps
    /\ ops' = ops + 1
    /\ warmup' \in WarmupModes
    /\ nodes' = stored
    /\ weight' = [n \in Node |-> LoadRow(n).weight]
    /\ failed' = [n \in Node |-> LoadRow(n).failed]
    /\ disabled' = [n \in Node |-> LoadRow(n).disabled]
    /\ failedSet' = restored
    /\ \/ activeID' = dbActive
       \/ dbActive = NoNode /\ activeID' \in stored
    /\ thread' = [t \in Goroutine |-> IdleThread]
    /\ pending' = {}
    /\ asyncSelects' = 0
    /\ lateChecks' = {}
    /\ stale' = {} /\ activeStale' = FALSE
    /\ UNCHANGED <<created, stored, rows, dbActive>>

RestartForgettingFailed == RestartWith({})
Restart == RestartWith({n \in stored : rows[n].failed})

(* The first start, on whatever an earlier process left in the database.   *)
Init ==
    /\ warmup \in WarmupModes
    /\ created \in 0 .. MaxNodes
    /\ stored \in SUBSET (1 .. created)
    /\ rows \in [Node -> Row]
    /\ \A n \in Node \ stored : rows[n] = BlankRow
    /\ dbActive \in 0 .. created
    /\ nodes = stored
    /\ weight = [n \in Node |-> rows[n].weight]
    /\ failed = [n \in Node |-> rows[n].failed]
    /\ disabled = [n \in Node |-> rows[n].disabled]
    /\ failedSet = {n \in stored : rows[n].failed}
    /\ \/ activeID = dbActive
       \/ dbActive = NoNode /\ activeID \in stored
    /\ stale = {} /\ activeStale = FALSE
    /\ thread = [t \in Goroutine |-> IdleThread]
    /\ pending = {}
    /\ asyncSelects = 0
    /\ lateChecks = {}
    /\ ops = 0

------------------------------------------------------------------------------

Handle(t) ==
    \/ \E w \in Weight : AddNode(t, w)
    \/ \E n \in Node, w \in Weight : UpdateNode(t, n, w)
    \/ \E n \in Node : DeleteNode(t, n)
    \/ \E n \in Node : Activate(t, n)
    \/ \E n \in Node : DisableNode(t, n)
    \/ \E n \in Node : EnableNode(t, n)
    \/ UpdateConfig(t)
    \/ Request(t)
    \/ \E n \in Node : HandleFailure(t, n)
    \/ \E n \in Node, status200 \in BOOLEAN : RecordMetrics(t, n, status200)
    \/ \E n \in Node, ok \in BOOLEAN : CheckNode(t, n, ok)

Background(t) ==
    \/ StartAsync(t)
    \/ \E n \in Node, ok \in BOOLEAN : LateCheck(t, n, ok)

Step(t) ==
    \/ TakeSnapshot(t) \/ Persist(t) \/ PersistFails(t)
    \/ DeleteRow(t) \/ DeleteRowFails(t)
    \/ SaveConfig(t) \/ SaveConfigFails(t)
    \/ SelectNone(t)
    \/ \E n \in Node : SelectAtOnce(t, n) \/ SelectToWarm(t, n)
    \/ AcquireWarmupSlot(t)
    \/ \E ok \in BOOLEAN : WarmupCheck(t, ok)
    \/ WarmupPersist(t) \/ WarmupNodeGone(t) \/ WarmupTimeout(t)
    \/ ActivateChosen(t) \/ CurrentNode(t) \/ DecideEnabled(t)

Loop == LoopStart \/ \E n \in Node, ok \in BOOLEAN : LoopCheck(n, ok)

Next ==
    \/ \E t \in Thread : Handle(t) \/ Background(t)
    \/ \E t \in Goroutine : Step(t)
    \/ Loop
    \/ Restart

Spec == Init /\ [][Next]_vars

(* Goroutines run; waiting for a warm-up slot is first come, first served. *)
(* healthLoop never ends: its interval is positive.                        *)
FairSpec ==
    /\ Spec
    /\ \A t \in Goroutine : WF_vars(Step(t)) /\ SF_vars(AcquireWarmupSlot(t))
    /\ WF_vars(Loop)

------------------------------------------------------------------------------
(* Properties.                                                             *)

(* Types; ids in use are ids that were given out; a goroutine that works   *)
(* on a node has one, and a warm-up makes no more than Attempts attempts.  *)
GivenOut == 1 .. created

DataOK ==
    /\ warmup \in WarmupModes
    /\ created \in 0 .. MaxNodes
    /\ nodes \subseteq GivenOut
    /\ weight \in [Node -> Weight]
    /\ failed \in [Node -> BOOLEAN]
    /\ disabled \in [Node -> BOOLEAN]
    /\ failedSet \subseteq GivenOut
    /\ activeID \in GivenOut \cup {NoNode}
    /\ stored \subseteq GivenOut
    /\ rows \in [Node -> Row]
    /\ dbActive \in GivenOut \cup {NoNode}
    /\ activeStale \in BOOLEAN
    /\ pending \subseteq GivenOut
    /\ asyncSelects \in 0 .. MaxAsync
    /\ lateChecks \subseteq GivenOut
    /\ ops \in 0 .. MaxOps

ThreadOK(s, count) ==
    /\ s \in ThreadState
    /\ s.node <= count /\ s.best <= count
    /\ s.pc \in {"snapshot", "persist", "persistStrict", "deleteRow", "current",
                 "decide"} => s.node # NoNode
    /\ s.then = "enabled" => s.node # NoNode
    /\ s.pc \in {"queued", "warm", "warmPersist", "activate"} => s.best # NoNode
    /\ s.good + s.left <= Attempts
    /\ s.pc \in {"warm", "warmPersist"} => s.left > 0

TypeOK ==
    /\ DataOK
    /\ stale \subseteq GivenOut
    /\ thread \in [Goroutine -> ThreadState]
    /\ \A t \in Goroutine : ThreadOK(thread[t], created)

(* FailedSet, which healthLoop probes, is exactly the set of failed nodes, *)
(* through every handler, deletion and restart.  A failed node outside it  *)
(* would never be probed again (docs/bugfix_failed_set_restore.md); a good *)
(* node inside it would never be selected.                                 *)
FailedSetExact == failedSet = {n \in nodes : failed[n]}

(* A restart comes back to the node that is active now, unless the last    *)
(* write of the active node failed or was that of a configuration saved    *)
(* with an active node that was switched away from meanwhile; only an      *)
(* account without a stored active node may run on one that is not stored. *)
ActivePersisted ==
    ~activeStale => activeID = NoNode \/ dbActive \in {activeID, NoNode}

SameAsStored(n) ==
    /\ n \in stored <=> n \in nodes
    /\ n \in nodes => rows[n] = ToRecord(n)

(* Every node is in the table with the flags and the weight it has in      *)
(* memory, or in neither, whatever handlers, checks and warm-ups overlap,  *)
(* but for nodes that a goroutine has still to write and those whose last  *)
(* write failed or overlapped with one of another goroutine: the code does *)
(* not order these.  The next writer that is alone makes up for them.      *)
StoreMatchesMemory ==
    \A n \in Node : n \in stale \/ SameAsStored(n)
                     \/ \E t \in Goroutine : Writing(thread[t]) = n

(* What a restart would load is what runs now: the nodes with their flags, *)
(* and the active one.                                                     *)
RestartLoadsMemory == StoreMatchesMemory /\ ActivePersisted

(* A selection ends, however many warm-ups fail on its way.                *)
SelectionTerminates ==
    \A t \in Goroutine :
        thread[t].pc = "select" ~> thread[t].pc \in {"idle", "decide"}

(* A node that stays failed is probed again and again by the health loop,  *)
(* after restarts too, until it recovers, is deleted or is disabled: it    *)
(* keeps being listed for a round, and the rounds come to an end.          *)
OutForGood(n) == n \in nodes /\ failed[n] /\ ~disabled[n]
FailedNodesProbed ==
    \A n \in Node : []<>(OutForGood(n) => n \in pending)
                   /\ []<>(OutForGood(n) => n \notin pending)
=============================================================================
