---------------------------- MODULE NodePoolProofs ----------------------------
(***************************************************************************)
(* Proofs about NodePool, for any number of nodes, goroutines, operations, *)
(* crashes and database errors, with or without warm-up: types, the set of *)
(* failed nodes, the active node that is stored, and the table against the *)
(* memory (RestartLoadsMemory).  Fail-over (FailoverComplete): without     *)
(* warm-up, and for the operations that FailoverSetting leaves.            *)
(***************************************************************************)
EXTENDS NodePool, TLAPS

------------------------------------------------------------------------------
(* The states a goroutine is put in are well formed.                       *)

Count == 0 .. MaxNodes

LEMMA BlankRowType == BlankRow \in Row
  BY ConfigAssumption DEF BlankRow, Row, Weight

LEMMA AtOK ==
    ASSUME NEW c \in Count, NEW pc \in PC \ {"queued", "warm", "warmPersist", "activate"},
           NEW n \in 0 .. c, NEW r \in Row, NEW then \in Continuation,
           n = NoNode => /\ pc \in {"idle", "select", "saveConfig"}
                         /\ then # "enabled"
    PROVE  ThreadOK(At(pc, n, r, then), c)
  BY ConfigAssumption
  DEF ThreadOK, At, ThreadState, PC, NoNode, Node, Count

LEMMA IdleOK ==
    ASSUME NEW c \in Count
    PROVE  ThreadOK(IdleThread, c) /\ ThreadOK(Selecting, c)
  BY AtOK, BlankRowType DEF IdleThread, Selecting, PC, Continuation, NoNode, Count

LEMMA WorkingOK ==
    ASSUME NEW c \in Count, NEW n \in 1 .. c, NEW r \in Row, NEW then \in Continuation
    PROVE  /\ ThreadOK(Persisting(n, r, then), c)
           /\ ThreadOK(Snapshotting(n, then), c)
           /\ ThreadOK(At("deleteRow", n, r, "done"), c)
           /\ ThreadOK(At("persistStrict", n, r, then), c)
           /\ ThreadOK(At("current", n, r, then), c)
  BY AtOK, BlankRowType DEF Persisting, Snapshotting, PC, Continuation, NoNode, Count

LEMMA InSelectionOK ==
    ASSUME NEW c \in Count, NEW s, ThreadOK(s, c),
           NEW pc \in {"select", "queued", "warm", "activate", "decide"}, NEW n \in 0 .. c,
           NEW skip \in SUBSET Node, NEW left \in 0 .. Attempts, NEW good \in 0 .. Attempts,
           good + left <= Attempts,
           pc \in {"queued", "warm", "activate"} => n # NoNode,
           pc = "decide" => s.node # NoNode,
           pc = "warm" => left > 0
    PROVE  ThreadOK(InSelection(s, pc, n, skip, left, good), c)
  BY ConfigAssumption, BlankRowType
  DEF ThreadOK, InSelection, ThreadState, PC, NoNode, Node, Count

(* A goroutine that goes on after its snapshot was written.                *)
LEMMA ContinueOK ==
    ASSUME NEW c \in Count, NEW s, ThreadOK(s, c), s.node # NoNode
    PROVE  ThreadOK(Continue(s), c)
  <1>1. s.node \in 1 .. c
    BY DEF ThreadOK, ThreadState, NoNode, Node, Count
  <1>2. ThreadOK(At("current", s.node, BlankRow, "enabled"), c)
    BY <1>1, WorkingOK, BlankRowType DEF Continuation
  <1>3. Continue(s) \in {Selecting, IdleThread, At("current", s.node, BlankRow, "enabled")}
    BY DEF Continue
  <1> QED
    BY <1>2, <1>3, IdleOK

LEMMA SelectedOK ==
    ASSUME NEW c \in Count, NEW s, ThreadOK(s, c), NEW n \in 0 .. c
    PROVE  ThreadOK(Selected(s, n), c)
  <1>1. CASE s.then = "enabled"
    <2>1. s.node \in 1 .. c
      BY <1>1 DEF ThreadOK, ThreadState, NoNode, Node, Count
    <2>2. ThreadOK(At("current", s.node, BlankRow, "done"), c)
      BY <2>1, WorkingOK, BlankRowType DEF Continuation
    <2>3. At("current", s.node, BlankRow, "done").node # NoNode
      BY <2>1 DEF At, NoNode
    <2>4. ThreadOK(Deciding(s.node, n), c)
      BY <2>2, <2>3, InSelectionOK, ConfigAssumption DEF Deciding
    <2> QED
      BY <1>1, <2>4 DEF Selected
  <1>2. CASE s.then # "enabled"
    BY <1>2, IdleOK DEF Selected
  <1> QED
    BY <1>1, <1>2

(* After a warm-up attempt the node is tried again, activated or skipped.  *)
LEMMA AfterAttemptOK ==
    ASSUME NEW c \in Count, NEW s, ThreadOK(s, c), s.pc \in {"warm", "warmPersist"},
           NEW g \in {s.good, s.good + 1}
    PROVE  ThreadOK(AfterAttempt(s, g), c)
  <1>1. /\ s.left \in 1 .. Attempts /\ g \in 0 .. Attempts
        /\ g + (s.left - 1) <= Attempts
        /\ s.best \in 1 .. c
        /\ s.skip \in SUBSET Node
    BY ConfigAssumption DEF ThreadOK, ThreadState, NoNode, Node, Count
  <1>2. s.skip \cup {s.best} \in SUBSET Node
    BY <1>1, ConfigAssumption DEF Node, Count
  <1>3. CASE s.left > 1
    <2>1. s.left - 1 \in 1 .. Attempts
      BY <1>1, <1>3, ConfigAssumption
    <2> QED
      BY <1>1, <1>3, <2>1, InSelectionOK DEF AfterAttempt, AttemptAgain, NoNode
  <1>4. CASE ~(s.left > 1)
    <2>1. ThreadOK(InSelection(s, "activate", s.best, s.skip, 0, 0), c)
      BY <1>1, InSelectionOK, ConfigAssumption DEF NoNode
    <2>2. ThreadOK(SkipBest(s), c)
      BY <1>2, InSelectionOK, ConfigAssumption DEF SkipBest, NoNode, Count
    <2> QED
      BY <1>4, <2>1, <2>2 DEF AfterAttempt, WarmupOver
  <1> QED
    BY <1>3, <1>4

(* What a goroutine writes is a node that was given out, if it is any.     *)
LEMMA WritingOK ==
    ASSUME NEW c \in Count, NEW s, ThreadOK(s, c)
    PROVE  /\ Writing(s) \in 0 .. c
           /\ s.pc \in {"snapshot", "persist", "persistStrict", "deleteRow", "warmPersist"}
                  <=> Writing(s) # NoNode
  BY DEF Writing, ThreadOK, ThreadState, NoNode, Node, Count

(* One goroutine moves, and perhaps a node id is given out.                *)
LEMMA GotoOK ==
    ASSUME TypeOK, created' \in Count, created <= created',
           NEW t \in Goroutine, NEW s, ThreadOK(s, created'),
           Goto(t, s) \/ (GotoUnwritten(t, s) /\ Writing(thread[t]) # NoNode)
    PROVE  /\ thread' \in [Goroutine -> ThreadState]
           /\ \A u \in Goroutine : ThreadOK(thread'[u], created')
           /\ stale' \subseteq GivenOut'
  <1>1. s \in ThreadState
    BY DEF ThreadOK
  <1>2. thread' = [thread EXCEPT ![t] = s] /\ thread \in [Goroutine -> ThreadState]
    BY DEF TypeOK, Goto, GotoUnwritten
  <1>3. ASSUME NEW u \in Goroutine PROVE ThreadOK(thread[u], created')
    <2>1. ThreadOK(thread[u], created) /\ created \in Count
      BY DEF TypeOK, DataOK, Count
    <2> QED
      BY <2>1 DEF ThreadOK, ThreadState, NoNode, Node, Count
  <1>4. stale' \subseteq GivenOut'
    <2>1. stale \subseteq 1 .. created' /\ GivenOut' = 1 .. created'
      BY DEF TypeOK, DataOK, GivenOut, Count
    <2>2. /\ Writing(s) # NoNode => Writing(s) \in 1 .. created'
          /\ Writing(thread[t]) # NoNode => Writing(thread[t]) \in 1 .. created'
      <3>1. Writing(s) \in 0 .. created' /\ Writing(thread[t]) \in 0 .. created'
        BY <1>3, WritingOK
      <3> QED
        BY <3>1 DEF NoNode, Count
    <2>3. stale' \subseteq stale \cup ({Writing(s), Writing(thread[t])} \ {NoNode})
      BY DEF Goto, GotoUnwritten
    <2> QED
      BY <2>1, <2>2, <2>3
  <1> QED
    BY <1>1, <1>2, <1>3, <1>4

LEMMA ToRecordType ==
    ASSUME TypeOK, NEW n \in Node
    PROVE  /\ ToRecord(n) \in Row
           /\ \A b \in BOOLEAN : [ToRecord(n) EXCEPT !.failed = b] \in Row
  BY DEF TypeOK, DataOK, ToRecord, Row

------------------------------------------------------------------------------
(* What the handlers' building blocks do to the data.                      *)

LEMMA MarkOK ==
    ASSUME DataOK, NEW n \in nodes, MarkFailed(n) \/ ClearFailed(n)
    PROVE  failed' \in [Node -> BOOLEAN] /\ failedSet' \subseteq GivenOut
  <1>1. n \in GivenOut
    BY DEF DataOK
  <1>2. failed' \in [Node -> BOOLEAN]
    BY DEF DataOK, MarkFailed, ClearFailed
  <1> QED
    BY <1>1, <1>2 DEF DataOK, MarkFailed, ClearFailed

LEMMA GivenOutNode == DataOK => GivenOut \subseteq Node /\ created \in Count
  BY ConfigAssumption DEF DataOK, GivenOut, Node, Count

LEMMA SetActiveOK ==
    ASSUME DataOK, NEW n \in GivenOut, SetActive(n)
    PROVE  /\ activeID' \in GivenOut \cup {NoNode}
           /\ dbActive' \in GivenOut \cup {NoNode}
           /\ activeStale' \in BOOLEAN
           /\ UNCHANGED <<stored, rows>>
  BY DEF DataOK, SetActive

LEMMA UpsertOK ==
    ASSUME DataOK, NEW n \in GivenOut, NEW r \in Row, Upsert(n, r)
    PROVE  /\ stored' \subseteq GivenOut
           /\ rows' \in [Node -> Row]
           /\ UNCHANGED <<dbActive, activeStale>>
  BY DEF DataOK, Upsert

LEMMA StartOK ==
    ASSUME DataOK, NEW t \in Thread, NEW op, Start(t, op)
    PROVE  ops' \in 0 .. MaxOps
  BY ConfigAssumption DEF DataOK, Start

------------------------------------------------------------------------------
(* Type correctness, action by action.                                     *)

LEMMA Moves ==
    ASSUME TypeOK, created' = created, DataOK',
           NEW t \in Goroutine, NEW s, ThreadOK(s, created),
           Goto(t, s) \/ (GotoUnwritten(t, s) /\ Writing(thread[t]) # NoNode)
    PROVE  TypeOK'
  <1>1. created' \in Count /\ created <= created' /\ ThreadOK(s, created')
    BY DEF TypeOK, DataOK, Count
  <1> QED
    BY <1>1, GotoOK DEF TypeOK

LEMMA Stays ==
    ASSUME TypeOK, UNCHANGED <<created, work>>, DataOK'
    PROVE  TypeOK'
  BY DEF TypeOK, work, GivenOut

(* What holds of a goroutine that is at work.                              *)
LEMMA AtWork ==
    ASSUME TypeOK, NEW t \in Goroutine
    PROVE  /\ ThreadOK(thread[t], created)
           /\ thread[t] \in ThreadState
           /\ thread[t].node # NoNode => thread[t].node \in GivenOut
           /\ thread[t].best # NoNode => thread[t].best \in GivenOut
           /\ created \in Count
           /\ GivenOut \subseteq Node
           /\ DataOK
  <1>1. ThreadOK(thread[t], created) /\ created \in Nat
    BY DEF TypeOK, DataOK
  <1>2. thread[t] \in ThreadState
    BY <1>1 DEF ThreadOK
  <1> QED
    BY <1>1, <1>2, GivenOutNode DEF TypeOK, ThreadOK, ThreadState, GivenOut, NoNode, Node

LEMMA AdminTypes ==
    ASSUME TypeOK, NEW t \in Thread, NEW n, NEW w \in Weight,
           UpdateNode(t, n, w) \/ DeleteNode(t, n) \/ Activate(t, n)
           \/ DisableNode(t, n) \/ EnableNode(t, n)
    PROVE  TypeOK'
  <1>1. /\ t \in Goroutine /\ n \in GivenOut /\ n \in Node
        /\ created \in Count /\ GivenOut = 1 .. created
    BY GivenOutNode DEF Goroutine, TypeOK, DataOK, UpdateNode, DeleteNode, Activate,
                        DisableNode, EnableNode, GivenOut
  <1>2. ops' \in 0 .. MaxOps
    BY StartOK DEF TypeOK, UpdateNode, DeleteNode, Activate, DisableNode, EnableNode
  <1>3. CASE UpdateNode(t, n, w)
    <2>1. DataOK'
      BY <1>2, <1>3 DEF TypeOK, DataOK, UpdateNode, store, background, GivenOut
    <2>2. PICK then \in Continuation : Goto(t, Snapshotting(n, then))
      BY <1>3 DEF UpdateNode, Continuation
    <2> QED
      BY <1>1, <1>3, <2>1, <2>2, WorkingOK, BlankRowType, Moves DEF UpdateNode
  <1>4. CASE DeleteNode(t, n)
    <2>1. DataOK'
      BY <1>2, <1>4 DEF TypeOK, DataOK, DeleteNode, store, background, GivenOut
    <2> QED
      BY <1>1, <1>4, <2>1, WorkingOK, BlankRowType, Moves DEF DeleteNode, Continuation
  <1>5. CASE Activate(t, n)
    <2>1. DataOK'
      BY <1>1, <1>2, <1>5, SetActiveOK
      DEF TypeOK, DataOK, Activate, pool, background, GivenOut
    <2> QED
      BY <1>5, <2>1, Stays DEF Activate, pool
  <1>6. CASE DisableNode(t, n)
    <2>1. DataOK'
      BY <1>2, <1>6 DEF TypeOK, DataOK, DisableNode, store, background, GivenOut
    <2>2. PICK then \in Continuation : Goto(t, Snapshotting(n, then))
      BY <1>6 DEF DisableNode, Continuation
    <2> QED
      BY <1>1, <1>6, <2>1, <2>2, WorkingOK, BlankRowType, Moves DEF DisableNode
  <1>7. CASE EnableNode(t, n)
    <2>1. failed' \in [Node -> BOOLEAN] /\ failedSet' \subseteq GivenOut
      BY <1>7, MarkOK DEF EnableNode, TypeOK
    <2>2. DataOK'
      BY <1>2, <1>7, <2>1 DEF TypeOK, DataOK, EnableNode, store, background, GivenOut
    <2> QED
      BY <1>1, <1>7, <2>2, WorkingOK, BlankRowType, Moves DEF EnableNode, Continuation
  <1> QED
    BY <1>3, <1>4, <1>5, <1>6, <1>7

LEMMA AddTypes ==
    ASSUME TypeOK, NEW t \in Thread, NEW w \in Weight, AddNode(t, w)
    PROVE  TypeOK'
  <1>1. /\ created' = created + 1 /\ created' \in Count /\ created \in Nat
        /\ created < created' /\ t \in Goroutine
    BY ConfigAssumption DEF AddNode, TypeOK, DataOK, Count, Goroutine
  <1>2. [BlankRow EXCEPT !.weight = w] \in Row
    BY DEF BlankRow, Row
  <1>3. PICK then \in Continuation :
            Goto(t, Persisting(created', [BlankRow EXCEPT !.weight = w], then))
    BY <1>1 DEF AddNode, Continuation
  <1>4. ops' \in 0 .. MaxOps
    BY StartOK DEF TypeOK, AddNode
  <1>5. GivenOut \subseteq GivenOut' /\ created' \in GivenOut'
    BY <1>1 DEF GivenOut
  <1>6. DataOK'
    <2>1. /\ nodes' \subseteq GivenOut'
          /\ failedSet' \subseteq GivenOut' /\ stored' \subseteq GivenOut'
          /\ activeID' \in GivenOut' \cup {NoNode}
          /\ dbActive' \in GivenOut' \cup {NoNode}
          /\ pending' \subseteq GivenOut' /\ lateChecks' \subseteq GivenOut'
      BY <1>1, <1>5 DEF AddNode, TypeOK, DataOK, store, background
    <2>2. /\ weight' \in [Node -> Weight]
          /\ failed' \in [Node -> BOOLEAN]
          /\ disabled' \in [Node -> BOOLEAN]
      BY DEF AddNode, TypeOK, DataOK
    <2>3. /\ rows' \in [Node -> Row] /\ activeStale' \in BOOLEAN
          /\ asyncSelects' \in 0 .. MaxAsync /\ warmup' \in WarmupModes
      BY DEF AddNode, TypeOK, DataOK, store, background
    <2> QED
      BY <1>1, <1>4, <2>1, <2>2, <2>3 DEF DataOK, Count
  <1>7. ThreadOK(Persisting(created', [BlankRow EXCEPT !.weight = w], then), created')
    <2>1. created' \in 1 .. created'
      BY <1>1
    <2> QED
      BY <1>1, <1>2, <2>1, WorkingOK
  <1> QED
    BY <1>1, <1>3, <1>6, <1>7, GotoOK DEF TypeOK

(* The critical section of a check.                                        *)
LEMMA VerdictOK ==
    ASSUME DataOK, NEW n \in nodes, NEW ok \in BOOLEAN, NEW isWarmup \in BOOLEAN,
           CheckVerdict(n, ok, isWarmup), ops' \in 0 .. MaxOps,
           pending' \subseteq GivenOut, lateChecks' \subseteq GivenOut
    PROVE  DataOK' /\ created' = created
  <1>1. failed' \in [Node -> BOOLEAN] /\ failedSet' \subseteq GivenOut
    BY MarkOK DEF CheckVerdict
  <1>2. asyncSelects' \in 0 .. MaxAsync
    BY ConfigAssumption DEF CheckVerdict, DataOK
  <1>3. UNCHANGED <<nodes, created, weight, disabled, activeID, stored, rows, dbActive,
                    activeStale, warmup>>
    BY DEF CheckVerdict, store
  <1> QED
    BY <1>1, <1>2, <1>3 DEF DataOK, GivenOut

LEMMA CheckedOK ==
    ASSUME TypeOK, NEW n \in nodes, NEW ok \in BOOLEAN, NEW then \in Continuation
    PROVE  ThreadOK(Checked(n, ok, then), created)
  <1>1. n \in Node /\ n \in 1 .. created /\ created \in Count
    BY GivenOutNode DEF TypeOK, DataOK, GivenOut
  <1>2. [ToRecord(n) EXCEPT !.failed = ~ok] \in Row
    BY <1>1, ToRecordType
  <1> QED
    BY <1>1, <1>2, WorkingOK DEF Checked

LEMMA TrafficTypes ==
    ASSUME TypeOK, NEW t \in Thread, NEW n, NEW ok \in BOOLEAN,
           Request(t) \/ HandleFailure(t, n) \/ RecordMetrics(t, n, ok)
           \/ CheckNode(t, n, ok)
    PROVE  TypeOK'
  <1>1. t \in Goroutine /\ created \in Count /\ DataOK /\ GivenOut \subseteq Node
    BY GivenOutNode DEF Goroutine, TypeOK
  <1>2. ops' \in 0 .. MaxOps
    BY StartOK DEF TypeOK, Request, HandleFailure, RecordMetrics, CheckNode
  <1>3. CASE Request(t)
    <2>1. DataOK' /\ created' = created
      BY <1>1, <1>2, <1>3 DEF DataOK, Request, memory, pool, store, background, GivenOut
    <2> QED
      BY <1>1, <1>3, <2>1, IdleOK, Moves DEF Request
  <1>4. CASE HandleFailure(t, n)
    <2>1. failed' \in [Node -> BOOLEAN] /\ failedSet' \subseteq GivenOut
      BY <1>1, <1>4, MarkOK DEF HandleFailure
    <2>2. DataOK' /\ created' = created
      BY <1>1, <1>2, <1>4, <2>1 DEF DataOK, HandleFailure, store, background, GivenOut
    <2>3. n \in 1 .. created /\ n \in Node
      BY <1>1, <1>4 DEF HandleFailure, DataOK, GivenOut
    <2>4. ThreadOK(Persisting(n, [ToRecord(n) EXCEPT !.failed = TRUE], "select"), created)
      BY <1>1, <2>3, ToRecordType, WorkingOK DEF Continuation
    <2> QED
      BY <1>1, <1>4, <2>2, <2>4, Moves DEF HandleFailure
  <1>5. CASE RecordMetrics(t, n, ok)
    <2>1. failed' \in [Node -> BOOLEAN] /\ failedSet' \subseteq GivenOut
      BY <1>1, <1>5, MarkOK DEF RecordMetrics, DataOK
    <2>2. DataOK' /\ created' = created
      BY <1>1, <1>2, <1>5, <2>1 DEF DataOK, RecordMetrics, store, background, GivenOut
    <2>3. n \in 1 .. created /\ n \in Node
      BY <1>1, <1>5 DEF RecordMetrics, DataOK, GivenOut
    <2>4. ThreadOK(Persisting(n, [ToRecord(n) EXCEPT !.failed = failed'[n]], "done"), created)
      BY <1>1, <2>1, <2>3, ToRecordType, WorkingOK DEF Continuation
    <2> QED
      BY <1>1, <1>5, <2>2, <2>4, Moves DEF RecordMetrics
  <1>6. CASE CheckNode(t, n, ok)
    <2>1. n \in nodes /\ CheckVerdict(n, ok, FALSE) /\ UNCHANGED <<pending, lateChecks>>
      BY <1>6 DEF CheckNode
    <2>2. DataOK' /\ created' = created
      BY <1>1, <1>2, <2>1, VerdictOK DEF DataOK
    <2>3. PICK then \in Continuation : Goto(t, Checked(n, ok, then))
      BY <1>6 DEF CheckNode, Continuation
    <2> QED
      BY <1>1, <2>1, <2>2, <2>3, CheckedOK, Moves
  <1> QED
    BY <1>3, <1>4, <1>5, <1>6

LEMMA BackgroundTypes ==
    ASSUME TypeOK, NEW t \in Thread, NEW n, NEW ok \in BOOLEAN,
           LateCheck(t, n, ok) \/ StartAsync(t)
    PROVE  TypeOK'
  <1>1. t \in Goroutine /\ created \in Count /\ DataOK /\ GivenOut \subseteq Node
    BY GivenOutNode DEF Goroutine, TypeOK
  <1>2. CASE LateCheck(t, n, ok) /\ n \in nodes
    <2>1. CheckVerdict(n, ok, TRUE) /\ Goto(t, Checked(n, ok, "done"))
          /\ ops' = ops /\ pending' = pending /\ lateChecks' \subseteq lateChecks
      BY <1>2 DEF LateCheck
    <2>2. DataOK' /\ created' = created
      BY <1>1, <1>2, <2>1, VerdictOK DEF DataOK
    <2>3. ThreadOK(Checked(n, ok, "done"), created)
      BY <1>2, CheckedOK DEF Continuation
    <2> QED
      BY <1>1, <2>1, <2>2, <2>3, Moves
  <1>3. CASE LateCheck(t, n, ok) /\ n \notin nodes
    <2>1. DataOK'
      BY <1>1, <1>3 DEF LateCheck, DataOK, memory, pool, store, GivenOut
    <2> QED
      BY <1>3, <2>1, Stays DEF LateCheck, memory, pool
  <1>4. CASE StartAsync(t)
    <2>1. DataOK' /\ created' = created
      BY <1>1, <1>4, ConfigAssumption DEF StartAsync, DataOK, memory, pool, store, GivenOut
    <2> QED
      BY <1>1, <1>4, <2>1, IdleOK, Moves DEF StartAsync
  <1> QED
    BY <1>2, <1>3, <1>4

LEMMA LoopTypes ==
    ASSUME TypeOK, Loop
    PROVE  TypeOK'
  <1>1. HealthLoop \in Goroutine /\ created \in Count /\ DataOK
    BY GivenOutNode DEF Goroutine, TypeOK
  <1>2. CASE LoopStart
    <2>1. DataOK'
      BY <1>1, <1>2 DEF LoopStart, DataOK, memory, pool, store, GivenOut
    <2> QED
      BY <1>2, <2>1, Stays DEF LoopStart, memory, pool
  <1>3. ASSUME NEW n \in Node, NEW ok \in BOOLEAN, LoopCheck(n, ok) PROVE TypeOK'
    <2>1. CASE n \in nodes
      <3>1. /\ CheckVerdict(n, ok, FALSE) /\ ops' = ops
            /\ pending' \subseteq pending /\ lateChecks' = lateChecks
        BY <1>3, <2>1 DEF LoopCheck
      <3>2. DataOK' /\ created' = created
        BY <1>1, <2>1, <3>1, VerdictOK DEF DataOK
      <3>3. PICK then \in Continuation : Goto(HealthLoop, Checked(n, ok, then))
        BY <1>3, <2>1 DEF LoopCheck, Continuation
      <3> QED
        BY <1>1, <2>1, <3>2, <3>3, CheckedOK, Moves
    <2>2. CASE n \notin nodes
      <3>1. DataOK'
        BY <1>1, <1>3, <2>2 DEF LoopCheck, DataOK, memory, pool, store, GivenOut
      <3> QED
        BY <1>3, <2>2, <3>1, Stays DEF LoopCheck, memory, pool
    <2> QED
      BY <2>1, <2>2
  <1> QED
    BY <1>2, <1>3 DEF Loop

(* A step that leaves everything but the goroutine alone.                  *)
LEMMA OnlyThread ==
    ASSUME TypeOK, UNCHANGED <<memory, store, background, ops>>,
           NEW t \in Goroutine, NEW s, ThreadOK(s, created),
           Goto(t, s) \/ (GotoUnwritten(t, s) /\ Writing(thread[t]) # NoNode)
    PROVE  TypeOK'
  <1>1. DataOK' /\ created' = created
    BY DEF TypeOK, DataOK, memory, pool, store, background, GivenOut
  <1> QED
    BY <1>1, Moves

LEMMA StoreStepTypes ==
    ASSUME TypeOK, NEW t \in Goroutine,
           TakeSnapshot(t) \/ Persist(t) \/ PersistFails(t)
           \/ DeleteRow(t) \/ DeleteRowFails(t)
    PROVE  TypeOK'
  <1>1. /\ ThreadOK(thread[t], created) /\ thread[t] \in ThreadState
        /\ Writing(thread[t]) # NoNode
        /\ thread[t].node # NoNode /\ thread[t].node \in GivenOut
        /\ thread[t].row \in Row /\ thread[t].then \in Continuation
        /\ created \in Count /\ GivenOut \subseteq Node /\ DataOK
    <2>1. thread[t].node # NoNode
      BY AtWork DEF ThreadOK, TakeSnapshot, Persist, PersistFails, DeleteRow, DeleteRowFails
    <2>2. Writing(thread[t]) # NoNode
      BY <2>1 DEF Writing, TakeSnapshot, Persist, PersistFails, DeleteRow, DeleteRowFails
    <2> QED
      BY <2>1, <2>2, AtWork DEF ThreadState
  <1>2. CASE TakeSnapshot(t)
    <2>1. ToRecord(thread[t].node) \in Row /\ thread[t].node \in 1 .. created
      BY <1>1, ToRecordType DEF GivenOut
    <2>2. ThreadOK(At("persistStrict", thread[t].node, ToRecord(thread[t].node),
                      thread[t].then), created)
      BY <1>1, <2>1, WorkingOK
    <2> QED
      BY <1>2, <2>2, OnlyThread DEF TakeSnapshot
  <1>3. ThreadOK(Continue(thread[t]), created) /\ ThreadOK(IdleThread, created)
    BY <1>1, ContinueOK, IdleOK
  <1>4. CASE Persist(t)
    <2>1. DataOK' /\ created' = created
      BY <1>1, <1>4, UpsertOK DEF Persist, DataOK, memory, pool, background, GivenOut
    <2> QED
      BY <1>3, <1>4, <2>1, Moves DEF Persist
  <1>5. CASE PersistFails(t)
    BY <1>1, <1>3, <1>5, OnlyThread DEF PersistFails
  <1>6. CASE DeleteRow(t)
    <2>1. DataOK' /\ created' = created
      BY <1>1, <1>6 DEF DeleteRow, DataOK, memory, pool, background, GivenOut
    <2> QED
      BY <1>3, <1>6, <2>1, Moves DEF DeleteRow
  <1>7. CASE DeleteRowFails(t)
    BY <1>1, <1>3, <1>7, OnlyThread DEF DeleteRowFails
  <1> QED
    BY <1>2, <1>4, <1>5, <1>6, <1>7

LEMMA ConfigTypes ==
    ASSUME TypeOK, NEW t \in Goroutine,
           (t \in Thread /\ UpdateConfig(t)) \/ SaveConfig(t) \/ SaveConfigFails(t)
    PROVE  TypeOK'
  <1>1. /\ ThreadOK(thread[t], created) /\ thread[t] \in ThreadState
        /\ thread[t].node # NoNode => thread[t].node \in GivenOut
        /\ created \in Count /\ DataOK
    BY AtWork
  <1>2. CASE t \in Thread /\ UpdateConfig(t)
    <2>1. ops' \in 0 .. MaxOps
      BY <1>1, <1>2, StartOK DEF UpdateConfig
    <2>2. DataOK' /\ created' = created
      BY <1>1, <1>2, <2>1 DEF UpdateConfig, DataOK, memory, pool, store, background, GivenOut
    <2>3. ThreadOK(At("saveConfig", activeID, BlankRow, "done"), created)
      <3>1. activeID \in 0 .. created
        BY <1>1 DEF DataOK, GivenOut, NoNode, Count
      <3> QED
        BY <1>1, <3>1, AtOK, BlankRowType DEF PC, Continuation
    <2> QED
      BY <1>2, <2>2, <2>3, Moves DEF UpdateConfig
  <1>3. CASE SaveConfig(t)
    <2>1. DataOK' /\ created' = created
      BY <1>1, <1>3 DEF SaveConfig, DataOK, memory, pool, background, GivenOut
    <2> QED
      BY <1>1, <1>3, <2>1, IdleOK, Moves DEF SaveConfig
  <1>4. CASE SaveConfigFails(t)
    BY <1>1, <1>4, IdleOK, OnlyThread DEF SaveConfigFails
  <1> QED
    BY <1>2, <1>3, <1>4

LEMMA SelectStepTypes ==
    ASSUME TypeOK, NEW t \in Goroutine, NEW n,
           SelectNone(t) \/ SelectAtOnce(t, n) \/ SelectToWarm(t, n)
           \/ AcquireWarmupSlot(t) \/ ActivateChosen(t)
           \/ CurrentNode(t) \/ DecideEnabled(t)
    PROVE  TypeOK'
  <1>1. /\ ThreadOK(thread[t], created) /\ thread[t] \in ThreadState
        /\ thread[t].best # NoNode => thread[t].best \in GivenOut
        /\ thread[t].node # NoNode => thread[t].node \in GivenOut
        /\ thread[t].skip \in SUBSET Node
        /\ created \in Count /\ GivenOut = 1 .. created /\ DataOK
    BY AtWork DEF ThreadState, GivenOut
  <1>2. CASE SelectNone(t)
    <2>1. ThreadOK(Selected(thread[t], NoNode), created)
      BY <1>1, SelectedOK DEF NoNode, Count
    <2> QED
      BY <1>2, <2>1, OnlyThread DEF SelectNone
  <1>3. CASE SelectAtOnce(t, n)
    <2>1. n \in GivenOut
      BY <1>1, <1>3 DEF SelectAtOnce, IsBest, Usable, Serving, DataOK
    <2>2. DataOK' /\ created' = created
      BY <1>1, <1>3, <2>1, SetActiveOK
      DEF SelectAtOnce, DataOK, pool, background, GivenOut
    <2>3. ThreadOK(Selected(thread[t], n), created)
      BY <1>1, <2>1, SelectedOK DEF Count
    <2> QED
      BY <1>3, <2>2, <2>3, Moves DEF SelectAtOnce
  <1>4. CASE SelectToWarm(t, n)
    <2>1. n \in GivenOut
      BY <1>1, <1>4 DEF SelectToWarm, IsBest, Usable, Serving, DataOK
    <2>2. ThreadOK(InSelection(thread[t], "queued", n, thread[t].skip, 0, 0), created)
      BY <1>1, <2>1, InSelectionOK, ConfigAssumption DEF NoNode, Count
    <2> QED
      BY <1>4, <2>2, OnlyThread DEF SelectToWarm
  <1>5. CASE AcquireWarmupSlot(t)
    <2>1. thread[t].best \in GivenOut
      BY <1>1, <1>5 DEF AcquireWarmupSlot, ThreadOK
    <2>2. ThreadOK(InSelection(thread[t], "warm", thread[t].best, thread[t].skip,
                               Attempts, 0), created)
      BY <1>1, <2>1, InSelectionOK, ConfigAssumption DEF NoNode, Count
    <2> QED
      BY <1>5, <2>2, OnlyThread DEF AcquireWarmupSlot
  <1>6. CASE ActivateChosen(t)
    <2>1. thread[t].best \in GivenOut
      BY <1>1, <1>6 DEF ActivateChosen, ThreadOK
    <2>2. DataOK' /\ created' = created
      BY <1>1, <1>6, <2>1, SetActiveOK
      DEF ActivateChosen, DataOK, pool, background, GivenOut
    <2>3. ThreadOK(Selected(thread[t], thread[t].best), created)
      BY <1>1, <2>1, SelectedOK DEF Count
    <2> QED
      BY <1>6, <2>2, <2>3, Moves DEF ActivateChosen
  <1>7. CASE CurrentNode(t)
    <2>1. activeID \in 0 .. created
      BY <1>1 DEF DataOK, NoNode, Count
    <2>2. ThreadOK(Selected(thread[t], activeID), created)
      BY <1>1, <2>1, SelectedOK
    <2>3. ThreadOK(InSelection(thread[t], "select", NoNode, {}, 0, 0), created)
      BY <1>1, InSelectionOK, ConfigAssumption DEF NoNode, Count
    <2> QED
      BY <1>7, <2>2, <2>3, OnlyThread DEF CurrentNode
  <1>8. CASE DecideEnabled(t)
    <2>1. thread[t].node \in GivenOut
      BY <1>1, <1>8 DEF DecideEnabled, ThreadOK
    <2>2. ThreadOK(IdleThread, created)
      BY <1>1, IdleOK
    <2>3. ThreadOK(TakingOver(thread[t].node), created)
      BY <1>1, <2>1, <2>2, InSelectionOK, ConfigAssumption DEF TakingOver, NoNode, Count
    <2> QED
      BY <1>8, <2>2, <2>3, OnlyThread DEF DecideEnabled
  <1> QED
    BY <1>2, <1>3, <1>4, <1>5, <1>6, <1>7, <1>8

LEMMA WarmupTypes ==
    ASSUME TypeOK, NEW t \in Goroutine, NEW ok \in BOOLEAN,
           WarmupCheck(t, ok) \/ WarmupPersist(t) \/ WarmupNodeGone(t) \/ WarmupTimeout(t)
    PROVE  TypeOK'
  <1>1. /\ ThreadOK(thread[t], created) /\ thread[t] \in ThreadState
        /\ thread[t].best \in GivenOut
        /\ thread[t].pc \in {"warm", "warmPersist"}
        /\ created \in Count /\ GivenOut = 1 .. created /\ DataOK
        /\ GivenOut \subseteq Node
        /\ thread[t].row \in Row
    <2>1. thread[t].pc \in {"warm", "warmPersist"}
      BY DEF WarmupCheck, WarmupPersist, WarmupNodeGone, WarmupTimeout
    <2>2. thread[t].best # NoNode
      BY <2>1, AtWork DEF ThreadOK
    <2> QED
      BY <2>1, <2>2, AtWork DEF ThreadState, GivenOut
  <1>2. CASE WarmupCheck(t, ok)
    <2> DEFINE n == thread[t].best
               r == [ToRecord(n) EXCEPT !.failed = ~ok]
    <2>1. n \in nodes /\ CheckVerdict(n, ok, TRUE) /\ UNCHANGED <<pending, lateChecks, ops>>
      BY <1>2 DEF WarmupCheck
    <2>2. DataOK' /\ created' = created
      BY <1>1, <2>1, VerdictOK DEF DataOK
    <2>3. r \in Row
      BY <1>1, ToRecordType
    <2>4. Goto(t, Reporting(thread[t], r))
      BY <1>2 DEF WarmupCheck
    <2> HIDE DEF r
    <2>5. ThreadOK(Reporting(thread[t], r), created)
      BY <1>1, <2>3 DEF Reporting, InSelection, ThreadOK, ThreadState, PC
    <2> QED
      BY <2>2, <2>4, <2>5, Moves
  <1>3. ThreadOK(AfterAttempt(thread[t], Counted(thread[t])), created)
    <2>1. Counted(thread[t]) \in {thread[t].good, thread[t].good + 1}
      BY DEF Counted
    <2> QED
      BY <1>1, <2>1, AfterAttemptOK
  <1>4. CASE WarmupPersist(t)
    <2>1. DataOK' /\ created' = created
      <3>1. CASE Upsert(thread[t].best, thread[t].row)
        BY <1>1, <1>4, <3>1, UpsertOK DEF WarmupPersist, DataOK, memory, pool, background, GivenOut
      <3>2. CASE UNCHANGED store
        BY <1>1, <1>4, <3>2 DEF WarmupPersist, DataOK, memory, pool, store, background,
                                GivenOut
      <3> QED
        BY <1>4, <3>1, <3>2 DEF WarmupPersist
    <2>2. Writing(thread[t]) # NoNode
      BY <1>1, <1>4, AtWork, WritingOK DEF WarmupPersist
    <2> QED
      BY <1>3, <1>4, <2>1, <2>2, Moves DEF WarmupPersist
  <1>5. CASE WarmupNodeGone(t)
    BY <1>3, <1>5, OnlyThread DEF WarmupNodeGone
  <1>6. CASE WarmupTimeout(t)
    <2>1. DataOK' /\ created' = created
      BY <1>1, <1>6 DEF WarmupTimeout, DataOK, memory, pool, store, GivenOut
    <2>2. ThreadOK(AfterAttempt(thread[t], thread[t].good), created)
      BY <1>1, AfterAttemptOK
    <2> QED
      BY <1>6, <2>1, <2>2, Moves DEF WarmupTimeout
  <1> QED
    BY <1>2, <1>4, <1>5, <1>6

LEMMA InitTypes == Init => TypeOK
  <1> SUFFICES ASSUME Init PROVE TypeOK
    OBVIOUS
  <1>1. created \in Count /\ stored \subseteq 1 .. created /\ rows \in [Node -> Row]
    BY ConfigAssumption DEF Init, Count
  <1>2. /\ weight \in [Node -> Weight]
        /\ failed \in [Node -> BOOLEAN]
        /\ disabled \in [Node -> BOOLEAN]
    BY <1>1 DEF Init, Row
  <1>3. /\ nodes \subseteq GivenOut /\ failedSet \subseteq GivenOut
        /\ stored \subseteq GivenOut
        /\ dbActive \in GivenOut \cup {NoNode} /\ activeID \in GivenOut \cup {NoNode}
    <2>1. stored \subseteq GivenOut /\ nodes = stored /\ failedSet \subseteq stored
      BY <1>1 DEF Init, GivenOut
    <2>2. dbActive \in GivenOut \cup {NoNode}
      BY <1>1 DEF Init, GivenOut, NoNode, Count
    <2>3. activeID = dbActive \/ activeID \in stored
      BY DEF Init
    <2> QED
      BY <2>1, <2>2, <2>3
  <1>4. asyncSelects \in 0 .. MaxAsync /\ ops \in 0 .. MaxOps
    BY ConfigAssumption DEF Init
  <1>5. /\ activeStale \in BOOLEAN /\ pending = {} /\ lateChecks = {} /\ stale = {}
        /\ warmup \in WarmupModes
    BY DEF Init
  <1>6. DataOK
    BY <1>1, <1>2, <1>3, <1>4, <1>5 DEF DataOK, Count
  <1>7. ThreadOK(IdleThread, created)
    BY <1>1, IdleOK
  <1>8. thread = [t \in Goroutine |-> IdleThread]
    BY DEF Init
  <1> QED
    BY <1>5, <1>6, <1>7, <1>8 DEF TypeOK, ThreadOK

LEMMA RestartTypes ==
    ASSUME TypeOK, Restart
    PROVE  TypeOK'
  <1>1. RestartWith({n \in stored : rows[n].failed})
    BY DEF Restart
  <1>2. DataOK /\ created \in Count /\ GivenOut \subseteq Node
    BY GivenOutNode DEF TypeOK
  <1>3. /\ nodes' \subseteq GivenOut /\ failedSet' \subseteq GivenOut
        /\ activeID' \in GivenOut \cup {NoNode}
    BY <1>1, <1>2 DEF RestartWith, DataOK
  <1>4. \A n \in Node : LoadRow(n) \in Row
    BY <1>2, BlankRowType DEF LoadRow, DataOK
  <1>5. /\ weight' \in [Node -> Weight]
        /\ failed' \in [Node -> BOOLEAN]
        /\ disabled' \in [Node -> BOOLEAN]
    BY <1>1, <1>4 DEF RestartWith, Row
  <1>6. ops' \in 0 .. MaxOps /\ asyncSelects' \in 0 .. MaxAsync
    BY <1>1, <1>2, ConfigAssumption DEF RestartWith, DataOK
  <1>7. /\ UNCHANGED <<created, stored, rows, dbActive>>
        /\ activeStale' = FALSE /\ pending' = {} /\ lateChecks' = {} /\ stale' = {}
        /\ warmup' \in WarmupModes
        /\ thread' = [t \in Goroutine |-> IdleThread]
    BY <1>1 DEF RestartWith
  <1>8. DataOK'
    BY <1>2, <1>3, <1>5, <1>6, <1>7 DEF DataOK, GivenOut
  <1>9. ThreadOK(IdleThread, created')
    BY <1>2, <1>7, IdleOK
  <1> QED
    BY <1>7, <1>8, <1>9 DEF TypeOK, ThreadOK

(* Types, ids and warm-up counts, in every interleaving and across crashes.*)
THEOREM TypeCorrect == Spec => []TypeOK
  <1>1. TypeOK /\ [Next]_vars => TypeOK'
    <2> SUFFICES ASSUME TypeOK, [Next]_vars PROVE TypeOK'
      OBVIOUS
    <2>1. ASSUME NEW t \in Thread, Handle(t) PROVE TypeOK'
      <3>1. 1 \in Weight
        BY ConfigAssumption DEF Weight
      <3>2. ASSUME NEW n \in Node,
                   DeleteNode(t, n) \/ Activate(t, n) \/ DisableNode(t, n) \/ EnableNode(t, n)
            PROVE  TypeOK'
        BY <3>1, <3>2, AdminTypes
      <3>3. ASSUME NEW n \in Node, NEW w \in Weight, UpdateNode(t, n, w) PROVE TypeOK'
        BY <3>3, AdminTypes
      <3>4. ASSUME Request(t) \/ UpdateConfig(t) PROVE TypeOK'
        BY <3>4, TrafficTypes, ConfigTypes DEF Goroutine
      <3>5. ASSUME NEW n \in Node, HandleFailure(t, n) PROVE TypeOK'
        BY <3>5, TrafficTypes
      <3>6. ASSUME NEW n \in Node, NEW ok \in BOOLEAN,
                   RecordMetrics(t, n, ok) \/ CheckNode(t, n, ok)
            PROVE  TypeOK'
        BY <3>6, TrafficTypes
      <3> QED
        BY <2>1, <3>2, <3>3, <3>4, <3>5, <3>6, AddTypes DEF Handle
    <2>2. ASSUME NEW t \in Thread, Background(t) PROVE TypeOK'
      <3>1. ASSUME StartAsync(t) PROVE TypeOK'
        BY <3>1, BackgroundTypes
      <3> QED
        BY <2>2, <3>1, BackgroundTypes DEF Background
    <2>3. ASSUME NEW t \in Goroutine, Step(t) PROVE TypeOK'
      <3>1. ASSUME SelectNone(t) \/ AcquireWarmupSlot(t) \/ ActivateChosen(t)
                   \/ CurrentNode(t) \/ DecideEnabled(t)
            PROVE  TypeOK'
        BY <3>1, SelectStepTypes
      <3>2. ASSUME NEW n \in Node, SelectAtOnce(t, n) \/ SelectToWarm(t, n) PROVE TypeOK'
        BY <3>2, SelectStepTypes
      <3>3. ASSUME WarmupPersist(t) \/ WarmupNodeGone(t) \/ WarmupTimeout(t) PROVE TypeOK'
        BY <3>3, WarmupTypes
      <3>4. ASSUME NEW ok \in BOOLEAN, WarmupCheck(t, ok) PROVE TypeOK'
        BY <3>4, WarmupTypes
      <3> QED
        BY <2>3, <3>1, <3>2, <3>3, <3>4, StoreStepTypes, ConfigTypes DEF Step
    <2>4. ASSUME UNCHANGED vars PROVE TypeOK'
      BY <2>4 DEF TypeOK, DataOK, ThreadOK, vars, memory, pool, store, work, background,
                  GivenOut
    <2> QED
      BY <2>1, <2>2, <2>3, <2>4, LoopTypes, RestartTypes DEF Next
  <1> QED
    BY <1>1, InitTypes, PTL DEF Spec

------------------------------------------------------------------------------
(* FailedSet and the failed flags.                                         *)

LEMMA MarkKeepsExact ==
    ASSUME TypeOK, FailedSetExact, NEW n \in nodes,
           MarkFailed(n) \/ ClearFailed(n), nodes' = nodes
    PROVE  FailedSetExact'
  <1>1. n \in Node /\ nodes \subseteq Node
    BY GivenOutNode DEF TypeOK, DataOK
  <1>2. CASE MarkFailed(n)
    BY <1>1, <1>2 DEF MarkFailed, FailedSetExact, TypeOK, DataOK
  <1>3. CASE ClearFailed(n)
    BY <1>1, <1>3 DEF ClearFailed, FailedSetExact, TypeOK, DataOK
  <1> QED
    BY <1>2, <1>3

LEMMA VerdictKeepsExact ==
    ASSUME TypeOK, FailedSetExact, NEW n \in nodes, NEW ok \in BOOLEAN,
           NEW isWarmup \in BOOLEAN, CheckVerdict(n, ok, isWarmup)
    PROVE  FailedSetExact'
  BY MarkKeepsExact DEF CheckVerdict

(* FailedSet is exactly the set of failed nodes, for any number of nodes,  *)
(* goroutines and operations, through deletions, crashes and restarts.     *)
THEOREM FailedSetExactHolds == Spec => []FailedSetExact
  <1>1. Init => FailedSetExact
    <2> SUFFICES ASSUME Init PROVE FailedSetExact
      OBVIOUS
    <2>1. stored \subseteq Node
      BY InitTypes, GivenOutNode DEF TypeOK, DataOK
    <2> QED
      BY <2>1 DEF Init, FailedSetExact
  <1>2. TypeOK /\ FailedSetExact /\ [Next]_vars => FailedSetExact'
    <2> SUFFICES ASSUME TypeOK, FailedSetExact, [Next]_vars PROVE FailedSetExact'
      OBVIOUS
    <2>0. ASSUME UNCHANGED <<nodes, failed, failedSet>> PROVE FailedSetExact'
      BY <2>0 DEF FailedSetExact
    <2>1. ASSUME NEW t \in Thread, Handle(t) PROVE FailedSetExact'
      <3>1. ASSUME NEW w \in Weight, AddNode(t, w) PROVE FailedSetExact'
        <4>1. created' = created + 1 /\ created' \in Node /\ created' \notin nodes
              /\ nodes \subseteq Node
          BY <3>1, ConfigAssumption DEF AddNode, TypeOK, DataOK, GivenOut, Node
        <4>2. /\ nodes' = nodes \cup {created'}
              /\ failed' = [failed EXCEPT ![created'] = FALSE]
              /\ failedSet' = failedSet
          BY <3>1 DEF AddNode
        <4> QED
          BY <4>1, <4>2 DEF FailedSetExact, TypeOK, DataOK
      <3>2. ASSUME NEW n \in Node, DeleteNode(t, n) PROVE FailedSetExact'
        BY <3>2 DEF DeleteNode, FailedSetExact
      <3>3. ASSUME NEW n \in Node, EnableNode(t, n) PROVE FailedSetExact'
        BY <3>3, MarkKeepsExact DEF EnableNode
      <3>4. ASSUME NEW n \in Node, HandleFailure(t, n) PROVE FailedSetExact'
        BY <3>4, MarkKeepsExact DEF HandleFailure
      <3>5. ASSUME NEW n \in Node, NEW ok \in BOOLEAN, RecordMetrics(t, n, ok)
            PROVE  FailedSetExact'
        BY <3>5, <2>0, MarkKeepsExact DEF RecordMetrics
      <3>6. ASSUME NEW n \in Node, NEW ok \in BOOLEAN, CheckNode(t, n, ok)
            PROVE  FailedSetExact'
        BY <3>6, VerdictKeepsExact DEF CheckNode
      <3>7. ASSUME NEW n \in Node, NEW w \in Weight,
                   UpdateNode(t, n, w)
            PROVE  FailedSetExact'
        BY <3>7, <2>0 DEF UpdateNode
      <3>8. ASSUME NEW n \in Node, Activate(t, n) \/ DisableNode(t, n)
            PROVE  FailedSetExact'
        BY <3>8, <2>0 DEF Activate, DisableNode, pool
      <3>9. ASSUME Request(t) \/ UpdateConfig(t) PROVE FailedSetExact'
        BY <3>9, <2>0 DEF Request, UpdateConfig, memory, pool
      <3> QED
        BY <2>1, <3>1, <3>2, <3>3, <3>4, <3>5, <3>6, <3>7, <3>8, <3>9 DEF Handle
    <2>2. ASSUME NEW t \in Thread, Background(t) PROVE FailedSetExact'
      <3>1. ASSUME StartAsync(t) PROVE FailedSetExact'
        BY <2>0, <3>1 DEF StartAsync, memory, pool
      <3>2. ASSUME NEW n \in Node, NEW ok \in BOOLEAN, LateCheck(t, n, ok)
            PROVE  FailedSetExact'
        BY <2>0, <3>2, VerdictKeepsExact DEF LateCheck, memory, pool
      <3> QED
        BY <2>2, <3>1, <3>2 DEF Background
    <2>3. ASSUME NEW t \in Goroutine, Step(t) PROVE FailedSetExact'
      <3>1. ASSUME NEW ok \in BOOLEAN, WarmupCheck(t, ok) PROVE FailedSetExact'
        BY <3>1, VerdictKeepsExact DEF WarmupCheck
      <3>2. ASSUME TakeSnapshot(t) \/ Persist(t) \/ PersistFails(t) \/ DeleteRow(t)
                   \/ DeleteRowFails(t) \/ SaveConfig(t) \/ SaveConfigFails(t)
                   \/ SelectNone(t) \/ AcquireWarmupSlot(t)
                   \/ WarmupPersist(t) \/ WarmupNodeGone(t) \/ WarmupTimeout(t)
                   \/ ActivateChosen(t) \/ CurrentNode(t) \/ DecideEnabled(t)
            PROVE  FailedSetExact'
        BY <2>0, <3>2 DEF TakeSnapshot, Persist, PersistFails, DeleteRow, DeleteRowFails,
             SaveConfig, SaveConfigFails, SelectNone, AcquireWarmupSlot, WarmupPersist, WarmupNodeGone, WarmupTimeout,
             ActivateChosen, CurrentNode, DecideEnabled, memory, pool
      <3>3. ASSUME NEW n \in Node, SelectAtOnce(t, n) \/ SelectToWarm(t, n)
            PROVE  FailedSetExact'
        BY <2>0, <3>3 DEF SelectAtOnce, SelectToWarm, memory, pool
      <3> QED
        BY <2>3, <3>1, <3>2, <3>3 DEF Step
    <2>4. ASSUME Loop PROVE FailedSetExact'
      <3>1. ASSUME LoopStart PROVE FailedSetExact'
        BY <2>0, <3>1 DEF LoopStart, memory, pool
      <3>2. ASSUME NEW n \in Node, NEW ok \in BOOLEAN, LoopCheck(n, ok)
            PROVE  FailedSetExact'
        BY <2>0, <3>2, VerdictKeepsExact DEF LoopCheck, memory, pool
      <3> QED
        BY <2>4, <3>1, <3>2 DEF Loop
    <2>5. ASSUME Restart PROVE FailedSetExact'
      <3>1. stored \subseteq Node
        BY GivenOutNode DEF TypeOK, DataOK
      <3>2. /\ nodes' = stored
            /\ failed' = [n \in Node |-> LoadRow(n).failed]
            /\ failedSet' = {n \in stored : rows[n].failed}
        BY <2>5 DEF Restart, RestartWith
      <3> QED
        BY <3>1, <3>2 DEF FailedSetExact, LoadRow
    <2>6. ASSUME UNCHANGED vars PROVE FailedSetExact'
      BY <2>0, <2>6 DEF vars, memory, pool
    <2> QED
      BY <2>1, <2>2, <2>3, <2>4, <2>5, <2>6 DEF Next
  <1> QED
    BY <1>1, <1>2, TypeCorrect, PTL DEF Spec


(* The active node and the one a restart would come back to.  While the    *)
(* last write of it is good, so is every configuration that is about to be *)
(* saved: a switch meanwhile makes both doubtful.                          *)
SavesActive ==
    /\ ActivePersisted
    /\ ~activeStale => \A t \in Saving : thread[t].node = activeID

(* The states of goroutines that do not save the configuration.            *)
LEMMA SavesNot ==
    ASSUME NEW n, NEW r, NEW then, NEW s, NEW good
    PROVE  \A q \in {Persisting(n, r, then), Snapshotting(n, then), Selecting, IdleThread,
                     At("deleteRow", n, r, then), At("persistStrict", n, r, then),
                     Checked(n, r, then), Continue(s), Selected(s, n), Deciding(n, s),
                     TakingOver(n), AfterAttempt(s, good), Reporting(s, r),
                     InSelection(s, "select", n, r, 0, 0),
                     InSelection(s, "queued", n, r, 0, 0),
                     InSelection(s, "warm", n, r, Attempts, 0)} :
               q.pc # "saveConfig"
  BY DEF Persisting, Snapshotting, Selecting, IdleThread, At, Checked, Continue, Selected,
         Deciding, TakingOver, AfterAttempt, AttemptAgain, WarmupOver, SkipBest, InSelection,
         Reporting

NoNewSave == \A u \in Goroutine : thread'[u].pc = "saveConfig" => thread'[u] = thread[u]

LEMMA Turns ==
    ASSUME TypeOK, NEW t \in Goroutine, NEW s, s.pc # "saveConfig",
           Goto(t, s) \/ GotoUnwritten(t, s)
    PROVE  NoNewSave
  BY DEF TypeOK, Goto, GotoUnwritten, NoNewSave

(* updateConfigForAccount is the only handler that goes on to save.        *)
LEMMA OneSaver ==
    ASSUME TypeOK, [Next]_vars, ~NoNewSave
    PROVE  \E t \in Thread : UpdateConfig(t)
  <1>1. ASSUME NEW t \in Thread, Handle(t), ~UpdateConfig(t) PROVE NoNewSave
    <2>1. CASE \E n \in Node : Activate(t, n)
      BY <2>1 DEF Activate, work, NoNewSave
    <2>2. CASE \E w \in Weight : AddNode(t, w)
      BY <2>2, SavesNot, Turns DEF AddNode, Goroutine
    <2>3. CASE \E n \in Node, w \in Weight : UpdateNode(t, n, w)
      BY <2>3, SavesNot, Turns DEF UpdateNode, Goroutine
    <2>4. CASE \E n \in Node : DeleteNode(t, n) \/ DisableNode(t, n) \/ EnableNode(t, n)
      BY <2>4, SavesNot, Turns DEF DeleteNode, DisableNode, EnableNode, Goroutine
    <2>5. CASE Request(t)
      BY <2>5, SavesNot, Turns DEF Request, Goroutine
    <2>6. CASE \E n \in Node : HandleFailure(t, n)
      BY <2>6, SavesNot, Turns DEF HandleFailure, Goroutine
    <2>7. CASE \E n \in Node, b \in BOOLEAN : RecordMetrics(t, n, b)
      BY <2>7, SavesNot, Turns DEF RecordMetrics, Goroutine
    <2>8. CASE \E n \in Node, b \in BOOLEAN : CheckNode(t, n, b)
      BY <2>8, SavesNot, Turns DEF CheckNode, Goroutine
    <2> QED
      BY <1>1, <2>1, <2>2, <2>3, <2>4, <2>5, <2>6, <2>7, <2>8 DEF Handle
  <1>2. ASSUME NEW t \in Thread, Background(t) PROVE NoNewSave
    <2>1. CASE StartAsync(t)
      BY <2>1, SavesNot, Turns DEF StartAsync, Goroutine
    <2>2. ASSUME NEW n \in Node, NEW ok \in BOOLEAN, LateCheck(t, n, ok) PROVE NoNewSave
      <3>1. Goto(t, Checked(n, ok, "done")) \/ UNCHANGED work
        BY <2>2 DEF LateCheck
      <3> QED
        BY <3>1, SavesNot, Turns DEF work, NoNewSave, Goroutine
    <2> QED
      BY <1>2, <2>1, <2>2 DEF Background
  <1>3. ASSUME NEW t \in Goroutine, Step(t) PROVE NoNewSave
    <2>1. ASSUME NEW s, s.pc # "saveConfig", Goto(t, s) \/ GotoUnwritten(t, s)
          PROVE  NoNewSave
      BY <2>1, Turns
    <2>2. CASE TakeSnapshot(t)
      BY <2>1, <2>2, SavesNot DEF TakeSnapshot
    <2>3. CASE Persist(t) \/ PersistFails(t)
      BY <2>1, <2>3, SavesNot DEF Persist, PersistFails
    <2>4. CASE DeleteRow(t) \/ DeleteRowFails(t) \/ SaveConfig(t) \/ SaveConfigFails(t)
      BY <2>1, <2>4, SavesNot DEF DeleteRow, DeleteRowFails, SaveConfig, SaveConfigFails
    <2>5. CASE SelectNone(t) \/ AcquireWarmupSlot(t)
      BY <2>1, <2>5, SavesNot DEF SelectNone, AcquireWarmupSlot
    <2>6. CASE ActivateChosen(t) \/ CurrentNode(t) \/ DecideEnabled(t)
      BY <2>1, <2>6, SavesNot DEF ActivateChosen, CurrentNode, DecideEnabled
    <2>7. CASE \E n \in Node : SelectAtOnce(t, n) \/ SelectToWarm(t, n)
      BY <2>1, <2>7, SavesNot DEF SelectAtOnce, SelectToWarm
    <2>8. CASE WarmupPersist(t) \/ WarmupNodeGone(t) \/ WarmupTimeout(t)
               \/ \E ok \in BOOLEAN : WarmupCheck(t, ok)
      BY <2>8, SavesNot, Turns DEF WarmupPersist, WarmupNodeGone, WarmupTimeout, WarmupCheck
    <2> QED
      BY <1>3, <2>2, <2>3, <2>4, <2>5, <2>6, <2>7, <2>8 DEF Step
  <1>4. ASSUME Loop PROVE NoNewSave
    <2>1. CASE LoopStart
      BY <2>1 DEF LoopStart, work, NoNewSave
    <2>2. ASSUME NEW n \in Node, NEW ok \in BOOLEAN, LoopCheck(n, ok) PROVE NoNewSave
      <3>1. (\E then : Goto(HealthLoop, Checked(n, ok, then))) \/ UNCHANGED work
        BY <2>2 DEF LoopCheck
      <3> QED
        BY <3>1, SavesNot, Turns DEF work, NoNewSave, Goroutine
    <2> QED
      BY <1>4, <2>1, <2>2 DEF Loop
  <1>5. ASSUME Restart PROVE NoNewSave
    BY <1>5 DEF Restart, RestartWith, NoNewSave, IdleThread, At
  <1>6. ASSUME UNCHANGED vars PROVE NoNewSave
    BY <1>6 DEF vars, work, NoNewSave
  <1> QED
    BY <1>1, <1>2, <1>3, <1>4, <1>5, <1>6 DEF Next

(* A switch while no configuration is being saved is good, and clears the  *)
(* doubts of earlier ones.                                                 *)
LEMMA SetActiveKeeps ==
    ASSUME SavesActive, NoNewSave, NEW n, SetActive(n)
    PROVE  SavesActive'
  <1>1. ASSUME ~activeStale' PROVE /\ activeID' = n /\ dbActive' = n
                                   /\ \A t \in Saving' : thread'[t].node = n
    <2>1. /\ activeID' = n /\ dbActive' = n
          /\ ~Switched(n) /\ ~(activeStale /\ Saving # {})
      BY <1>1 DEF SetActive
    <2>2. Saving' \subseteq Saving /\ \A t \in Saving' : thread'[t] = thread[t]
      BY DEF Saving, NoNewSave
    <2> QED
      BY <2>1, <2>2 DEF SavesActive, Switched
  <1> QED
    BY <1>1 DEF SavesActive, ActivePersisted

LEMMA ActiveUntouched ==
    ASSUME SavesActive, NoNewSave, UNCHANGED <<activeID, dbActive, activeStale>>
    PROVE  SavesActive'
  <1>1. Saving' \subseteq Saving /\ \A t \in Saving' : thread'[t] = thread[t]
    BY DEF Saving, NoNewSave
  <1> QED
    BY <1>1 DEF SavesActive, ActivePersisted

LEMMA SavesActiveStep ==
    ASSUME TypeOK, SavesActive, [Next]_vars
    PROVE  SavesActive'
  <1>1. ASSUME NEW t \in Thread, UpdateConfig(t) PROVE SavesActive'
    <2>1. /\ thread' = [thread EXCEPT ![t] = At("saveConfig", activeID, BlankRow, "done")]
          /\ UNCHANGED <<activeID, dbActive, activeStale>>
      BY <1>1 DEF UpdateConfig, Goto, memory, store
    <2>2. \A u \in Goroutine : thread'[u] = thread[u] \/ thread'[u].node = activeID
      BY <2>1 DEF TypeOK, At
    <2> QED
      BY <2>1, <2>2 DEF SavesActive, ActivePersisted, Saving
  <1> SUFFICES ASSUME NoNewSave PROVE SavesActive'
    BY <1>1, OneSaver
  <1>2. ASSUME NEW t \in Thread, Handle(t) PROVE SavesActive'
    <2>1. CASE \E n \in Node : Activate(t, n)
      BY <2>1, SetActiveKeeps DEF Activate
    <2>2. CASE \E n \in Node : DeleteNode(t, n)
      <3>1. /\ dbActive' = dbActive /\ activeID' \in {activeID, NoNode}
            /\ activeStale' = (activeStale \/ Switched(activeID'))
        BY <2>2 DEF DeleteNode
      <3>2. Saving' \subseteq Saving /\ \A u \in Saving' : thread'[u] = thread[u]
        BY DEF Saving, NoNewSave
      <3> QED
        BY <3>1, <3>2 DEF SavesActive, ActivePersisted, Switched
    <2>3. CASE UNCHANGED <<activeID, dbActive, activeStale>>
      BY <2>3, ActiveUntouched
    <2> QED
      BY <1>2, <2>1, <2>2, <2>3
      DEF Handle, AddNode, UpdateNode, DisableNode, EnableNode, UpdateConfig, Request,
          HandleFailure, RecordMetrics, CheckNode, CheckVerdict, memory, store
  <1>3. ASSUME NEW t \in Thread, Background(t) PROVE SavesActive'
    BY <1>3, ActiveUntouched DEF Background, StartAsync, LateCheck, CheckVerdict, memory, store
  <1>4. ASSUME NEW t \in Goroutine, Step(t) PROVE SavesActive'
    <2>1. ASSUME NEW n \in Node, SelectAtOnce(t, n) PROVE SavesActive'
      BY <2>1, SetActiveKeeps DEF SelectAtOnce
    <2>2. ASSUME ActivateChosen(t) PROVE SavesActive'
      BY <2>2, SetActiveKeeps DEF ActivateChosen
    <2>3. ASSUME SaveConfig(t) PROVE SavesActive'
      <3>1. /\ t \in Saving /\ dbActive' = thread[t].node
            /\ UNCHANGED <<activeID, activeStale>>
        BY <2>3 DEF SaveConfig, Saving, memory
      <3>2. Saving' \subseteq Saving /\ \A u \in Saving' : thread'[u] = thread[u]
        BY DEF Saving, NoNewSave
      <3> QED
        BY <3>1, <3>2 DEF SavesActive, ActivePersisted
    <2>4. CASE UNCHANGED <<activeID, dbActive, activeStale>>
      BY <2>4, ActiveUntouched
    <2> QED
      BY <1>4, <2>1, <2>2, <2>3, <2>4
      DEF Step, TakeSnapshot, Persist, PersistFails, DeleteRow, DeleteRowFails,
          SaveConfigFails, SelectNone, SelectToWarm, AcquireWarmupSlot, WarmupCheck,
          WarmupPersist, WarmupNodeGone, WarmupTimeout, CurrentNode, DecideEnabled,
          CheckVerdict, Upsert, memory, store
  <1>5. ASSUME Loop PROVE SavesActive'
    BY <1>5, ActiveUntouched DEF Loop, LoopStart, LoopCheck, CheckVerdict, memory, store
  <1>6. ASSUME Restart PROVE SavesActive'
    <2>1. Saving' = {} /\ (activeID' = dbActive \/ dbActive = NoNode) /\ dbActive' = dbActive
      BY <1>6 DEF Restart, RestartWith, Saving, IdleThread, At
    <2> QED
      BY <2>1 DEF SavesActive, ActivePersisted
  <1>7. ASSUME UNCHANGED vars PROVE SavesActive'
    BY <1>7, ActiveUntouched DEF vars, memory, store
  <1> QED
    BY <1>2, <1>3, <1>4, <1>5, <1>6, <1>7 DEF Next

(* A restart comes back to the active node, for any number of nodes and    *)
(* goroutines: what may bring back another one is a write that failed or a *)
(* configuration saved with a node that was active before.                 *)
THEOREM ActivePersistedHolds == Spec => []ActivePersisted
  <1>1. Init => SavesActive
    BY DEF Init, SavesActive, ActivePersisted, Saving, IdleThread, At
  <1>2. TypeOK /\ SavesActive /\ [Next]_vars => SavesActive'
    BY SavesActiveStep
  <1>3. SavesActive => ActivePersisted
    BY DEF SavesActive
  <1> QED
    BY <1>1, <1>2, <1>3, TypeCorrect, PTL DEF Spec

------------------------------------------------------------------------------
(* The table.  Who writes a node alone writes what the memory says; two    *)
(* who write the same node leave it doubtful until one writes it alone.    *)

WritingPC == {"snapshot", "persist", "persistStrict", "deleteRow", "warmPersist"}

(* What is about to be written is what the memory says.                    *)
Writes(s) ==
    /\ s.pc \in {"snapshot", "persist", "persistStrict"} => s.node \in nodes
    /\ s.pc \in {"persist", "persistStrict"} => s.row = ToRecord(s.node)
    /\ s.pc = "warmPersist" => s.best \in nodes /\ s.row = ToRecord(s.best)
    /\ s.pc = "deleteRow" => s.node \notin nodes

WritersAgree ==
    \A t \in Goroutine : Writing(thread[t]) \in stale \/ Writes(thread[t])

WritersApart ==
    \A t, u \in Goroutine :
        t # u /\ Writing(thread[t]) # NoNode /\ Writing(thread[t]) = Writing(thread[u])
            => Writing(thread[t]) \in stale

Synced == WritersAgree /\ WritersApart /\ StoreMatchesMemory

(* ToRecord, SameAsStored and Writes after a step, of a node or a state    *)
(* given before it.                                                        *)
NewRecord(n) == [failed |-> failed'[n], disabled |-> disabled'[n], weight |-> weight'[n]]
NowSame(n) ==
    /\ n \in stored' <=> n \in nodes'
    /\ n \in nodes' => rows'[n] = NewRecord(n)
WritesNext(s) ==
    /\ s.pc \in {"snapshot", "persist", "persistStrict"} => s.node \in nodes'
    /\ s.pc \in {"persist", "persistStrict"} => s.row = NewRecord(s.node)
    /\ s.pc = "warmPersist" => s.best \in nodes' /\ s.row = NewRecord(s.best)
    /\ s.pc = "deleteRow" => s.node \notin nodes'

LEMMA WritesNothing == \A s : s.pc \notin WritingPC
                                 => Writing(s) = NoNode /\ Writes(s) /\ WritesNext(s)
  BY DEF Writing, Writes, WritesNext, WritingPC

SameInMemory(n) == (n \in nodes' <=> n \in nodes) /\ NewRecord(n) = ToRecord(n)
SameInTable(n) == (n \in stored' <=> n \in stored) /\ rows'[n] = rows[n]

(* What a goroutine is about to write does not depend on other nodes.      *)
LEMMA StillWrites ==
    ASSUME NEW s, Writes(s), SameInMemory(Writing(s))
    PROVE  WritesNext(s)
  BY DEF Writes, WritesNext, Writing, SameInMemory

(* A goroutine's turn.  It changes no node but the one it begins to write, *)
(* writes no row but that of the node it was to write, and leaves that one *)
(* as the memory is, unless it failed or was not the only writer.          *)
LEMMA Turn ==
    ASSUME TypeOK, TypeOK', Synced, NEW t \in Goroutine, NEW s,
           Goto(t, s) \/ (GotoUnwritten(t, s) /\ Writing(s) = NoNode),
           WritesNext(s) \/ (Writing(s) = Writing(thread[t]) /\ Writing(s) \in stale),
           \A n \in Node \ {Writing(s)} : SameInMemory(n),
           \A n \in Node \ {Writing(thread[t])} : SameInTable(n),
           Writing(thread[t]) \in {NoNode, Writing(s)}
              \/ Writing(thread[t]) \in stale \/ GotoUnwritten(t, s)
              \/ NowSame(Writing(thread[t]))
    PROVE  Synced'
  <1> DEFINE w == Writing(s)
             W(u) == Writing(thread[u])
  <1>1. /\ thread'[t] = s /\ \A u \in Goroutine \ {t} : thread'[u] = thread[u]
    BY DEF TypeOK, Goto, GotoUnwritten
  <1>2. /\ NoNode \notin stale /\ NoNode \notin stale'
        /\ \A u \in Goroutine : W(u) # NoNode => W(u) \in Node
    <2>1. NoNode \notin stale /\ NoNode \notin stale'
      BY ConfigAssumption DEF TypeOK, DataOK, GivenOut, NoNode
    <2> QED
      BY <2>1, AtWork, WritingOK, ConfigAssumption DEF NoNode, Count, Node
  <1>3. \A m : m # w /\ m \in stale => m \in stale'
    BY DEF Goto, GotoUnwritten
  <1>4. ASSUME NEW u \in Goroutine \ {t}, W(u) = w, w # NoNode PROVE w \in stale'
    <2>1. Goto(t, s)
      BY <1>4
    <2>2. CASE W(t) = w
      BY <1>4, <2>1, <2>2 DEF Goto, Synced, WritersApart
    <2>3. CASE W(t) # w
      BY <1>4, <2>1, <2>3 DEF Goto
    <2> QED
      BY <2>2, <2>3
  <1>5. W(t) = w /\ w \in stale => w \in stale'
    BY <1>2 DEF Goto, GotoUnwritten
  <1>6. ASSUME NEW u \in Goroutine
        PROVE  Writing(thread'[u]) \in stale' \/ WritesNext(thread'[u])
    <2>1. CASE u = t
      BY <1>1, <1>5, <2>1
    <2>2. CASE u # t /\ W(u) = NoNode
      <3>1. WritesNext(thread[u])
        BY <2>2, AtWork, WritingOK, WritesNothing DEF WritingPC
      <3> QED
        BY <1>1, <2>2, <3>1
    <2>3. CASE u # t /\ W(u) # NoNode /\ W(u) = w
      BY <1>1, <1>4, <2>3
    <2>4. CASE u # t /\ W(u) # NoNode /\ W(u) # w
      <3>1. SameInMemory(W(u))
        BY <1>2, <2>4
      <3>2. W(u) \in stale' \/ WritesNext(thread[u])
        BY <1>3, <2>4, <3>1, StillWrites DEF Synced, WritersAgree
      <3> QED
        BY <1>1, <2>4, <3>2
    <2> QED
      BY <2>1, <2>2, <2>3, <2>4
  <1>7. ASSUME NEW u \in Goroutine, NEW v \in Goroutine, u # v,
               Writing(thread'[u]) # NoNode, Writing(thread'[u]) = Writing(thread'[v])
        PROVE  Writing(thread'[u]) \in stale'
    <2>1. CASE u # t /\ v # t
      BY <1>1, <1>3, <1>4, <1>7, <2>1 DEF Synced, WritersApart
    <2>2. CASE u = t \/ v = t
      BY <1>1, <1>4, <1>7, <2>2
    <2> QED
      BY <2>1, <2>2
  <1>8. ASSUME NEW n \in Node
        PROVE  n \in stale' \/ NowSame(n) \/ \E u \in Goroutine : Writing(thread'[u]) = n
    <2>1. CASE n = w
      BY <1>1, <2>1
    <2>2. CASE n # w /\ n = W(t)
      <3>1. n # NoNode
        BY DEF Node, NoNode
      <3> QED
        BY <1>3, <2>2, <3>1 DEF GotoUnwritten
    <2>3. CASE n # w /\ n # W(t)
      <3>1. SameInMemory(n) /\ SameInTable(n)
        BY <2>3
      <3>2. n \in stale \/ SameAsStored(n) \/ \E u \in Goroutine \ {t} : W(u) = n
        BY <2>3 DEF Synced, StoreMatchesMemory
      <3>3. SameAsStored(n) => NowSame(n)
        BY <3>1 DEF SameInMemory, SameInTable, SameAsStored, NowSame
      <3> QED
        BY <1>1, <1>3, <2>3, <3>2, <3>3
    <2> QED
      BY <2>1, <2>2, <2>3
  <1> HIDE DEF w, W
  <1>9. WritersAgree'
    BY <1>6 DEF WritersAgree, Writes, WritesNext, NewRecord, ToRecord
  <1>10. WritersApart'
    BY <1>7 DEF WritersApart
  <1>11. StoreMatchesMemory'
    BY <1>8 DEF StoreMatchesMemory, SameAsStored, NowSame, NewRecord, ToRecord
  <1> QED
    BY <1>9, <1>10, <1>11 DEF Synced

(* A turn that touches neither the nodes nor the table.                    *)
LEMMA CalmTurn ==
    ASSUME TypeOK, TypeOK', Synced, NEW t \in Goroutine, NEW s, Goto(t, s),
           UNCHANGED <<nodes, weight, failed, disabled, stored, rows>>,
           thread[t].pc \notin WritingPC, s.pc \notin WritingPC
    PROVE  Synced'
  <1>1. /\ \A n \in Node : SameInMemory(n) /\ SameInTable(n)
        /\ WritesNext(s) /\ Writing(thread[t]) = NoNode
    BY WritesNothing DEF SameInMemory, SameInTable, NewRecord, ToRecord
  <1> QED
    BY <1>1, Turn

LEMMA NothingHappens ==
    ASSUME Synced, UNCHANGED <<nodes, weight, failed, disabled, stored, rows, work>>
    PROVE  Synced'
  <1>1. thread' = thread /\ stale' = stale
    BY DEF work
  <1> QED
    BY <1>1 DEF Synced, WritersAgree, WritersApart, StoreMatchesMemory, Writes,
                SameAsStored, ToRecord

(* A turn that changes one node, whose row it has to write from now on.    *)
LEMMA OneNodeTurn ==
    ASSUME TypeOK, TypeOK', Synced, NEW t \in Goroutine, NEW s, Goto(t, s),
           UNCHANGED <<stored, rows>>, thread[t].pc \notin WritingPC,
           \A m \in Node \ {Writing(s)} : SameInMemory(m), WritesNext(s)
    PROVE  Synced'
  <1>1. /\ \A n \in Node : SameInTable(n)
        /\ Writing(thread[t]) = NoNode
    BY WritesNothing DEF SameInTable
  <1> QED
    BY <1>1, Turn

(* Changing one node leaves the others' records alone.                     *)
LEMMA RecordsKept ==
    ASSUME NEW n \in Node, nodes' = nodes,
           \A m \in Node \ {n} : /\ failed'[m] = failed[m] /\ disabled'[m] = disabled[m]
                                 /\ weight'[m] = weight[m]
    PROVE  \A m \in Node \ {n} : SameInMemory(m)
  BY DEF SameInMemory, NewRecord, ToRecord

(* A handler that changes a node and takes its snapshot later.             *)
LEMMA SnapshotTurn ==
    ASSUME TypeOK, TypeOK', Synced, NEW t \in Goroutine, NEW n \in Node, NEW then,
           Goto(t, Snapshotting(n, then)),
           UNCHANGED <<stored, rows>>, thread[t].pc = "idle",
           nodes' = nodes, n \in nodes,
           \A m \in Node \ {n} : /\ failed'[m] = failed[m] /\ disabled'[m] = disabled[m]
                                 /\ weight'[m] = weight[m]
    PROVE  Synced'
  <1> DEFINE s == Snapshotting(n, then)
  <1>1. Writing(s) = n /\ WritesNext(s) /\ Goto(t, s)
    BY DEF Writing, WritesNext, Snapshotting, At
  <1>2. thread[t].pc \notin WritingPC
    BY DEF WritingPC
  <1>3. \A m \in Node \ {n} : SameInMemory(m)
    BY RecordsKept
  <1> HIDE DEF s
  <1> QED
    BY <1>1, <1>2, <1>3, OneNodeTurn

LEMMA Unchanged ==
    ASSUME TypeOK, NEW n \in Node
    PROVE  /\ failed = [failed EXCEPT ![n] = failed[n]]
           /\ disabled = [disabled EXCEPT ![n] = disabled[n]]
           /\ weight = [weight EXCEPT ![n] = weight[n]]
           /\ failed[n] \in BOOLEAN /\ disabled[n] \in BOOLEAN /\ weight[n] \in Weight
           /\ \A b : [ToRecord(n) EXCEPT !.failed = b]
                        = [failed |-> b, disabled |-> disabled[n], weight |-> weight[n]]
  BY DEF TypeOK, DataOK, ToRecord

(* A check's verdict, or that of a request, and the snapshot it took.      *)
LEMMA VerdictTurn ==
    ASSUME TypeOK, TypeOK', Synced, NEW t \in Goroutine, NEW s, Goto(t, s),
           thread[t].pc \notin WritingPC, NEW n \in nodes, NEW f \in BOOLEAN,
           failed' = [failed EXCEPT ![n] = f],
           UNCHANGED <<nodes, weight, disabled, stored, rows>>,
           (s.pc = "persist" /\ s.node = n) \/ (s.pc = "warmPersist" /\ s.best = n),
           s.row = [ToRecord(n) EXCEPT !.failed = f]
    PROVE  Synced'
  <1>1. n \in Node /\ n \in nodes'
    BY GivenOutNode DEF TypeOK, DataOK
  <1>2. failed'[n] = f /\ \A m \in Node \ {n} : failed'[m] = failed[m]
    BY <1>1 DEF TypeOK, DataOK
  <1>3. \A m \in Node \ {n} : SameInMemory(m)
    BY <1>1, <1>2, RecordsKept
  <1>4. s.row = NewRecord(n)
    BY <1>1, <1>2, Unchanged DEF NewRecord
  <1>5. WritesNext(s) /\ Writing(s) = n
    BY <1>1, <1>4 DEF WritesNext, Writing
  <1> QED
    BY <1>3, <1>5, OneNodeTurn

LEMMA AdminSynced ==
    ASSUME TypeOK, TypeOK', Synced, NEW t \in Thread, NEW n \in Node, NEW w \in Weight,
           UpdateNode(t, n, w) \/ DeleteNode(t, n) \/ Activate(t, n)
           \/ DisableNode(t, n) \/ EnableNode(t, n)
    PROVE  Synced'
  <1>1. thread[t].pc = "idle" /\ t \in Goroutine
    BY DEF UpdateNode, DeleteNode, Activate, DisableNode, EnableNode, Start, Goroutine
  <1>2. CASE UpdateNode(t, n, w)
    <2>1. PICK then : Goto(t, Snapshotting(n, then))
      BY <1>2 DEF UpdateNode
    <2>2. /\ weight' = [weight EXCEPT ![n] = w] /\ n \in nodes
          /\ UNCHANGED <<nodes, failed, disabled, stored, rows>>
      BY <1>2 DEF UpdateNode, store
    <2>3. \A m \in Node \ {n} : weight'[m] = weight[m]
      BY <2>2 DEF TypeOK, DataOK
    <2> QED
      BY <1>1, <2>1, <2>2, <2>3, SnapshotTurn
  <1>3. CASE DeleteNode(t, n)
    <2> DEFINE s == At("deleteRow", n, BlankRow, "done")
    <2>1. /\ Goto(t, s) /\ nodes' = nodes \ {n}
          /\ UNCHANGED <<weight, failed, disabled, stored, rows>>
      BY <1>3 DEF DeleteNode
    <2>2. \A m \in Node \ {n} : SameInMemory(m)
      BY <2>1 DEF SameInMemory, NewRecord, ToRecord
    <2>3. Writing(s) = n /\ WritesNext(s) /\ thread[t].pc \notin WritingPC
      BY <1>1, <2>1 DEF Writing, WritesNext, WritingPC, At
    <2> HIDE DEF s
    <2> QED
      BY <1>1, <2>1, <2>2, <2>3, OneNodeTurn
  <1>4. CASE Activate(t, n)
    BY <1>4, NothingHappens DEF Activate, SetActive, pool
  <1>5. CASE DisableNode(t, n)
    <2>1. PICK then : Goto(t, Snapshotting(n, then))
      BY <1>5 DEF DisableNode
    <2>2. /\ disabled' = [disabled EXCEPT ![n] = TRUE] /\ n \in nodes
          /\ UNCHANGED <<nodes, failed, weight, stored, rows>>
      BY <1>5 DEF DisableNode, store
    <2>3. \A m \in Node \ {n} : disabled'[m] = disabled[m]
      BY <2>2 DEF TypeOK, DataOK
    <2> QED
      BY <1>1, <2>1, <2>2, <2>3, SnapshotTurn
  <1>6. CASE EnableNode(t, n)
    <2>1. /\ Goto(t, Snapshotting(n, "enabled")) /\ n \in nodes
          /\ disabled' = [disabled EXCEPT ![n] = FALSE]
          /\ failed' = [failed EXCEPT ![n] = FALSE]
          /\ UNCHANGED <<nodes, weight, stored, rows>>
      BY <1>6 DEF EnableNode, ClearFailed, store
    <2>2. \A m \in Node \ {n} : disabled'[m] = disabled[m] /\ failed'[m] = failed[m]
      BY <2>1 DEF TypeOK, DataOK
    <2> QED
      BY <1>1, <2>1, <2>2, SnapshotTurn
  <1> QED
    BY <1>2, <1>3, <1>4, <1>5, <1>6

LEMMA BlankWeight ==
    \A w : [BlankRow EXCEPT !.weight = w]
              = [failed |-> FALSE, disabled |-> FALSE, weight |-> w]
  <1>1. \A a, b, c, w : [[failed |-> a, disabled |-> b, weight |-> c] EXCEPT !.weight = w]
                          = [failed |-> a, disabled |-> b, weight |-> w]
    OBVIOUS
  <1> QED
    BY <1>1 DEF BlankRow

LEMMA AddSynced ==
    ASSUME TypeOK, TypeOK', Synced, NEW t \in Thread, NEW w \in Weight, AddNode(t, w)
    PROVE  Synced'
  <1> DEFINE r == [BlankRow EXCEPT !.weight = w]
  <1>1. PICK n \in Node : n = created + 1
    BY ConfigAssumption DEF AddNode, TypeOK, DataOK, Node
  <1>2. PICK then : Goto(t, Persisting(n, r, then))
    BY <1>1 DEF AddNode
  <1>3. /\ thread[t].pc \notin WritingPC /\ nodes' = nodes \cup {n} /\ t \in Goroutine
        /\ weight' = [weight EXCEPT ![n] = w]
        /\ failed' = [failed EXCEPT ![n] = FALSE]
        /\ disabled' = [disabled EXCEPT ![n] = FALSE]
        /\ UNCHANGED <<stored, rows>>
    BY <1>1 DEF AddNode, Start, store, WritingPC, Goroutine
  <1>4. \A m \in Node \ {n} : SameInMemory(m)
    BY <1>3 DEF TypeOK, DataOK, SameInMemory, NewRecord, ToRecord
  <1>5. r = NewRecord(n)
    <2>1. failed'[n] = FALSE /\ disabled'[n] = FALSE /\ weight'[n] = w
      BY <1>3 DEF TypeOK, DataOK
    <2>2. r = [failed |-> FALSE, disabled |-> FALSE, weight |-> w]
      BY BlankWeight
    <2> HIDE DEF r
    <2> QED
      BY <2>1, <2>2 DEF NewRecord
  <1> HIDE DEF r
  <1>6. PICK s : s = Persisting(n, r, then)
    OBVIOUS
  <1>7. Writing(s) = n /\ WritesNext(s)
    BY <1>3, <1>5, <1>6 DEF Writing, WritesNext, Persisting, At
  <1> QED
    BY <1>2, <1>3, <1>4, <1>6, <1>7, OneNodeTurn

LEMMA CheckSynced ==
    ASSUME TypeOK, TypeOK', Synced, NEW t \in Goroutine, thread[t].pc = "idle",
           NEW n \in nodes, NEW f \in BOOLEAN, NEW then,
           Goto(t, Persisting(n, [ToRecord(n) EXCEPT !.failed = f], then)),
           failed' = [failed EXCEPT ![n] = f],
           UNCHANGED <<nodes, weight, disabled, stored, rows>>
    PROVE  Synced'
  <1> DEFINE r == [ToRecord(n) EXCEPT !.failed = f]
  <1>1. PICK s : s = Persisting(n, r, then)
    OBVIOUS
  <1>2. s.pc = "persist" /\ s.node = n /\ s.row = r /\ thread[t].pc \notin WritingPC
    BY <1>1 DEF Persisting, At, WritingPC
  <1> QED
    BY ZenonT(60), <1>1, <1>2, VerdictTurn

LEMMA ChecksSynced ==
    ASSUME TypeOK, TypeOK', Synced, NEW t \in Goroutine, thread[t].pc = "idle",
           NEW n \in nodes, NEW ok \in BOOLEAN, NEW isWarmup, NEW then,
           CheckVerdict(n, ok, isWarmup), Goto(t, Checked(n, ok, then))
    PROVE  Synced'
  <1>1. /\ failed' = [failed EXCEPT ![n] = ~ok]
        /\ UNCHANGED <<nodes, weight, disabled, stored, rows>>
    BY DEF CheckVerdict, MarkFailed, ClearFailed, store
  <1>2. Goto(t, Persisting(n, [ToRecord(n) EXCEPT !.failed = ~ok], then))
    BY DEF Checked
  <1> QED
    BY <1>1, <1>2, CheckSynced

LEMMA TrafficSynced ==
    ASSUME TypeOK, TypeOK', Synced, NEW t \in Thread, NEW n, NEW ok \in BOOLEAN,
           Request(t) \/ HandleFailure(t, n) \/ RecordMetrics(t, n, ok)
           \/ CheckNode(t, n, ok) \/ LateCheck(t, n, ok) \/ StartAsync(t)
           \/ UpdateConfig(t)
    PROVE  Synced'
  <1>1. thread[t].pc = "idle" /\ t \in Goroutine
    BY DEF Request, HandleFailure, RecordMetrics, CheckNode, LateCheck, StartAsync,
           UpdateConfig, Start, Goroutine
  <1>2. CASE Request(t) \/ StartAsync(t) \/ UpdateConfig(t)
    <2>1. PICK s : Goto(t, s) /\ s.pc \notin WritingPC
      BY <1>2 DEF Request, StartAsync, UpdateConfig, Selecting, At, WritingPC
    <2>2. UNCHANGED <<nodes, weight, failed, disabled, stored, rows>>
      BY <1>2 DEF Request, StartAsync, UpdateConfig, memory, pool, store
    <2> QED
      BY <1>1, <2>1, <2>2, CalmTurn DEF WritingPC
  <1>4. CASE HandleFailure(t, n)
    BY <1>1, <1>4, CheckSynced DEF HandleFailure, MarkFailed, store
  <1>5. CASE RecordMetrics(t, n, ok)
    <2>1. PICK f \in BOOLEAN : failed' = [failed EXCEPT ![n] = f] /\ failed'[n] = f
      <3>1. n \in Node
        BY <1>5, GivenOutNode DEF RecordMetrics, TypeOK, DataOK
      <3>2. failed' = [failed EXCEPT ![n] = FALSE] \/ failed' = failed
        BY <1>5 DEF RecordMetrics, ClearFailed
      <3> QED
        BY <3>1, <3>2, Unchanged DEF TypeOK, DataOK
    <2>2. /\ Goto(t, Persisting(n, [ToRecord(n) EXCEPT !.failed = f], "done"))
          /\ n \in nodes
          /\ UNCHANGED <<nodes, weight, disabled, stored, rows>>
      BY <1>5, <2>1 DEF RecordMetrics, store
    <2> QED
      BY <1>1, <2>1, <2>2, CheckSynced
  <1>6. CASE CheckNode(t, n, ok)
    <2>1. PICK then : Goto(t, Checked(n, ok, then))
      BY <1>6 DEF CheckNode
    <2> QED
      BY <1>1, <1>6, <2>1, ChecksSynced DEF CheckNode
  <1>7. CASE LateCheck(t, n, ok)
    <2>1. CASE n \in nodes
      BY <1>1, <1>7, <2>1, ChecksSynced DEF LateCheck
    <2>2. CASE n \notin nodes
      BY <1>7, <2>2, NothingHappens DEF LateCheck, memory, pool, store
    <2> QED
      BY <2>1, <2>2
  <1> QED
    BY <1>2, <1>4, <1>5, <1>6, <1>7

LEMMA LoopSynced ==
    ASSUME TypeOK, TypeOK', Synced, Loop
    PROVE  Synced'
  <1>1. CASE LoopStart
    BY <1>1, NothingHappens DEF LoopStart, memory, pool, store
  <1>2. ASSUME NEW n \in Node, NEW ok \in BOOLEAN, LoopCheck(n, ok) PROVE Synced'
    <2>1. thread[HealthLoop].pc = "idle" /\ HealthLoop \in Goroutine
      BY <1>2 DEF LoopCheck, Goroutine
    <2>2. CASE n \in nodes
      <3>1. PICK then : Goto(HealthLoop, Checked(n, ok, then))
        BY <1>2, <2>2 DEF LoopCheck
      <3> QED
        BY <1>2, <2>1, <2>2, <3>1, ChecksSynced DEF LoopCheck
    <2>3. CASE n \notin nodes
      BY <1>2, <2>3, NothingHappens DEF LoopCheck, memory, pool, store
    <2> QED
      BY <2>2, <2>3
  <1> QED
    BY <1>1, <1>2 DEF Loop

(* The steps after the lock is released.                                   *)

LEMMA WritesNoMore ==
    ASSUME NEW s, NEW n, NEW good, NEW skip, NEW left
    PROVE  \A q \in {Continue(s), Selected(s, n), TakingOver(n), AfterAttempt(s, good),
                     IdleThread, InSelection(s, "select", n, skip, left, good),
                     InSelection(s, "queued", n, skip, left, good),
                     InSelection(s, "warm", n, skip, left, good)} :
               q.pc \notin WritingPC
  BY DEF Continue, Selected, Deciding, Selecting, TakingOver, AfterAttempt, AttemptAgain,
         WarmupOver, SkipBest, InSelection, IdleThread, At, WritingPC

(* The row is written or deleted as the memory has it, if nobody else is   *)
(* about to write it, or the write fails.                                  *)
LEMMA WriteTurn ==
    ASSUME TypeOK, TypeOK', Synced, NEW t \in Goroutine, NEW s, s.pc \notin WritingPC,
           UNCHANGED <<nodes, weight, failed, disabled>>,
           NEW n \in Node, Writing(thread[t]) = n,
           \/ GotoUnwritten(t, s) /\ UNCHANGED <<stored, rows>>
           \/ /\ Goto(t, s)
              /\ \/ /\ thread[t].pc = "deleteRow"
                    /\ stored' = stored \ {n} /\ rows' = rows
                 \/ /\ thread[t].pc \in {"persist", "persistStrict", "warmPersist"}
                    /\ Upsert(n, thread[t].row)
    PROVE  Synced'
  <1>1. Writing(s) = NoNode /\ WritesNext(s) /\ \A m \in Node : SameInMemory(m)
    BY WritesNothing DEF SameInMemory, NewRecord, ToRecord
  <1>2. \A m \in Node \ {n} : SameInTable(m)
    BY DEF SameInTable, Upsert, TypeOK, DataOK
  <1>3. ASSUME n \notin stale, Goto(t, s) PROVE NowSame(n) \/ GotoUnwritten(t, s)
    <2>1. Writes(thread[t])
      BY <1>3 DEF Synced, WritersAgree
    <2>2. CASE thread[t].pc = "deleteRow" /\ stored' = stored \ {n}
      <3>1. n \notin nodes /\ n \notin stored'
        BY <2>1, <2>2 DEF Writes, Writing
      <3> QED
        BY <3>1 DEF NowSame
    <2>3. CASE /\ thread[t].pc \in {"persist", "persistStrict", "warmPersist"}
               /\ Upsert(n, thread[t].row)
      <3>1. n \in nodes /\ thread[t].row = ToRecord(n)
        BY <2>1, <2>3 DEF Writes, Writing
      <3>2. n \in stored' /\ rows'[n] = thread[t].row
        BY <2>3 DEF Upsert, TypeOK, DataOK
      <3>3. NewRecord(n) = ToRecord(n)
        BY DEF NewRecord, ToRecord
      <3> QED
        BY <3>1, <3>2, <3>3 DEF NowSame
    <2> QED
      BY <2>2, <2>3
  <1> QED
    BY <1>1, <1>2, <1>3, Turn

LEMMA StoreSynced ==
    ASSUME TypeOK, TypeOK', Synced, NEW t \in Goroutine,
           TakeSnapshot(t) \/ Persist(t) \/ PersistFails(t)
           \/ DeleteRow(t) \/ DeleteRowFails(t) \/ WarmupPersist(t)
    PROVE  Synced'
  <1>1. PICK n \in Node : Writing(thread[t]) = n
    <2>1. Writing(thread[t]) # NoNode
      BY AtWork, WritingOK DEF TakeSnapshot, Persist, PersistFails, DeleteRow, DeleteRowFails,
                               WarmupPersist
    <2> QED
      BY <2>1, AtWork, WritingOK, ConfigAssumption DEF NoNode, Count, Node
  <1>2. /\ thread[t].pc # "warmPersist" => thread[t].node = n
        /\ thread[t].pc = "warmPersist" => thread[t].best = n
    BY <1>1 DEF Writing, NoNode, Node
  <1>3. UNCHANGED <<nodes, weight, failed, disabled>>
    BY DEF TakeSnapshot, Persist, PersistFails, DeleteRow, DeleteRowFails, WarmupPersist,
           memory, pool
  <1>4. CASE TakeSnapshot(t)
    <2>1. PICK s : s = At("persistStrict", n, ToRecord(n), thread[t].then)
      OBVIOUS
    <2>2. /\ Goto(t, s) /\ s.pc = "persistStrict" /\ s.node = n /\ s.row = ToRecord(n)
          /\ UNCHANGED <<stored, rows>> /\ thread[t].pc = "snapshot"
      BY <1>2, <1>4, <2>1 DEF TakeSnapshot, store, At
    <2>3. Writing(s) = n /\ (n \in stale \/ n \in nodes)
      BY <1>1, <1>2, <2>2 DEF Writing, Synced, WritersAgree, Writes
    <2>4. \A m \in Node : SameInMemory(m) /\ SameInTable(m)
      BY <1>3, <2>2 DEF SameInMemory, SameInTable, NewRecord, ToRecord
    <2>5. WritesNext(s) \/ n \in stale
      BY <1>3, <2>2, <2>3 DEF WritesNext, NewRecord, ToRecord
    <2> QED
      BY <1>1, <2>2, <2>3, <2>4, <2>5, Turn
  <1>5. CASE Persist(t) \/ PersistFails(t)
    <2>1. PICK s : /\ s.pc \notin WritingPC
                   /\ \/ Persist(t) /\ Goto(t, s)
                      \/ PersistFails(t) /\ GotoUnwritten(t, s)
      BY <1>5, WritesNoMore DEF Persist, PersistFails
    <2>2. /\ Persist(t) => /\ Upsert(n, thread[t].row)
                           /\ thread[t].pc \in {"persist", "persistStrict"}
          /\ PersistFails(t) => UNCHANGED <<stored, rows>>
      BY <1>2 DEF Persist, PersistFails, store
    <2> QED
      BY <1>1, <1>3, <2>1, <2>2, WriteTurn
  <1>6. CASE DeleteRow(t) \/ DeleteRowFails(t)
    <2>1. /\ IdleThread.pc \notin WritingPC
          /\ DeleteRow(t) => /\ stored' = stored \ {n} /\ rows' = rows
                             /\ thread[t].pc = "deleteRow" /\ Goto(t, IdleThread)
          /\ DeleteRowFails(t) => /\ UNCHANGED <<stored, rows>>
                                  /\ GotoUnwritten(t, IdleThread)
      BY <1>2, WritesNoMore DEF DeleteRow, DeleteRowFails, store
    <2> QED
      BY <1>1, <1>3, <1>6, <2>1, WriteTurn
  <1>7. CASE WarmupPersist(t)
    <2>1. PICK s : s = AfterAttempt(thread[t], Counted(thread[t])) /\ s.pc \notin WritingPC
      BY WritesNoMore
    <2>2. /\ thread[t].pc = "warmPersist"
          /\ \/ Upsert(n, thread[t].row) /\ Goto(t, s)
             \/ UNCHANGED <<stored, rows>> /\ GotoUnwritten(t, s)
      BY <1>2, <1>7, <2>1 DEF WarmupPersist, store
    <2> QED
      BY <1>1, <1>3, <2>1, <2>2, WriteTurn
  <1> QED
    BY <1>4, <1>5, <1>6, <1>7

(* A selection writes no node, but for the checks of its warm-ups.         *)
LEMMA SelectSynced ==
    ASSUME TypeOK, TypeOK', Synced, NEW t \in Goroutine, NEW n,
           SelectNone(t) \/ SelectAtOnce(t, n) \/ SelectToWarm(t, n)
           \/ AcquireWarmupSlot(t) \/ WarmupNodeGone(t) \/ WarmupTimeout(t)
           \/ ActivateChosen(t) \/ CurrentNode(t) \/ DecideEnabled(t)
           \/ SaveConfig(t) \/ SaveConfigFails(t)
    PROVE  Synced'
  <1>1. thread[t].pc \notin WritingPC
    BY DEF SelectNone, SelectAtOnce, SelectToWarm, AcquireWarmupSlot, WarmupNodeGone,
       WarmupTimeout, ActivateChosen, CurrentNode, DecideEnabled, SaveConfig,
       SaveConfigFails, WritingPC
  <1>2. UNCHANGED <<nodes, weight, failed, disabled, stored, rows>>
    BY DEF SelectNone, SelectAtOnce, SelectToWarm, AcquireWarmupSlot, WarmupNodeGone,
       WarmupTimeout, ActivateChosen, CurrentNode, DecideEnabled, SaveConfig,
       SaveConfigFails, SetActive, memory, pool, store
  <1>3. PICK s : Goto(t, s) /\ s.pc \notin WritingPC
    <2>1. CASE SelectNone(t) \/ SelectAtOnce(t, n) \/ ActivateChosen(t)
      BY <2>1, WritesNoMore DEF SelectNone, SelectAtOnce, ActivateChosen
    <2>2. CASE SelectToWarm(t, n) \/ AcquireWarmupSlot(t)
      BY <2>2, WritesNoMore DEF SelectToWarm, AcquireWarmupSlot
    <2>3. CASE WarmupNodeGone(t) \/ WarmupTimeout(t)
      BY <2>3, WritesNoMore DEF WarmupNodeGone, WarmupTimeout
    <2>4. CASE CurrentNode(t)
      BY <2>4, WritesNoMore DEF CurrentNode
    <2>5. CASE DecideEnabled(t)
      BY <2>5, WritesNoMore DEF DecideEnabled
    <2>6. CASE SaveConfig(t) \/ SaveConfigFails(t)
      BY <2>6, WritesNoMore DEF SaveConfig, SaveConfigFails
    <2> QED
      BY <2>1, <2>2, <2>3, <2>4, <2>5, <2>6
  <1> QED
    BY <1>1, <1>2, <1>3, CalmTurn

LEMMA WarmupSynced ==
    ASSUME TypeOK, TypeOK', Synced, NEW t \in Goroutine, NEW ok \in BOOLEAN,
           WarmupCheck(t, ok)
    PROVE  Synced'
  <1> DEFINE n == thread[t].best
             r == [ToRecord(n) EXCEPT !.failed = ~ok]
  <1>1. PICK s : s = Reporting(thread[t], r)
    OBVIOUS
  <1>2. /\ Goto(t, s) /\ n \in nodes
        /\ failed' = [failed EXCEPT ![n] = ~ok]
        /\ UNCHANGED <<nodes, weight, disabled, stored, rows>>
    BY <1>1 DEF WarmupCheck, CheckVerdict, MarkFailed, ClearFailed, store
  <1>3. s.pc = "warmPersist" /\ s.best = n /\ s.row = r /\ thread[t].pc \notin WritingPC
    BY <1>1 DEF Reporting, InSelection, WarmupCheck, WritingPC
  <1> QED
    BY ZenonT(60), <1>2, <1>3, VerdictTurn

(* A start finds the table as it is, with nobody at work.                  *)
LEMMA StartSynced ==
    ASSUME rows \in [Node -> Row], nodes = stored,
           \A n \in stored : /\ weight[n] = rows[n].weight /\ failed[n] = rows[n].failed
                             /\ disabled[n] = rows[n].disabled,
           \A t \in Goroutine : thread[t].pc = "idle"
    PROVE  Synced
  <1>1. \A t \in Goroutine : Writing(thread[t]) = NoNode /\ Writes(thread[t])
    BY WritesNothing DEF WritingPC
  <1>2. ASSUME NEW n \in Node PROVE SameAsStored(n)
    <2>1. rows[n] = [failed |-> rows[n].failed, disabled |-> rows[n].disabled,
                     weight |-> rows[n].weight]
      BY DEF Row
    <2> QED
      BY <2>1 DEF SameAsStored, ToRecord
  <1> QED
    BY <1>1, <1>2 DEF Synced, WritersAgree, WritersApart, StoreMatchesMemory

LEMMA InitSynced == Init => Synced
  <1> SUFFICES ASSUME Init PROVE Synced
    OBVIOUS
  <1>1. /\ nodes = stored /\ rows \in [Node -> Row] /\ stored \subseteq Node
        /\ \A n \in Node : /\ weight[n] = rows[n].weight /\ failed[n] = rows[n].failed
                           /\ disabled[n] = rows[n].disabled
    BY InitTypes, GivenOutNode DEF Init, TypeOK, DataOK
  <1>2. \A t \in Goroutine : thread[t].pc = "idle"
    BY DEF Init, IdleThread, At
  <1> QED
    BY <1>1, <1>2, StartSynced

LEMMA RestartSynced ==
    ASSUME TypeOK, Restart
    PROVE  Synced'
  <1>1. /\ nodes' = stored /\ stored' = stored /\ rows' = rows
        /\ weight' = [n \in Node |-> LoadRow(n).weight]
        /\ failed' = [n \in Node |-> LoadRow(n).failed]
        /\ disabled' = [n \in Node |-> LoadRow(n).disabled]
        /\ thread' = [t \in Goroutine |-> IdleThread] /\ stale' = {}
    BY DEF Restart, RestartWith
  <1>2. stored \subseteq Node /\ rows \in [Node -> Row]
    BY GivenOutNode DEF TypeOK, DataOK
  <1>3. IdleThread.pc = "idle"
    BY DEF IdleThread, At
  <1>4. \A t \in Goroutine : thread'[t].pc = "idle"
    BY <1>1, <1>3
  <1>5. \A n \in stored : /\ weight'[n] = rows[n].weight /\ failed'[n] = rows[n].failed
                          /\ disabled'[n] = rows[n].disabled
    BY <1>1, <1>2 DEF LoadRow
  <1>6. \A t \in Goroutine : WritesNext(thread'[t]) /\ Writing(thread'[t]) = NoNode
    BY <1>4, WritesNothing DEF WritingPC
  <1>7. ASSUME NEW n \in Node PROVE NowSame(n)
    <2>1. rows[n] = [failed |-> rows[n].failed, disabled |-> rows[n].disabled,
                     weight |-> rows[n].weight]
      BY <1>2 DEF Row
    <2> QED
      BY <1>1, <1>5, <2>1 DEF NowSame, NewRecord
  <1>8. WritersAgree'
    BY <1>6 DEF WritersAgree, Writes, WritesNext, NewRecord, ToRecord
  <1>9. WritersApart'
    BY <1>6 DEF WritersApart
  <1>10. StoreMatchesMemory'
    BY <1>7 DEF StoreMatchesMemory, SameAsStored, NowSame, NewRecord, ToRecord
  <1> QED
    BY <1>8, <1>9, <1>10 DEF Synced

LEMMA SyncedStep == TypeOK /\ TypeOK' /\ Synced /\ [Next]_vars => Synced'
  <1> SUFFICES ASSUME TypeOK, TypeOK', Synced, [Next]_vars PROVE Synced'
    OBVIOUS
  <1>1. ASSUME NEW t \in Thread, Handle(t) PROVE Synced'
    <2>1. 1 \in Weight
      BY ConfigAssumption DEF Weight
    <2>2. ASSUME NEW n \in Node, NEW w \in Weight,
                 UpdateNode(t, n, w) \/ DeleteNode(t, n) \/ Activate(t, n)
                 \/ DisableNode(t, n) \/ EnableNode(t, n)
          PROVE  Synced'
      BY <2>2, AdminSynced
    <2>3. ASSUME NEW n \in Node, NEW ok \in BOOLEAN,
                 HandleFailure(t, n) \/ RecordMetrics(t, n, ok) \/ CheckNode(t, n, ok)
          PROVE  Synced'
      BY <2>3, TrafficSynced
    <2>4. ASSUME Request(t) \/ UpdateConfig(t) PROVE Synced'
      BY <2>4, TrafficSynced
    <2> QED
      BY <1>1, <2>1, <2>2, <2>3, <2>4, AddSynced DEF Handle
  <1>2. ASSUME NEW t \in Thread, Background(t) PROVE Synced'
    <2>1. ASSUME StartAsync(t) PROVE Synced'
      BY <2>1, TrafficSynced
    <2> QED
      BY <1>2, <2>1, TrafficSynced DEF Background
  <1>3. ASSUME NEW t \in Goroutine, Step(t) PROVE Synced'
    <2>1. ASSUME SelectNone(t) \/ AcquireWarmupSlot(t) \/ WarmupNodeGone(t)
                 \/ WarmupTimeout(t) \/ ActivateChosen(t) \/ CurrentNode(t)
                 \/ DecideEnabled(t) \/ SaveConfig(t) \/ SaveConfigFails(t)
          PROVE  Synced'
      BY <2>1, SelectSynced
    <2>2. ASSUME NEW n \in Node, SelectAtOnce(t, n) \/ SelectToWarm(t, n) PROVE Synced'
      BY <2>2, SelectSynced
    <2> QED
      BY <1>3, <2>1, <2>2, StoreSynced, WarmupSynced DEF Step
  <1>4. ASSUME UNCHANGED vars PROVE Synced'
    BY <1>4, NothingHappens DEF vars, memory, pool, store
  <1> QED
    BY <1>1, <1>2, <1>3, <1>4, LoopSynced, RestartSynced DEF Next

(* What a restart would load is what is running now, whatever overlaps and *)
(* fails, for any number of nodes, goroutines and crashes: the rows of the *)
(* nodes that nobody is writing and whose last write was neither lost nor  *)
(* overlapped by another goroutine's, and the active node unless its last  *)
(* write was lost or an older one was about to be saved meanwhile.         *)
THEOREM RestartLoadsMemoryHolds == Spec => []RestartLoadsMemory
  <1>1. TypeOK /\ Synced /\ [Next]_vars /\ TypeOK' => Synced'
    BY SyncedStep
  <1>2. Spec => []Synced
    BY <1>1, TypeCorrect, InitSynced, PTL DEF Spec
  <1>3. Synced /\ ActivePersisted => RestartLoadsMemory
    BY DEF Synced, RestartLoadsMemory
  <1> QED
    BY <1>2, <1>3, ActivePersistedHolds, PTL

------------------------------------------------------------------------------
(* Fail-over.  Whatever takes the active node out of service selects       *)
(* another one afterwards, and the node a selection finds is in service    *)
(* when it becomes active: without warm-up the choice and the activation   *)
(* are one critical section, and what enableNode compares with the current *)
(* node nobody else has disabled meanwhile if the handlers run one at a    *)
(* time.  Without enableNode any number of goroutines may be at work.      *)
(*                                                                         *)
(* A write that fails keeps disableNode, enableNode and updateNode from    *)
(* the selection they would have gone on to; the others do not look at the *)
(* error.  An update takes no node out of service: its selection is not    *)
(* needed, and does not count if the database may fail.                    *)

(* One handler at a time, without the health loop.                         *)
Serial == "loop" \notin Ops /\ \A t, u \in Thread : t = u

FailoverSetting ==
    /\ WarmupModes \subseteq {FALSE}
    /\ StoreMayFail => "disable" \notin Ops /\ "enable" \notin Ops
    /\ "activate" \notin Ops /\ "restart" \notin Ops /\ "metrics" \notin Ops
    /\ "enable" \in Ops => Serial

AllIdle == \A t \in Goroutine : thread[t].pc = "idle"

(* When nothing is under way and some node is usable, the active node is   *)
(* not one that failed or was disabled: whichever handler took the old one *)
(* out of service also saw to the switch.                                  *)
FailoverComplete ==
    AllIdle /\ asyncSelects = 0 /\ activeID \in nodes /\ (\E n \in nodes : Usable(n))
        => Serving(activeID)

(* A start on a database whose active node, if any, is in service.         *)
InService == activeID \in nodes => Serving(activeID)
InServiceInit == Init /\ InService
InServiceSpec == InServiceInit /\ [][Next]_vars

(* A goroutine within enableNode, which has a node in service.             *)
Concerned(s) == s.then = "enabled" \/ s.pc = "decide"

Ready(s) ==
    /\ s.pc \notin {"queued", "warm", "warmPersist"}
    /\ s.skip = {}
    /\ Concerned(s) => "enable" \in Ops /\ s.pc # "idle" /\ Serving(s.node)
    /\ s.pc = "activate" => "enable" \in Ops /\ Serving(s.best)

(* A goroutine that selects a node later, at any rate or, after a check    *)
(* that promotes, if that node is still there.                             *)
WillSelect(s) ==
    \/ s.pc \in {"select", "current"}
    \/ /\ s.pc = "persist" \/ (s.pc \in {"snapshot", "persistStrict"} /\ ~StoreMayFail)
       /\ s.then \in {"select", "enabled"}

Promoting(s, n) == s.pc = "persist" /\ s.then = "promote" /\ s.node = n

(* While the active node is out of service and n could replace it, a       *)
(* selection is on its way.                                                *)
Switching ==
    activeID \in nodes /\ ~Serving(activeID) =>
        \A n \in nodes : Usable(n) =>
            \/ asyncSelects > 0
            \/ \E t \in Goroutine : WillSelect(thread[t]) \/ Promoting(thread[t], n)

LoopQuiet == "enable" \in Ops => pending = {} /\ thread[HealthLoop].pc = "idle"

Covered ==
    /\ FailoverSetting
    /\ lateChecks = {}
    /\ LoopQuiet
    /\ \A t \in Goroutine : Ready(thread[t])
    /\ Switching

(* Serving, Usable and Ready after a step, of a node or a state given      *)
(* before it.                                                              *)
ServingNext(n) == n \in nodes' /\ ~failed'[n] /\ ~disabled'[n]
UsableNext(n) == ServingNext(n) /\ n \notin failedSet'
ReadyNext(s) ==
    /\ s.pc \notin {"queued", "warm", "warmPersist"}
    /\ s.skip = {}
    /\ Concerned(s) => "enable" \in Ops /\ s.pc # "idle" /\ ServingNext(s.node)
    /\ s.pc = "activate" => "enable" \in Ops /\ ServingNext(s.best)

(* What a step of t to s may do: leave a selection on its way, an active   *)
(* node in service or nothing to select; or take no node into service, but *)
(* for the one it promotes, and drop no selection.                         *)
NoNewNode(t, s) ==
    /\ activeID' = activeID /\ asyncSelects' = asyncSelects
    /\ activeID \in nodes' => activeID \in nodes
    /\ Serving(activeID) => ServingNext(activeID) \/ activeID \notin nodes'
    /\ WillSelect(thread[t]) => WillSelect(s)
    /\ \A n \in nodes' : UsableNext(n) =>
          \/ Promoting(s, n)
          \/ n \in nodes /\ Usable(n) /\ ~Promoting(thread[t], n)

SwitchesOn(t, s) ==
    \/ WillSelect(s)
    \/ asyncSelects' \in Nat /\ asyncSelects' > 0
    \/ activeID' \notin nodes'
    \/ ServingNext(activeID')
    \/ \A n \in nodes' : ~UsableNext(n)
    \/ NoNewNode(t, s)

LEMMA CoveredTurn ==
    ASSUME TypeOK, Covered, NEW t \in Goroutine, NEW s, lateChecks' = {},
           Goto(t, s) \/ GotoUnwritten(t, s),
           "enable" \in Ops => pending' = {} /\ t \in Thread,
           ReadyNext(s), \A u \in Goroutine \ {t} : ReadyNext(thread[u]),
           SwitchesOn(t, s)
    PROVE  Covered'
  <1>1. thread'[t] = s /\ \A u \in Goroutine \ {t} : thread'[u] = thread[u]
    BY DEF TypeOK, Goto, GotoUnwritten
  <1>2. ASSUME NEW u \in Goroutine PROVE Ready(thread[u])'
    <2>1. \A v \in Goroutine : thread'[v] = thread[v] \/ v = t
      BY <1>1
    <2>2. PICK q : q = thread'[u] /\ ReadyNext(q)
      BY <1>1
    <2> QED
      BY <2>2 DEF Ready, ReadyNext, Concerned, Serving, ServingNext
  <1>3. LoopQuiet'
    <2>1. "enable" \in Ops => HealthLoop # t /\ HealthLoop \in Goroutine
      BY ConfigAssumption DEF Goroutine
    <2> QED
      BY <1>1, <2>1 DEF Covered, LoopQuiet
  <1>4. ASSUME activeID' \in nodes', ~ServingNext(activeID'), NEW n \in nodes',
               UsableNext(n), ~(asyncSelects' > 0)
        PROVE  \E u \in Goroutine : WillSelect(thread'[u]) \/ Promoting(thread'[u], n)
    <2>1. CASE WillSelect(s)
      BY <1>1, <2>1
    <2>2. CASE NoNewNode(t, s) /\ ~Promoting(s, n)
      <3>1. activeID \in nodes /\ ~Serving(activeID) /\ n \in nodes /\ Usable(n)
            /\ ~(asyncSelects > 0) /\ ~Promoting(thread[t], n)
        BY <1>4, <2>2 DEF NoNewNode
      <3>2. PICK u \in Goroutine : WillSelect(thread[u]) \/ Promoting(thread[u], n)
        BY <3>1 DEF Covered, Switching
      <3>3. CASE u = t
        BY <1>1, <2>2, <3>1, <3>2, <3>3 DEF NoNewNode
      <3>4. CASE u # t
        BY <1>1, <3>2, <3>4
      <3> QED
        BY <3>3, <3>4
    <2>3. CASE Promoting(s, n)
      BY <1>1, <2>3
    <2> QED
      BY <1>4, <2>1, <2>2, <2>3 DEF SwitchesOn
  <1>5. Switching'
    BY <1>4 DEF Switching, Serving, ServingNext, Usable, UsableNext, WillSelect, Promoting
  <1> QED
    BY <1>2, <1>3, <1>5 DEF Covered, FailoverSetting, Serial

LEMMA CoveredStays ==
    ASSUME Covered, pending' \subseteq pending \/ "enable" \notin Ops,
           UNCHANGED <<nodes, failed, disabled, failedSet, activeID, work, asyncSelects,
                       lateChecks>>
    PROVE  Covered'
  <1>1. thread' = thread /\ FailoverSetting'
    BY DEF work, Covered, FailoverSetting, Serial
  <1>2. \A t \in Goroutine : Ready(thread[t])'
    BY <1>1 DEF Covered, Ready, Concerned, Serving
  <1>3. Switching'
    BY <1>1 DEF Covered, Switching, Serving, Usable, WillSelect, Promoting
  <1> QED
    BY <1>1, <1>2, <1>3 DEF Covered, LoopQuiet

(* A step that changes no flags keeps the other goroutines ready.          *)
LEMMA OthersReady ==
    ASSUME Covered, UNCHANGED <<nodes, failed, disabled>>
    PROVE  \A u \in Goroutine : ReadyNext(thread[u])
  <1> SUFFICES ASSUME NEW u \in Goroutine PROVE ReadyNext(thread[u])
    OBVIOUS
  <1>1. Ready(thread[u])
    BY DEF Covered
  <1> QED
    BY <1>1 DEF Ready, ReadyNext, Serving, ServingNext

(* At the start of a handler nobody else is within enableNode.             *)
LEMMA NobodyConcerned ==
    ASSUME Covered, NEW t \in Goroutine, t \in Thread \/ "enable" \notin Ops
    PROVE  \A u \in Goroutine \ {t} : ReadyNext(thread[u])
  <1> SUFFICES ASSUME NEW u \in Goroutine, u # t PROVE ReadyNext(thread[u])
    OBVIOUS
  <1>1. Ready(thread[u])
    BY DEF Covered
  <1>2. "enable" \in Ops => thread[u].pc = "idle"
    BY DEF Covered, LoopQuiet, FailoverSetting, Serial, Goroutine
  <1>3. ~Concerned(thread[u]) /\ thread[u].pc # "activate"
    BY <1>1, <1>2 DEF Ready
  <1> QED
    BY <1>1, <1>3 DEF Ready, ReadyNext

(* The states a handler leaves its goroutine in.                           *)
LEMMA NewStates ==
    ASSUME NEW n, NEW r, NEW then \in Continuation \ {"enabled"}
    PROVE  /\ \A s \in {Persisting(n, r, then), Snapshotting(n, then),
                        At("deleteRow", n, r, then), Selecting, IdleThread} :
                 ReadyNext(s)
           /\ WillSelect(Persisting(n, r, "select")) /\ WillSelect(Selecting)
           /\ ~StoreMayFail => /\ WillSelect(Snapshotting(n, "select"))
                               /\ WillSelect(Snapshotting(n, "enabled"))
           /\ Promoting(Persisting(n, r, "promote"), n)
  BY DEF ReadyNext, Concerned, WillSelect, Promoting, Persisting, Snapshotting, Selecting,
         IdleThread, At, Continuation

LEMMA IdleSelectsNot ==
    ASSUME NEW s, s.pc \in {"idle", "deleteRow", "saveConfig", "decide", "activate"}
    PROVE  ~WillSelect(s) /\ \A n : ~Promoting(s, n)
  BY DEF WillSelect, Promoting

LEMMA CoveredAdmin ==
    ASSUME TypeOK, Covered, NEW t \in Thread, NEW n \in Node, NEW w \in Weight,
           UpdateNode(t, n, w) \/ DeleteNode(t, n) \/ DisableNode(t, n) \/ EnableNode(t, n)
    PROVE  Covered'
  <1>1. /\ t \in Goroutine /\ thread[t].pc = "idle"
        /\ \A u \in Goroutine \ {t} : ReadyNext(thread[u])
    BY NobodyConcerned DEF Goroutine, UpdateNode, DeleteNode, DisableNode, EnableNode, Start
  <1>2. ~WillSelect(thread[t]) /\ \A m : ~Promoting(thread[t], m)
    BY <1>1, IdleSelectsNot
  <1>3. /\ lateChecks' = {}
        /\ "enable" \in Ops => pending' = {}
    BY DEF Covered, LoopQuiet, UpdateNode, DeleteNode, DisableNode, EnableNode, background
  <1>4. CASE UpdateNode(t, n, w)
    <2>1. PICK s : Goto(t, s) /\ ReadyNext(s)
      BY <1>4, NewStates DEF UpdateNode, Continuation
    <2>2. UNCHANGED <<nodes, failed, disabled, failedSet, activeID, asyncSelects>>
      BY <1>4 DEF UpdateNode, background
    <2>3. NoNewNode(t, s)
      BY <1>2, <2>2 DEF NoNewNode, Usable, UsableNext, Serving, ServingNext
    <2> QED
      BY <1>1, <1>3, <2>1, <2>3, CoveredTurn DEF SwitchesOn
  <1>5. CASE DeleteNode(t, n)
    <2>1. PICK s : Goto(t, s) /\ ReadyNext(s)
      BY <1>5, NewStates DEF DeleteNode, Continuation
    <2>2. /\ nodes' = nodes \ {n} /\ failedSet' = failedSet \ {n}
          /\ UNCHANGED <<failed, disabled, asyncSelects>>
          /\ activeID' = activeID \/ activeID' = NoNode
      BY <1>5 DEF DeleteNode, background
    <2>3. NoNode \notin nodes'
      BY <2>2, GivenOutNode DEF TypeOK, DataOK, Node, NoNode
    <2>4. activeID' = activeID => NoNewNode(t, s)
      BY <1>2, <2>2 DEF NoNewNode, Usable, UsableNext, Serving, ServingNext
    <2> QED
      BY <1>1, <1>3, <2>1, <2>2, <2>3, <2>4, CoveredTurn DEF SwitchesOn
  <1>6. CASE DisableNode(t, n)
    <2>0. ~StoreMayFail
      BY <1>6 DEF DisableNode, Start, Covered, FailoverSetting
    <2>1. PICK s : /\ Goto(t, s) /\ ReadyNext(s)
                   /\ activeID = n => WillSelect(s)
      BY <1>6, <2>0, NewStates DEF DisableNode, Continuation
    <2>2. /\ UNCHANGED <<nodes, failed, failedSet, activeID, asyncSelects>>
          /\ disabled' = [disabled EXCEPT ![n] = TRUE]
      BY <1>6 DEF DisableNode, background
    <2>3. \A m \in nodes : /\ disabled'[m] = FALSE => disabled[m] = FALSE
                           /\ m # n => disabled'[m] = disabled[m]
      BY <2>2, GivenOutNode DEF TypeOK, DataOK
    <2>4. activeID # n => NoNewNode(t, s)
      BY <1>2, <2>2, <2>3 DEF NoNewNode, Usable, UsableNext, Serving, ServingNext, TypeOK,
                              DataOK
    <2> QED
      BY <1>1, <1>3, <2>1, <2>4, CoveredTurn DEF SwitchesOn
  <1>7. CASE EnableNode(t, n)
    <2> DEFINE s == Snapshotting(n, "enabled")
    <2>1. /\ Goto(t, s) /\ "enable" \in Ops /\ n \in nodes
          /\ nodes' = nodes /\ disabled' = [disabled EXCEPT ![n] = FALSE]
          /\ failed' = [failed EXCEPT ![n] = FALSE]
      BY <1>7 DEF EnableNode, ClearFailed, Start
    <2>2. ServingNext(n)
      BY <2>1 DEF ServingNext, TypeOK, DataOK
    <2>3. ReadyNext(s) /\ WillSelect(s)
      <3>1. ~StoreMayFail
        BY <2>1 DEF Covered, FailoverSetting
      <3> QED
        BY <2>1, <2>2, <3>1 DEF ReadyNext, Concerned, WillSelect, Snapshotting, At
    <2> HIDE DEF s
    <2> QED
      BY <1>1, <1>3, <2>1, <2>3, CoveredTurn DEF SwitchesOn
  <1> QED
    BY <1>4, <1>5, <1>6, <1>7

LEMMA CoveredAdd ==
    ASSUME TypeOK, Covered, NEW t \in Thread, NEW w \in Weight, AddNode(t, w)
    PROVE  Covered'
  <1>1. /\ t \in Goroutine /\ \A u \in Goroutine \ {t} : ReadyNext(thread[u])
    BY NobodyConcerned DEF Goroutine
  <1>2. /\ lateChecks' = {}
        /\ "enable" \in Ops => pending' = {}
    BY DEF Covered, LoopQuiet, AddNode, background
  <1>3. PICK n \in Node : n = created + 1
    BY ConfigAssumption DEF AddNode, TypeOK, DataOK, Node
  <1>4. PICK s : /\ Goto(t, s) /\ ReadyNext(s)
                 /\ ~Serving(activeID) => WillSelect(s)
    BY <1>3, NewStates DEF AddNode, Continuation
  <1>5. /\ nodes' = nodes \cup {n} /\ activeID' = activeID
        /\ failed' = [failed EXCEPT ![n] = FALSE]
        /\ disabled' = [disabled EXCEPT ![n] = FALSE]
    BY <1>3 DEF AddNode
  <1>6. Serving(activeID) => ServingNext(activeID')
    BY <1>5, GivenOutNode DEF Serving, ServingNext, TypeOK, DataOK
  <1> QED
    BY <1>1, <1>2, <1>4, <1>6, CoveredTurn DEF SwitchesOn

(* A check.  The node it clears is one that was usable before, or one that *)
(* it promotes, for only a failed node is not usable and yet not disabled. *)
LEMMA CoveredCheck ==
    ASSUME TypeOK, FailedSetExact, Covered, NEW t \in Goroutine, NEW n \in nodes,
           NEW ok \in BOOLEAN, thread[t].pc = "idle", lateChecks' = {},
           "enable" \in Ops => pending' = {} /\ t \in Thread,
           CheckVerdict(n, ok, FALSE),
           Goto(t, Checked(n, ok, IF Promotes(n, ok) THEN "promote" ELSE "done"))
    PROVE  Covered'
  <1>1. /\ \A u \in Goroutine \ {t} : ReadyNext(thread[u])
        /\ ~WillSelect(thread[t]) /\ \A m : ~Promoting(thread[t], m)
    BY NobodyConcerned, IdleSelectsNot
  <1>2. PICK s : /\ Goto(t, s) /\ ReadyNext(s)
                 /\ Promotes(n, ok) => Promoting(s, n)
    BY NewStates DEF Checked, Continuation
  <1>3. /\ n \in Node /\ UNCHANGED <<nodes, disabled, activeID>>
        /\ failed' = [failed EXCEPT ![n] = ~ok]
        /\ failedSet' = IF ok THEN failedSet \ {n} ELSE failedSet \cup {n}
    BY GivenOutNode DEF CheckVerdict, ClearFailed, MarkFailed, TypeOK, DataOK
  <1>4. failed'[n] = ~ok /\ \A m \in Node \ {n} : failed'[m] = failed[m]
    BY <1>3 DEF TypeOK, DataOK
  <1>5. CASE ~ok /\ n = activeID
    <2>1. asyncSelects' \in Nat /\ asyncSelects' > 0
      BY <1>5 DEF CheckVerdict, TypeOK, DataOK
    <2> QED
      BY <1>1, <1>2, <2>1, CoveredTurn DEF SwitchesOn
  <1>6. CASE ~ok /\ n # activeID
    <2>1. /\ asyncSelects' = asyncSelects
          /\ Serving(activeID) => ServingNext(activeID)
      BY <1>3, <1>4, <1>6, GivenOutNode
      DEF CheckVerdict, Serving, ServingNext, TypeOK, DataOK
    <2>2. \A m \in nodes' : UsableNext(m) => m \in nodes /\ Usable(m)
      BY <1>3, <1>4, <1>6, GivenOutNode
      DEF Usable, UsableNext, Serving, ServingNext, TypeOK, DataOK
    <2>3. NoNewNode(t, s)
      BY <1>1, <1>3, <2>1, <2>2 DEF NoNewNode
    <2> QED
      BY <1>1, <1>2, <2>3, CoveredTurn DEF SwitchesOn
  <1>7. CASE ok
    <2>1. /\ asyncSelects' = asyncSelects
          /\ Serving(activeID) => ServingNext(activeID)
      BY <1>3, <1>4, <1>7, GivenOutNode
      DEF CheckVerdict, Serving, ServingNext, TypeOK, DataOK
    <2>2. \A m \in nodes' \ {n} : UsableNext(m) => m \in nodes /\ Usable(m)
      BY <1>3, <1>4, <1>7, GivenOutNode
      DEF Usable, UsableNext, Serving, ServingNext, TypeOK, DataOK
    <2>3. UsableNext(n) => Promoting(s, n) \/ Usable(n)
      <3>1. UsableNext(n) /\ failed[n] => Promotes(n, ok)
        BY <1>3, <1>7 DEF UsableNext, ServingNext, Promotes
      <3>2. UsableNext(n) /\ ~failed[n] => Usable(n)
        BY <1>3 DEF Usable, UsableNext, Serving, ServingNext, FailedSetExact
      <3> QED
        BY <1>2, <3>1, <3>2
    <2>4. NoNewNode(t, s)
      BY <1>1, <1>3, <2>1, <2>2, <2>3 DEF NoNewNode
    <2> QED
      BY <1>1, <1>2, <2>4, CoveredTurn DEF SwitchesOn
  <1> QED
    BY <1>5, <1>6, <1>7

LEMMA CoveredTraffic ==
    ASSUME TypeOK, FailedSetExact, Covered, NEW t \in Thread, NEW n, NEW ok \in BOOLEAN,
           Request(t) \/ UpdateConfig(t) \/ StartAsync(t) \/ HandleFailure(t, n)
           \/ CheckNode(t, n, ok)
    PROVE  Covered'
  <1>1. /\ t \in Goroutine /\ thread[t].pc = "idle"
        /\ \A u \in Goroutine \ {t} : ReadyNext(thread[u])
    BY NobodyConcerned
    DEF Goroutine, Request, UpdateConfig, StartAsync, HandleFailure, CheckNode, Start
  <1>2. /\ lateChecks' = {}
        /\ "enable" \in Ops => pending' = {}
    BY DEF Covered, LoopQuiet, Request, UpdateConfig, StartAsync, HandleFailure, CheckNode,
           background
  <1>3. CASE Request(t) \/ StartAsync(t) \/ HandleFailure(t, n)
    <2>1. PICK s : Goto(t, s) /\ ReadyNext(s) /\ WillSelect(s)
      BY <1>3, NewStates DEF Request, StartAsync, HandleFailure, Continuation
    <2> QED
      BY <1>1, <1>2, <2>1, CoveredTurn DEF SwitchesOn
  <1>4. CASE CheckNode(t, n, ok)
    BY <1>1, <1>2, <1>4, CoveredCheck DEF CheckNode
  <1>5. CASE UpdateConfig(t)
    <2>1. PICK s : s = At("saveConfig", activeID, BlankRow, "done")
      OBVIOUS
    <2>2. /\ Goto(t, s)
          /\ UNCHANGED <<nodes, failed, disabled, failedSet, activeID, asyncSelects>>
      BY <1>5, <2>1 DEF UpdateConfig, memory, pool, background
    <2>3. ReadyNext(s)
      BY <2>1 DEF ReadyNext, Concerned, At
    <2>4. ~WillSelect(thread[t]) /\ \A m : ~Promoting(thread[t], m)
      BY <1>1, IdleSelectsNot
    <2>5. NoNewNode(t, s)
      BY <2>2, <2>4 DEF NoNewNode, Usable, UsableNext, Serving, ServingNext
    <2> QED
      BY <1>1, <1>2, <2>2, <2>3, <2>5, CoveredTurn DEF SwitchesOn
  <1> QED
    BY <1>3, <1>4, <1>5

LEMMA CoveredLoop ==
    ASSUME TypeOK, FailedSetExact, Covered, Loop
    PROVE  Covered'
  <1>1. CASE LoopStart
    <2>1. "enable" \notin Ops
      BY <1>1 DEF LoopStart, Covered, FailoverSetting, Serial
    <2> QED
      BY <1>1, <2>1, CoveredStays DEF LoopStart, memory, pool
  <1>2. ASSUME NEW n \in Node, NEW ok \in BOOLEAN, LoopCheck(n, ok) PROVE Covered'
    <2>1. "enable" \notin Ops /\ HealthLoop \in Goroutine
      BY <1>2 DEF LoopCheck, Covered, LoopQuiet, Goroutine
    <2>2. lateChecks' = {}
      BY <1>2 DEF LoopCheck, Covered
    <2>3. CASE n \in nodes
      BY <1>2, <2>1, <2>2, <2>3, CoveredCheck DEF LoopCheck
    <2>4. CASE n \notin nodes
      BY <1>2, <2>4, CoveredStays DEF LoopCheck, memory, pool
    <2> QED
      BY <2>3, <2>4
  <1> QED
    BY <1>1, <1>2 DEF Loop

(* The steps after the lock is released.                                   *)
LEMMA CoveredWrite ==
    ASSUME TypeOK, Covered, NEW t \in Goroutine,
           TakeSnapshot(t) \/ Persist(t) \/ PersistFails(t)
           \/ DeleteRow(t) \/ DeleteRowFails(t) \/ SaveConfig(t) \/ SaveConfigFails(t)
    PROVE  Covered'
  <1>1. /\ UNCHANGED <<nodes, failed, disabled, failedSet, activeID, pending, asyncSelects,
                       lateChecks>>
    BY DEF TakeSnapshot, Persist, PersistFails, DeleteRow, DeleteRowFails, SaveConfig,
           SaveConfigFails, memory, pool, background
  <1>2. /\ thread[t].pc # "idle"
        /\ \A u \in Goroutine \ {t} : ReadyNext(thread[u])
        /\ ReadyNext(thread[t])
    BY <1>1, OthersReady DEF TakeSnapshot, Persist, PersistFails, DeleteRow, DeleteRowFails,
                             SaveConfig, SaveConfigFails
  <1>3. /\ lateChecks' = {}
        /\ "enable" \in Ops => pending' = {} /\ t \in Thread
    BY <1>1, <1>2 DEF Covered, LoopQuiet, Goroutine
  <1>4. ASSUME NEW s, WillSelect(thread[t]) => WillSelect(s),
               \A n \in nodes : Promoting(thread[t], n) => WillSelect(s)
        PROVE  SwitchesOn(t, s)
    <2>1. ~WillSelect(s) => NoNewNode(t, s)
      BY <1>1, <1>4 DEF NoNewNode, Usable, UsableNext, Serving, ServingNext
    <2> QED
      BY <2>1 DEF SwitchesOn
  <1>5. CASE TakeSnapshot(t)
    <2> DEFINE s == At("persistStrict", thread[t].node, ToRecord(thread[t].node),
                       thread[t].then)
    <2>1. /\ Goto(t, s) /\ s.pc = "persistStrict" /\ s.node = thread[t].node
          /\ s.then = thread[t].then /\ s.skip = {} /\ thread[t].pc = "snapshot"
      BY <1>5 DEF TakeSnapshot, At
    <2> HIDE DEF s
    <2>2. PICK r : r = s
      OBVIOUS
    <2>3. ReadyNext(r)
      BY <1>2, <2>1, <2>2 DEF ReadyNext, Concerned
    <2>4. SwitchesOn(t, r)
      BY <1>4, <2>1, <2>2 DEF WillSelect, Promoting
    <2> QED
      BY <1>2, <1>3, <2>1, <2>2, <2>3, <2>4, CoveredTurn
  <1>6. CASE Persist(t) \/ (PersistFails(t) /\ thread[t].pc = "persist")
    <2>1. PICK s : s = Continue(thread[t])
      OBVIOUS
    <2>2. /\ Goto(t, s) \/ GotoUnwritten(t, s)
          /\ thread[t].pc \in {"persist", "persistStrict"}
      BY <1>6, <2>1 DEF Persist, PersistFails
    <2>3. ReadyNext(s)
      BY <1>2, <2>1, <2>2
      DEF ReadyNext, Concerned, Continue, Selecting, IdleThread, At
    <2>4. SwitchesOn(t, s)
      BY <1>4, <2>1, <2>2 DEF WillSelect, Promoting, Continue, Selecting, At
    <2> QED
      BY <1>2, <1>3, <2>2, <2>3, <2>4, CoveredTurn
  <1>7. CASE DeleteRow(t) \/ DeleteRowFails(t) \/ SaveConfig(t) \/ SaveConfigFails(t)
    <2>1. /\ Goto(t, IdleThread) \/ GotoUnwritten(t, IdleThread)
          /\ thread[t].pc \in {"deleteRow", "saveConfig"}
      BY <1>7 DEF DeleteRow, DeleteRowFails, SaveConfig, SaveConfigFails
    <2>2. ReadyNext(IdleThread) /\ SwitchesOn(t, IdleThread)
      BY <1>4, <2>1, IdleSelectsNot DEF ReadyNext, Concerned, IdleThread, At
    <2> QED
      BY <1>2, <1>3, <2>1, <2>2, CoveredTurn
  <1>8. CASE PersistFails(t) /\ thread[t].pc = "persistStrict"
    <2>1. GotoUnwritten(t, IdleThread) /\ StoreMayFail
      BY <1>8 DEF PersistFails
    <2>2. ~WillSelect(thread[t]) /\ \A n : ~Promoting(thread[t], n)
      BY <1>8, <2>1 DEF WillSelect, Promoting
    <2>3. ReadyNext(IdleThread) /\ SwitchesOn(t, IdleThread)
      BY <1>4, <2>2 DEF ReadyNext, Concerned, IdleThread, At
    <2> QED
      BY <1>2, <1>3, <2>1, <2>3, CoveredTurn
  <1> QED
    BY <1>5, <1>6, <1>7, <1>8 DEF PersistFails

(* A selection and the end of enableNode.                                  *)
LEMMA CoveredSelect ==
    ASSUME TypeOK, Covered, NEW t \in Goroutine, NEW n,
           SelectNone(t) \/ SelectAtOnce(t, n) \/ ActivateChosen(t)
           \/ CurrentNode(t) \/ DecideEnabled(t)
    PROVE  Covered'
  <1>1. UNCHANGED <<nodes, failed, disabled, failedSet, pending, asyncSelects, lateChecks>>
    BY DEF SelectNone, SelectAtOnce, ActivateChosen, CurrentNode, DecideEnabled, memory, pool,
           background
  <1>2. /\ thread[t].pc # "idle"
        /\ \A u \in Goroutine \ {t} : ReadyNext(thread[u])
        /\ ReadyNext(thread[t])
    BY <1>1, OthersReady DEF SelectNone, SelectAtOnce, ActivateChosen, CurrentNode,
                             DecideEnabled
  <1>3. /\ lateChecks' = {}
        /\ "enable" \in Ops => pending' = {} /\ t \in Thread
    BY <1>1, <1>2 DEF Covered, LoopQuiet, Goroutine
  <1>4. ASSUME NEW m PROVE ReadyNext(Selected(thread[t], m))
    BY <1>2 DEF ReadyNext, Concerned, Selected, Deciding, InSelection, IdleThread, At
  <1>5. CASE SelectNone(t)
    <2>1. PICK s : Goto(t, s) /\ ReadyNext(s)
      BY <1>4, <1>5 DEF SelectNone
    <2>2. \A m \in nodes' : ~UsableNext(m)
      BY <1>1, <1>2, <1>5
      DEF SelectNone, NoCandidate, ReadyNext, Usable, UsableNext, Serving, ServingNext
    <2> QED
      BY <1>2, <1>3, <2>1, <2>2, CoveredTurn DEF SwitchesOn
  <1>6. CASE SelectAtOnce(t, n)
    <2>1. PICK s : Goto(t, s) /\ ReadyNext(s)
      BY <1>4, <1>6 DEF SelectAtOnce
    <2>2. activeID' = n /\ ServingNext(n)
      BY <1>1, <1>6 DEF SelectAtOnce, SetActive, IsBest, Usable, Serving, ServingNext
    <2> QED
      BY <1>2, <1>3, <2>1, <2>2, CoveredTurn DEF SwitchesOn
  <1>7. CASE ActivateChosen(t)
    <2>1. PICK s : Goto(t, s) /\ ReadyNext(s)
      BY <1>4, <1>7 DEF ActivateChosen
    <2>2. PICK m : activeID' = m /\ ServingNext(m)
      BY <1>2, <1>7 DEF ActivateChosen, SetActive, ReadyNext
    <2> QED
      BY <1>2, <1>3, <2>1, <2>2, CoveredTurn DEF SwitchesOn
  <1>8. CASE CurrentNode(t)
    <2>1. CASE Serving(activeID)
      <3>1. PICK s : Goto(t, s) /\ ReadyNext(s)
        BY <1>4, <1>8, <2>1 DEF CurrentNode
      <3>2. ServingNext(activeID')
        BY <1>1, <1>8, <2>1 DEF CurrentNode, memory, pool, Serving, ServingNext
      <3> QED
        BY <1>2, <1>3, <3>1, <3>2, CoveredTurn DEF SwitchesOn
    <2>2. CASE ~Serving(activeID)
      <3>1. PICK s : s = InSelection(thread[t], "select", NoNode, {}, 0, 0)
        OBVIOUS
      <3>2. Goto(t, s) /\ ReadyNext(s) /\ WillSelect(s)
        BY <1>2, <1>8, <2>2, <3>1
        DEF CurrentNode, ReadyNext, Concerned, WillSelect, InSelection
      <3> QED
        BY <1>2, <1>3, <3>2, CoveredTurn DEF SwitchesOn
    <2> QED
      BY <2>1, <2>2
  <1>9. CASE DecideEnabled(t)
    <2>1. PICK s : s = IF Overrides(thread[t].node, thread[t].best)
                       THEN TakingOver(thread[t].node)
                       ELSE IdleThread
      OBVIOUS
    <2>2. Goto(t, s) /\ thread[t].pc = "decide" /\ activeID' = activeID
      BY <1>9, <2>1 DEF DecideEnabled, memory, pool
    <2>3. ReadyNext(s)
      BY <1>2, <2>1, <2>2
      DEF ReadyNext, Concerned, TakingOver, InSelection, IdleThread, At
    <2>4. ~WillSelect(thread[t]) /\ \A m : ~Promoting(thread[t], m)
      BY <2>2, IdleSelectsNot
    <2>5. NoNewNode(t, s)
      BY <1>1, <2>2, <2>4 DEF NoNewNode, Usable, UsableNext, Serving, ServingNext
    <2> QED
      BY <1>2, <1>3, <2>2, <2>3, <2>5, CoveredTurn DEF SwitchesOn
  <1> QED
    BY <1>5, <1>6, <1>7, <1>8, <1>9

LEMMA CoveredStep == TypeOK /\ FailedSetExact /\ Covered /\ [Next]_vars => Covered'
  <1> SUFFICES ASSUME TypeOK, FailedSetExact, Covered, [Next]_vars PROVE Covered'
    OBVIOUS
  <1>1. ASSUME NEW t \in Thread, Handle(t) PROVE Covered'
    <2>1. 1 \in Weight
      BY ConfigAssumption DEF Weight
    <2>2. ASSUME NEW n \in Node, NEW w \in Weight,
                 UpdateNode(t, n, w) \/ DeleteNode(t, n) \/ DisableNode(t, n)
                 \/ EnableNode(t, n)
          PROVE  Covered'
      BY <2>2, CoveredAdmin
    <2>3. ASSUME NEW n \in Node, NEW ok \in BOOLEAN,
                 HandleFailure(t, n) \/ CheckNode(t, n, ok)
          PROVE  Covered'
      BY <2>3, CoveredTraffic
    <2>4. ASSUME Request(t) \/ UpdateConfig(t) PROVE Covered'
      BY <2>4, CoveredTraffic
    <2>5. /\ \A n \in Node : ~Activate(t, n)
          /\ \A n \in Node, ok \in BOOLEAN : ~RecordMetrics(t, n, ok)
      BY DEF Activate, RecordMetrics, Start, Covered, FailoverSetting
    <2> QED
      BY <1>1, <2>1, <2>2, <2>3, <2>4, <2>5, CoveredAdd DEF Handle
  <1>2. ASSUME NEW t \in Thread, Background(t) PROVE Covered'
    <2>1. ASSUME StartAsync(t) PROVE Covered'
      BY <2>1, CoveredTraffic
    <2>2. ~\E n \in Node, ok \in BOOLEAN : LateCheck(t, n, ok)
      BY DEF LateCheck, Covered
    <2> QED
      BY <1>2, <2>1, <2>2 DEF Background
  <1>3. ASSUME NEW t \in Goroutine, Step(t) PROVE Covered'
    <2>1. ASSUME SelectNone(t) \/ ActivateChosen(t) \/ CurrentNode(t) \/ DecideEnabled(t)
          PROVE  Covered'
      BY <2>1, CoveredSelect
    <2>2. ASSUME NEW n \in Node, SelectAtOnce(t, n) PROVE Covered'
      BY <2>2, CoveredSelect
    <2>3. /\ \A n \in Node : ~SelectToWarm(t, n)
          /\ thread[t].pc \notin {"queued", "warm", "warmPersist"}
      BY DEF SelectToWarm, Covered, FailoverSetting, Ready, TypeOK, DataOK
    <2>4. /\ ~AcquireWarmupSlot(t) /\ ~WarmupPersist(t) /\ ~WarmupNodeGone(t)
          /\ ~WarmupTimeout(t) /\ \A ok \in BOOLEAN : ~WarmupCheck(t, ok)
      BY <2>3 DEF AcquireWarmupSlot, WarmupPersist, WarmupNodeGone, WarmupTimeout, WarmupCheck
    <2> QED
      BY <1>3, <2>1, <2>2, <2>3, <2>4, CoveredWrite DEF Step
  <1>4. ASSUME Loop PROVE Covered'
    BY <1>4, CoveredLoop
  <1>5. ASSUME Restart PROVE Covered'
    BY <1>5 DEF Restart, RestartWith, Covered, FailoverSetting
  <1>6. ASSUME UNCHANGED vars PROVE Covered'
    BY <1>6, CoveredStays DEF vars, memory, pool, background
  <1> QED
    BY <1>1, <1>2, <1>3, <1>4, <1>5, <1>6 DEF Next

LEMMA CoveredInit == FailoverSetting /\ InServiceInit => Covered
  <1> SUFFICES ASSUME FailoverSetting, InServiceInit PROVE Covered
    OBVIOUS
  <1>1. /\ \A t \in Goroutine : thread[t] = IdleThread
        /\ lateChecks = {} /\ pending = {} /\ HealthLoop \in Goroutine
    BY DEF InServiceInit, Init, Goroutine
  <1>2. /\ IdleThread.pc = "idle" /\ IdleThread.skip = {} /\ ~Concerned(IdleThread)
    BY DEF IdleThread, At, Concerned
  <1>3. \A t \in Goroutine : Ready(thread[t])
    BY <1>1, <1>2 DEF Ready
  <1>4. Switching
    BY DEF InServiceInit, InService, Switching
  <1> QED
    BY <1>1, <1>2, <1>3, <1>4 DEF Covered, LoopQuiet

(* When nothing is under way and some node is usable, the active node is   *)
(* in service: for any number of nodes and operations, from any database   *)
(* whose active node is in service, without warm-up; with database errors  *)
(* as long as no node is disabled or enabled.                              *)
THEOREM FailoverCompleteHolds == FailoverSetting /\ InServiceSpec => []FailoverComplete
  <1>1. Covered => FailoverComplete
    <2> SUFFICES ASSUME Covered, AllIdle, asyncSelects = 0, activeID \in nodes,
                        NEW n \in nodes, Usable(n), ~Serving(activeID)
                 PROVE  FALSE
      BY DEF FailoverComplete
    <2>1. \A t \in Goroutine : ~WillSelect(thread[t]) /\ ~Promoting(thread[t], n)
      BY IdleSelectsNot DEF AllIdle
    <2> QED
      BY <2>1 DEF Covered, Switching
  <1>2. InServiceSpec => Spec
    BY PTL DEF InServiceSpec, InServiceInit, Spec
  <1>3. InServiceSpec => InServiceInit /\ [][Next]_vars
    BY DEF InServiceSpec
  <1> QED
    BY <1>1, <1>2, <1>3, TypeCorrect, FailedSetExactHolds, CoveredInit, CoveredStep, PTL

=============================================================================
