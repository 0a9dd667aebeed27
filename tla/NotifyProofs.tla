------------------------------ MODULE NotifyProofs ------------------------------
(***************************************************************************)
(* Theorems about Notify, for any channels, events, workers, queue and     *)
(* window: type correctness, one attempt in a window, and no notification  *)
(* to a deleted channel of what came after the deletion.                   *)
(***************************************************************************)
EXTENDS Notify, TLAPS

SubRec == [id : Id, on : BOOLEAN] \cup {NoSub}

LEMMA IdFacts ==
    /\ MaxOps \in Nat /\ MaxEvents \in Nat /\ QueueSize \in Nat
    /\ DedupWindow \in Nat /\ SendTimeout \in Nat
    /\ Initial \in Id /\ NoId \notin Id
    /\ \A n \in 0 .. MaxOps : n < MaxOps => n + 1 \in Id /\ n + 1 \in 0 .. MaxOps
  <1> QED
    BY ConfigAssumption DEF Initial, Id, NoId

LEMMA IdleTypes == IdleWorker \in WorkerState /\ IdleOp \in OpState
  <1> QED
    BY IdFacts DEF IdleWorker, WorkerState, IdleOp, OpState

(* The queue is not longer than it may be, and what leaves it was in it.   *)
LEMMA QueueType ==
    ASSUME TypeOK, NEW type \in EventType, Publish(type)
    PROVE  queue' \in Seq(Event) /\ Len(queue') <= QueueSize /\ published' \in 0 .. MaxEvents
  <1>1. published' \in 1 .. MaxEvents
    BY IdFacts DEF Publish, TypeOK
  <1>2. [n |-> published + 1, type |-> type] \in Event
    BY <1>1 DEF Event, Publish
  <1> QED
    BY <1>1, <1>2, IdFacts DEF Publish, Room, TypeOK

LEMMA TakeType ==
    ASSUME TypeOK, queue # <<>>, queue' = Tail(queue)
    PROVE  Head(queue) \in Event /\ queue' \in Seq(Event) /\ Len(queue') <= QueueSize
  <1> QED
    BY IdFacts DEF TypeOK

(* What a worker is told to be.                                            *)
WorkerOK(r) ==
    /\ r \in WorkerState
    /\ r.pc # "idle" => r.event \in Event
    /\ r.pc = "send" <=> r.ch # NoChannel

LEMMA WorkerTypes ==
    TypeOK => worker \in [Worker -> WorkerState] /\ \A w \in Worker : WorkerOK(worker[w])
  <1> QED
    BY DEF TypeOK, WorkerOK

LEMMA IdleWorkerOK == WorkerOK(IdleWorker)
  <1> QED
    BY IdleTypes DEF WorkerOK, IdleWorker

LEMMA SetWorker ==
    ASSUME TypeOK, NEW w \in Worker, NEW r, WorkerOK(r), worker' = [worker EXCEPT ![w] = r]
    PROVE  /\ worker' \in [Worker -> WorkerState]
           /\ \A x \in Worker : WorkerOK(worker'[x])
           /\ worker'[w] = r /\ \A x \in Worker : x # w => worker'[x] = worker[x]
  <1> QED
    BY WorkerTypes DEF WorkerOK

WorkersOK ==
    /\ worker \in [Worker -> WorkerState]
    /\ \A w \in Worker : WorkerOK(worker[w])

LEMMA HandlingType ==
    ASSUME TypeOK, queue' \in Seq(Event), Len(queue') <= QueueSize,
           mark' \in [Key -> 0 .. DedupWindow], since' \in [Key -> 0 .. DedupWindow],
           WorkersOK', published' \in 0 .. MaxEvents, UNCHANGED editing
    PROVE  TypeOK'
  <1> QED
    BY DEF TypeOK, WorkersOK, WorkerOK, editing, rows

LEMMA WorkType ==
    ASSUME TypeOK, NEW w \in Worker, Work(w)
    PROVE  TypeOK'
  <1> USE HandlingType DEF editing, rows
  <1>0. WorkerOK(worker[w]) /\ worker[w] \in WorkerState
    BY WorkerTypes
  <1>1. CASE TakeEvent(w)
    <2> DEFINE r == [worker[w] EXCEPT !.pc = "list", !.event = Head(queue)]
    <2>1. Head(queue) \in Event /\ queue' \in Seq(Event) /\ Len(queue') <= QueueSize
      BY <1>1, TakeType DEF TakeEvent
    <2>2. WorkerOK(r)
      BY <1>0, <1>1, <2>1 DEF WorkerOK, WorkerState, TakeEvent
    <2>3. worker' = [worker EXCEPT ![w] = r]
      BY <1>1, WorkerTypes DEF TakeEvent
    <2> QED
      BY <1>1, <2>1, <2>2, <2>3, SetWorker DEF TakeEvent, WorkersOK, TypeOK
  <1>2. ASSUME Finish(w), UNCHANGED <<queue, mark, published, since, editing>>
        PROVE  TypeOK'
    BY <1>2, IdleWorkerOK, SetWorker DEF Finish, WorkersOK, WorkerOK, TypeOK
  <1>3. CASE ListFails(w)
    BY <1>2, <1>3 DEF ListFails, GiveUp, TypeOK
  <1>4. CASE ListSubscriptions(w)
    <2> DEFINE to == Subscribed(worker[w].event.type)
               r == [worker[w] EXCEPT !.pc = "next", !.to = to]
    <2>1. WorkerOK(r)
      BY <1>0, <1>4 DEF WorkerOK, WorkerState, ListSubscriptions, Subscribed
    <2>2. to # {} => worker' = [worker EXCEPT ![w] = r]
      BY <1>4, WorkerTypes DEF ListSubscriptions
    <2> QED
      BY <1>2, <1>4, <2>1, <2>2, SetWorker DEF ListSubscriptions, WorkersOK, TypeOK
  <1>5. ASSUME NEW c \in Channel, Suppress(w, c)
        PROVE  TypeOK'
    <2> DEFINE left == worker[w].to \ {c}
               r == [worker[w] EXCEPT !.to = left]
    <2>1. WorkerOK(r)
      BY <1>0, <1>5 DEF WorkerOK, WorkerState
    <2>2. left # {} => worker' = [worker EXCEPT ![w] = r]
      BY <1>5, WorkerTypes DEF Suppress
    <2> QED
      BY <1>2, <1>5, <2>1, <2>2, SetWorker DEF Suppress, WorkersOK, WorkerOK, TypeOK
  <1>6. ASSUME NEW c \in Channel, BeginSend(w, c)
        PROVE  TypeOK'
    <2> DEFINE r == [worker[w] EXCEPT !.pc = "send", !.to = @ \ {c}, !.ch = c]
    <2>1. worker[w].event \in Event /\ c # NoChannel
      BY <1>0, <1>6, ConfigAssumption DEF WorkerOK, BeginSend
    <2>2. WorkerOK(r)
      BY <1>0, <2>1 DEF WorkerOK, WorkerState
    <2>3. worker' = [worker EXCEPT ![w] = r]
      BY <1>6, WorkerTypes DEF BeginSend
    <2>4. mark' \in [Key -> 0 .. DedupWindow] /\ since' \in [Key -> 0 .. DedupWindow]
      <3>1. DedupKey(w, c) \in Key
        BY <2>1 DEF DedupKey, Key, Event
      <3> QED
        BY <1>6, <3>1, IdFacts DEF BeginSend, TypeOK
    <2> QED
      BY <1>6, <2>2, <2>3, <2>4, SetWorker DEF BeginSend, WorkersOK, WorkerOK, TypeOK
  <1>7. CASE EndSend(w)
    <2> DEFINE r == [worker[w] EXCEPT !.pc = "next", !.ch = NoChannel]
    <2>1. WorkerOK(r)
      BY <1>0, <1>7 DEF WorkerOK, WorkerState, EndSend
    <2>2. worker[w].to # {} => worker' = [worker EXCEPT ![w] = r]
      BY <1>7, WorkerTypes DEF EndSend
    <2> QED
      BY <1>2, <1>7, <2>1, <2>2, SetWorker DEF EndSend, WorkersOK, TypeOK
  <1> QED
    BY <1>1, <1>3, <1>4, <1>5, <1>6, <1>7 DEF Work


LEMMA TickType ==
    ASSUME TypeOK, Tick
    PROVE  TypeOK'
  <1>1. ASSUME NEW w \in Worker
        PROVE  worker'[w] \in WorkerState /\ WorkerOK(worker'[w])
    <2>1. WorkerOK(worker[w]) /\ worker[w] \in WorkerState
      BY WorkerTypes
    <2>2. CASE worker[w].pc = "idle"
      BY <2>1, <2>2 DEF Tick
    <2>3. CASE worker[w].pc # "idle"
      <3>1. worker[w].age \in 0 .. SendTimeout /\ worker[w].age < SendTimeout
        BY <2>1, <2>3 DEF Tick, WorkerState
      <3>2. worker[w].age + 1 \in 0 .. SendTimeout
        BY <3>1, IdFacts
      <3> QED
        BY <2>1, <2>3, <3>2 DEF Tick, WorkerState, WorkerOK
    <2> QED
      BY <2>2, <2>3
  <1>2. worker' \in [Worker -> WorkerState] /\ WorkersOK'
    BY <1>1 DEF Tick, WorkersOK
  <1>3. mark' \in [Key -> 0 .. DedupWindow] /\ since' \in [Key -> 0 .. DedupWindow]
    BY IdFacts DEF Tick, TypeOK
  <1> QED
    BY <1>2, <1>3, HandlingType DEF Tick, TypeOK

LEMMA PublishType ==
    ASSUME TypeOK, NEW type \in EventType, Publish(type)
    PROVE  TypeOK'
  <1>1. WorkersOK'
    BY WorkerTypes DEF Publish, WorkersOK
  <1> QED
    BY <1>1, QueueType, HandlingType DEF Publish, TypeOK

(* The handlers leave the queue and the workers alone.                     *)
LEMMA EditingType ==
    ASSUME TypeOK, UNCHANGED handling,
           channel' \in [Channel -> {"new", "on", "off", "deleted"}],
           sub' \in [Key -> SubRec], op' \in [Admin -> OpState],
           deletedAt' \in [Channel -> 0 .. MaxEvents], ops' \in 0 .. MaxOps
    PROVE  TypeOK'
  <1> QED
    BY DEF TypeOK, handling, SubRec

LEMMA BeginType ==
    ASSUME TypeOK, NEW a \in Admin, Begin(a)
    PROVE  ops + 1 \in Id /\ ops' \in 0 .. MaxOps
  <1> QED
    BY IdFacts DEF Begin, TypeOK

LEMMA EndType ==
    ASSUME TypeOK, NEW a \in Admin, End(a)
    PROVE  op' \in [Admin -> OpState]
  <1> QED
    BY IdleTypes DEF End, TypeOK

LEMMA SubscriptionType ==
    ASSUME TypeOK, NEW k \in Key, NEW id \in Id, NEW on \in BOOLEAN
    PROVE  Upserted(k, id, on) \in [Key -> SubRec]
  <1>1. sub[k] # NoSub => sub[k].id \in Id
    BY DEF TypeOK
  <1> QED
    BY <1>1 DEF Upserted, SubRec, TypeOK

(* What a handler remembers between its two statements.                    *)
LEMMA OpFields ==
    ASSUME TypeOK, NEW a \in Admin
    PROVE  /\ op[a].pc = "channel" => op[a].c \in Channel /\ op[a].on \in BOOLEAN
           /\ op[a].pc = "insert" =>
                 op[a] \in [pc : {"insert"}, c : Channel, types : SUBSET EventType,
                            on : BOOLEAN, id : Id]
           /\ op[a].pc = "sub" => op[a].key \in Key /\ op[a].id \in Id /\ op[a].on \in BOOLEAN
  <1> QED
    BY DEF TypeOK, OpState, IdleOp

LEMMA EditType ==
    ASSUME TypeOK, NEW a \in Admin, Edit(a)
    PROVE  TypeOK'
  <1> USE EditingType DEF rows
  <1>0. /\ channel \in [Channel -> {"new", "on", "off", "deleted"}]
        /\ sub \in [Key -> SubRec] /\ op \in [Admin -> OpState]
        /\ deletedAt \in [Channel -> 0 .. MaxEvents] /\ ops \in 0 .. MaxOps
        /\ published \in 0 .. MaxEvents
    BY DEF TypeOK, SubRec
  <1>1. ASSUME NEW c \in Channel, NEW on \in BOOLEAN, CreateChannel(a, c, on) PROVE TypeOK'
    BY <1>0, <1>1, BeginType DEF CreateChannel, State
  <1>2. ASSUME NEW c \in Channel, NEW on \in BOOLEAN, ReadChannel(a, c, on) PROVE TypeOK'
    <2>1. [pc |-> "channel", c |-> c, on |-> on] \in OpState
      BY DEF OpState
    <2> QED
      BY <1>0, <1>2, <2>1, BeginType DEF ReadChannel
  <1>3. ASSUME NEW c \in Channel, NEW types \in SUBSET EventType, NEW on \in BOOLEAN,
               ReadForSubscriptions(a, c, types, on)
        PROVE  TypeOK'
    <2>1. ops + 1 \in Id
      BY <1>3, BeginType DEF ReadForSubscriptions
    <2>2. [pc |-> "insert", c |-> c, types |-> types, on |-> on, id |-> ops + 1] \in OpState
      BY <2>1 DEF OpState
    <2> QED
      BY <1>0, <1>3, <2>2, BeginType DEF ReadForSubscriptions
  <1>4. ASSUME NEW c \in Channel, DeleteChannel(a, c) PROVE TypeOK'
    <2>1. Unsubscribed(c) \in [Key -> SubRec]
      BY <1>0 DEF Unsubscribed, SubRec
    <2> QED
      BY <1>0, <1>4, <2>1, BeginType DEF DeleteChannel
  <1>5. ASSUME NEW k \in Key, DeleteSubscription(a, k) PROVE TypeOK'
    BY <1>0, <1>5, BeginType DEF DeleteSubscription, SubRec
  <1>6. ASSUME NEW k \in Key, NEW on \in BOOLEAN, ReadSubscription(a, k, on) PROVE TypeOK'
    <2>1. sub[k].id \in Id
      BY <1>6 DEF ReadSubscription, TypeOK
    <2>2. [pc |-> "sub", key |-> k, id |-> sub[k].id, on |-> on] \in OpState
      BY <2>1 DEF OpState
    <2> QED
      BY <1>0, <1>6, <2>2, BeginType DEF ReadSubscription
  <1>7. ASSUME NEW type \in EventType, InsertSubscription(a, type) PROVE TypeOK'
    <2>1. /\ op[a].pc = "insert"
          /\ op[a] \in [pc : {"insert"}, c : Channel, types : SUBSET EventType,
                        on : BOOLEAN, id : Id]
      BY <1>7, OpFields DEF InsertSubscription
    <2>2. <<op[a].c, type>> \in Key
      BY <2>1 DEF Key
    <2>3. sub' \in [Key -> SubRec]
      BY <1>0, <1>7, <2>1, <2>2, SubscriptionType DEF InsertSubscription
    <2>4. op' \in [Admin -> OpState]
      <3>1. [op[a] EXCEPT !.types = @ \ {type}] \in OpState
        BY <2>1 DEF OpState
      <3>2. op' = [op EXCEPT ![a] = [op[a] EXCEPT !.types = @ \ {type}]] \/ End(a)
        BY <1>0, <1>7 DEF InsertSubscription
      <3> QED
        BY <1>0, <3>1, <3>2, EndType
    <2> QED
      BY <1>0, <1>7, <2>3, <2>4 DEF InsertSubscription
  <1>8. CASE UpdateChannel(a)
    <2>1. channel' \in [Channel -> {"new", "on", "off", "deleted"}]
      BY <1>0, <1>8, OpFields DEF UpdateChannel, Updated, State
    <2> QED
      BY <1>0, <1>8, <2>1, EndType DEF UpdateChannel
  <1>9. CASE UpdateSubscription(a)
    <2>1. sub' \in [Key -> SubRec]
      BY <1>0, <1>9, OpFields, SubscriptionType DEF UpdateSubscription
    <2> QED
      BY <1>0, <1>9, <2>1, EndType DEF UpdateSubscription
  <1> QED
    BY <1>1, <1>2, <1>3, <1>4, <1>5, <1>6, <1>7, <1>8, <1>9 DEF Edit

(* Types in every reachable state, whatever the parameters.                *)
THEOREM TypeCorrect == Spec => []TypeOK
  <1>1. Init => TypeOK
    <2> SUFFICES ASSUME Init PROVE TypeOK
      OBVIOUS
    <2>1. sub \in [Key -> SubRec]
      BY IdFacts DEF Init, SubRec
    <2>2. worker \in [Worker -> WorkerState] /\ \A w \in Worker : WorkerOK(worker[w])
      BY IdleWorkerOK, IdleTypes DEF Init
    <2>3. op \in [Admin -> OpState]
      BY IdleTypes DEF Init
    <2>4. channel \in [Channel -> {"new", "on", "off", "deleted"}]
      BY DEF Init
    <2>5. queue \in Seq(Event) /\ Len(queue) <= QueueSize
      BY IdFacts DEF Init
    <2>6. mark \in [Key -> 0 .. DedupWindow] /\ since \in [Key -> 0 .. DedupWindow]
      BY IdFacts DEF Init
    <2>7. /\ published \in 0 .. MaxEvents /\ ops \in 0 .. MaxOps
          /\ deletedAt \in [Channel -> 0 .. MaxEvents]
      BY IdFacts DEF Init
    <2> QED
      BY <2>1, <2>2, <2>3, <2>4, <2>5, <2>6, <2>7 DEF TypeOK, SubRec, WorkerOK
  <1>2. TypeOK /\ [Next]_vars => TypeOK'
    <2> SUFFICES ASSUME TypeOK, [Next]_vars PROVE TypeOK'
      OBVIOUS
    <2>1. CASE UNCHANGED vars
      BY <2>1 DEF vars, handling, editing, rows, TypeOK
    <2> QED
      BY <2>1, PublishType, WorkType, EditType, TickType DEF Next
  <1> QED
    BY <1>1, <1>2, PTL DEF Spec


------------------------------------------------------------------------------
(* OncePerWindow: the mark of a key and the time since the last attempt on *)
(* it always make up a window.                                             *)

Window == \A k \in Key : mark[k] + since[k] = DedupWindow

LEMMA WindowStep ==
    ASSUME TypeOK, Window, [Next]_vars
    PROVE  Window'
  <1>1. CASE UNCHANGED <<mark, since>>
    BY <1>1 DEF Window
  <1>2. ASSUME NEW w \in Worker, NEW c \in Channel, BeginSend(w, c)
        PROVE  Window'
    BY <1>2, IdFacts DEF Window, BeginSend, TypeOK
  <1>3. CASE Tick
    BY <1>3, IdFacts DEF Window, Tick, TypeOK
  <1> QED
    BY <1>1, <1>2, <1>3
    DEF Next, Work, Edit, vars, handling, editing, Publish, TakeEvent, ListFails,
        ListSubscriptions, EndSend, Suppress, CreateChannel, ReadChannel,
        ReadForSubscriptions, DeleteChannel, DeleteSubscription, ReadSubscription,
        InsertSubscription, UpdateChannel, UpdateSubscription

(* A worker that begins to send has found the window over, and one that    *)
(* skips a channel has found it open.                                      *)
LEMMA OnlyInWindow ==
    ASSUME TypeOK, Window, Next, NEW w \in Worker, NEW k \in Key
    PROVE  /\ Begins(w, k) => since[k] >= DedupWindow
           /\ Skips(w, k) => since[k] < DedupWindow
  <1>0. /\ mark[k] \in 0 .. DedupWindow /\ since[k] \in 0 .. DedupWindow
        /\ mark[k] + since[k] = DedupWindow
        /\ DedupWindow \in Nat
    BY IdFacts DEF TypeOK, Window
  <1>1. mark[k] = 0 => since[k] >= DedupWindow
    BY <1>0
  <1>2. mark[k] # 0 => since[k] < DedupWindow
    BY <1>0
  <1>3. CASE worker'[w] = worker[w]
    BY <1>3 DEF Begins, Skips
  <1>4. CASE Work(w) /\ worker'[w] # worker[w]
    <2>1. CASE TakeEvent(w) \/ ListFails(w) \/ ListSubscriptions(w) \/ EndSend(w)
      BY <2>1 DEF TakeEvent, ListFails, ListSubscriptions, EndSend, Begins, Skips
    <2>2. ASSUME NEW c \in Channel, Suppress(w, c), Begins(w, k) \/ Skips(w, k)
          PROVE  k = DedupKey(w, c) /\ worker'[w].pc # "send"
      <3> DEFINE left == worker[w].to \ {c}
      <3>1. CASE left = {}
        <4>1. worker'[w] = IdleWorker /\ worker[w].to = {c}
          BY <2>2, <3>1, WorkerTypes DEF Suppress, Finish
        <4> QED
          BY <2>2, <4>1 DEF Begins, Skips, IdleWorker, DedupKey, Key
      <3>2. CASE left # {}
        <4>1. worker'[w] = [worker[w] EXCEPT !.to = left]
          BY <2>2, <3>2, WorkerTypes DEF Suppress
        <4>2. worker'[w].pc = "next" /\ worker'[w].to = left
          BY <2>2, <4>1, WorkerTypes DEF WorkerState, Suppress
        <4> QED
          BY <2>2, <4>2 DEF Begins, Skips, DedupKey, Key
      <3> QED
        BY <3>1, <3>2
    <2>3. ASSUME NEW c \in Channel, Suppress(w, c), Begins(w, k) \/ Skips(w, k)
          PROVE  since[k] < DedupWindow /\ ~Begins(w, k)
      BY <1>2, <2>2, <2>3 DEF Suppress, WindowOver, Begins
    <2>4. ASSUME NEW c \in Channel, BeginSend(w, c), Begins(w, k) \/ Skips(w, k)
          PROVE  since[k] >= DedupWindow /\ ~Skips(w, k)
      <3>1. worker'[w].pc = "send" /\ worker'[w].ch = c
        BY <2>4, WorkerTypes DEF BeginSend, WorkerState
      <3>2. k = DedupKey(w, c)
        BY <2>4, <3>1 DEF Begins, Skips, DedupKey
      <3> QED
        BY <1>1, <2>4, <3>1, <3>2 DEF BeginSend, WindowOver, Skips
    <2> QED
      BY <1>4, <2>1, <2>3, <2>4 DEF Work
  <1>5. ASSUME NEW x \in Worker, x # w, Work(x) PROVE worker'[w] = worker[w]
    BY <1>5, WorkerTypes
    DEF Work, TakeEvent, ListFails, GiveUp, ListSubscriptions, EndSend, Suppress, BeginSend,
        Finish
  <1>6. CASE Tick
    <2>1. worker'[w].pc = worker[w].pc
      BY <1>6, WorkerTypes DEF Tick, WorkerState
    <2>2. worker'[w].to = worker[w].to
      BY <1>6, WorkerTypes DEF Tick, WorkerState
    <2> QED
      BY <2>1, <2>2 DEF Begins, Skips
  <1>7. ASSUME NEW type \in EventType, Publish(type) PROVE worker'[w] = worker[w]
    BY <1>7 DEF Publish
  <1>8. ASSUME NEW a \in Admin, Edit(a) PROVE worker'[w] = worker[w]
    BY <1>8 DEF Edit, handling, CreateChannel, ReadChannel, ReadForSubscriptions,
       DeleteChannel, DeleteSubscription, ReadSubscription, InsertSubscription,
       UpdateChannel, UpdateSubscription
  <1> QED
    BY <1>3, <1>4, <1>5, <1>6, <1>7, <1>8 DEF Next

(* An attempt on a channel begins a whole window after the last one with   *)
(* the same event, and nothing is suppressed outside of a window.          *)
THEOREM OncePerWindowHolds == Spec => OncePerWindow
  <1>1. Init => Window
    BY IdFacts DEF Init, Window
  <1>2. TypeOK /\ Window /\ [Next]_vars => Window'
    BY WindowStep
  <1>3. TypeOK /\ Window /\ [Next]_vars =>
            [\A w \in Worker, k \in Key :
                /\ Begins(w, k) => since[k] >= DedupWindow
                /\ Skips(w, k) => since[k] < DedupWindow]_vars
    BY OnlyInWindow
  <1> QED
    BY <1>1, <1>2, <1>3, TypeCorrect, PTL DEF Spec, OncePerWindow

------------------------------------------------------------------------------
(* QuietAfterDelete: who holds an event holds one that came before the     *)
(* deletion of the channels it is meant for.                               *)

HeldOK(r) ==
    /\ r.pc = "idle" => r.to = {}
    /\ r.pc # "idle" =>
          /\ r.event.n <= published
          /\ \A c \in r.to : r.event.n <= deletedAt[c]
          /\ r.pc = "send" => r.event.n <= deletedAt[r.ch]

QueueBefore == \A i \in 1 .. Len(queue) : queue[i].n <= published
AliveUnmarked == \A c \in Channel : channel[c] # "deleted" => deletedAt[c] = MaxEvents

Before ==
    /\ QueueBefore
    /\ AliveUnmarked
    /\ \A w \in Worker : HeldOK(worker[w])

LEMMA IdleHeld == HeldOK(IdleWorker) /\ HeldOK(IdleWorker)'
  <1> QED
    BY DEF HeldOK, IdleWorker

(* Numbers of events that are held.                                        *)
LEMMA HeldNumbers ==
    ASSUME TypeOK, NEW w \in Worker, worker[w].pc # "idle"
    PROVE  worker[w].event \in Event /\ worker[w].event.n \in 1 .. MaxEvents
  <1> QED
    BY WorkerTypes DEF WorkerOK, Event

LEMMA WorkBefore ==
    ASSUME TypeOK, Before, NEW w \in Worker, Work(w)
    PROVE  Before'
  <1> USE DEF editing, rows
  <1>0. HeldOK(worker[w]) /\ UNCHANGED <<published, channel, deletedAt>>
    BY DEF Before, Work, TakeEvent, ListFails, ListSubscriptions, EndSend, Suppress, BeginSend
  <1>1. ASSUME NEW r, HeldOK(r), worker' = [worker EXCEPT ![w] = r], QueueBefore'
        PROVE  Before'
    <2>1. \A x \in Worker : HeldOK(worker'[x])
      BY <1>1, WorkerTypes DEF Before
    <2> QED
      BY <1>0, <1>1, <2>1 DEF Before, AliveUnmarked, HeldOK
  <1>2. ASSUME Finish(w), UNCHANGED queue PROVE Before'
    BY <1>0, <1>1, <1>2, IdleHeld DEF Finish, Before, QueueBefore
  <1>3. queue' = queue => QueueBefore'
    BY <1>0 DEF Before, QueueBefore
  <1>4. CASE TakeEvent(w)
    <2> DEFINE r == [worker[w] EXCEPT !.pc = "list", !.event = Head(queue)]
    <2>1. queue \in Seq(Event) /\ queue # <<>> /\ queue' = Tail(queue)
      BY <1>4 DEF TakeEvent, TypeOK
    <2>2. Head(queue) = queue[1] /\ Len(queue) >= 1
      BY <2>1
    <2>3. Head(queue).n <= published
      BY <2>1, <2>2 DEF Before, QueueBefore
    <2>4. Len(queue') = Len(queue) - 1 /\ \A i \in 1 .. Len(queue') : queue'[i] = queue[i + 1]
      BY <2>1
    <2>5. QueueBefore'
      BY <1>0, <2>1, <2>4 DEF Before, QueueBefore
    <2>6. worker[w].to = {}
      BY <1>0, <1>4 DEF TakeEvent, HeldOK
    <2>7. HeldOK(r)
      BY <2>3, <2>6, WorkerTypes DEF HeldOK, WorkerState
    <2>8. worker' = [worker EXCEPT ![w] = r]
      BY <1>4, WorkerTypes DEF TakeEvent
    <2> QED
      BY <1>1, <2>5, <2>7, <2>8
  <1>5. CASE ListFails(w)
    BY <1>2, <1>5 DEF ListFails, GiveUp
  <1>6. CASE ListSubscriptions(w)
    <2> DEFINE to == Subscribed(worker[w].event.type)
               r == [worker[w] EXCEPT !.pc = "next", !.to = to]
    <2>1. \A c \in to : deletedAt[c] = MaxEvents
      BY DEF Before, AliveUnmarked, Subscribed
    <2>2. worker[w].event.n <= MaxEvents /\ worker[w].event.n <= published
      BY <1>0, <1>6, HeldNumbers, IdFacts DEF HeldOK, ListSubscriptions
    <2>3. HeldOK(r)
      BY <2>1, <2>2, WorkerTypes DEF HeldOK, WorkerState
    <2>4. to # {} => worker' = [worker EXCEPT ![w] = r]
      BY <1>6, WorkerTypes DEF ListSubscriptions
    <2> QED
      BY <1>1, <1>2, <1>3, <1>6, <2>3, <2>4 DEF ListSubscriptions
  <1>7. ASSUME NEW c \in Channel, Suppress(w, c) PROVE Before'
    <2> DEFINE r == [worker[w] EXCEPT !.to = @ \ {c}]
    <2>1. HeldOK(r)
      BY <1>0, <1>7, WorkerTypes DEF HeldOK, WorkerState, Suppress
    <2>2. worker' = [worker EXCEPT ![w] = r] \/ Finish(w)
      BY <1>7, WorkerTypes DEF Suppress
    <2> QED
      BY <1>1, <1>2, <1>3, <1>7, <2>1, <2>2 DEF Suppress
  <1>8. ASSUME NEW c \in Channel, BeginSend(w, c) PROVE Before'
    <2> DEFINE r == [worker[w] EXCEPT !.pc = "send", !.to = @ \ {c}, !.ch = c]
    <2>1. HeldOK(r)
      BY <1>0, <1>8, WorkerTypes DEF HeldOK, WorkerState, BeginSend
    <2>2. worker' = [worker EXCEPT ![w] = r]
      BY <1>8, WorkerTypes DEF BeginSend
    <2> QED
      BY <1>1, <1>3, <1>8, <2>1, <2>2 DEF BeginSend
  <1>9. CASE EndSend(w)
    <2> DEFINE r == [worker[w] EXCEPT !.pc = "next", !.ch = NoChannel]
    <2>1. HeldOK(r)
      BY <1>0, <1>9, WorkerTypes DEF HeldOK, WorkerState, EndSend
    <2>2. worker' = [worker EXCEPT ![w] = r] \/ Finish(w)
      BY <1>9, WorkerTypes DEF EndSend
    <2> QED
      BY <1>1, <1>2, <1>3, <1>9, <2>1, <2>2 DEF EndSend
  <1> QED
    BY <1>4, <1>5, <1>6, <1>7, <1>8, <1>9 DEF Work

LEMMA PublishBefore ==
    ASSUME TypeOK, Before, NEW type \in EventType, Publish(type)
    PROVE  Before'
  <1> USE DEF editing, rows
  <1>1. published \in Nat /\ published' = published + 1 /\ queue \in Seq(Event)
        /\ UNCHANGED <<worker, channel, deletedAt>>
    BY IdFacts DEF Publish, TypeOK
  <1>2. QueueBefore'
    <2>1. \A i \in 1 .. Len(queue) : queue[i].n \in Nat /\ queue[i].n <= published
      <3>1. \A i \in 1 .. Len(queue) : queue[i] \in Event
        BY <1>1
      <3> QED
        BY <3>1 DEF Before, QueueBefore, Event
    <2>2. CASE Room
      <3> DEFINE e == [n |-> published + 1, type |-> type]
      <3>1. queue' = Append(queue, e)
        BY <2>2 DEF Publish
      <3>2. \A i \in 1 .. Len(queue') : i \in 1 .. Len(queue) \/ queue'[i] = e
        BY <1>1, <3>1
      <3>3. \A i \in 1 .. Len(queue) : queue'[i] = queue[i]
        BY <1>1, <3>1
      <3> QED
        BY <1>1, <2>1, <3>2, <3>3 DEF QueueBefore
    <2>3. CASE ~Room
      BY <1>1, <2>1, <2>3 DEF QueueBefore, Publish
    <2> QED
      BY <2>2, <2>3
  <1>3. ASSUME NEW w \in Worker PROVE HeldOK(worker[w])'
    <2>1. HeldOK(worker[w])
      BY DEF Before
    <2>2. worker[w].pc # "idle" => worker[w].event.n \in Nat
      BY HeldNumbers
    <2> QED
      BY <1>1, <2>1, <2>2 DEF HeldOK
  <1> QED
    BY <1>1, <1>2, <1>3 DEF Before, AliveUnmarked

(* A handler revives no deleted channel, and deletes one only after        *)
(* everything that has been published.                                     *)
LEMMA EditBefore ==
    ASSUME TypeOK, Before, NEW a \in Admin, Edit(a)
    PROVE  Before'
  <1> USE DEF rows
  <1>1. UNCHANGED <<queue, worker, published>>
    BY DEF Edit, handling, CreateChannel, ReadChannel, ReadForSubscriptions, DeleteChannel,
       DeleteSubscription, ReadSubscription, InsertSubscription, UpdateChannel,
       UpdateSubscription
  <1>2. CASE /\ UNCHANGED deletedAt
             /\ \A c \in Channel : channel[c] = "deleted" => channel'[c] = "deleted"
    BY <1>1, <1>2 DEF Before, QueueBefore, AliveUnmarked, HeldOK
  <1>3. ASSUME NEW c \in Channel, DeleteChannel(a, c) PROVE Before'
    <2>1. deletedAt' = [deletedAt EXCEPT ![c] = published] /\ channel'[c] = "deleted"
          /\ \A d \in Channel : d # c => channel'[d] = channel[d]
      BY <1>3 DEF DeleteChannel, TypeOK
    <2>2. AliveUnmarked'
      BY <2>1 DEF Before, AliveUnmarked, TypeOK
    <2>3. ASSUME NEW w \in Worker PROVE HeldOK(worker[w])'
      <3>1. HeldOK(worker[w])
        BY DEF Before
      <3>2. worker[w].to \subseteq Channel /\ (worker[w].pc = "send" => worker[w].ch \in Channel)
        BY WorkerTypes DEF WorkerOK, WorkerState
      <3> QED
        BY <1>1, <2>1, <3>1, <3>2 DEF HeldOK, TypeOK
    <2> QED
      BY <1>1, <2>2, <2>3 DEF Before, QueueBefore
  <1>4. CASE UpdateChannel(a)
    BY <1>2, <1>4, OpFields DEF UpdateChannel, Updated, Exists, TypeOK
  <1>5. ASSUME NEW c \in Channel, NEW on \in BOOLEAN, CreateChannel(a, c, on) PROVE Before'
    BY <1>2, <1>5 DEF CreateChannel, TypeOK
  <1> QED
    BY <1>2, <1>3, <1>4, <1>5 DEF Edit, ReadChannel, ReadForSubscriptions,
       DeleteSubscription, ReadSubscription, InsertSubscription, UpdateSubscription

LEMMA TickBefore ==
    ASSUME TypeOK, Before, Tick
    PROVE  Before'
  <1> USE DEF editing, rows
  <1>1. ASSUME NEW w \in Worker PROVE HeldOK(worker[w])'
    <2>1. /\ worker'[w].pc = worker[w].pc /\ worker'[w].event = worker[w].event
          /\ worker'[w].to = worker[w].to /\ worker'[w].ch = worker[w].ch
      BY WorkerTypes DEF Tick, WorkerState
    <2>2. HeldOK(worker[w])
      BY DEF Before
    <2> QED
      BY <2>1, <2>2 DEF HeldOK, Tick
  <1> QED
    BY <1>1 DEF Before, QueueBefore, AliveUnmarked, Tick

(* What is published after the deletion of a channel is never sent there.  *)
THEOREM QuietAfterDeleteHolds == Spec => []QuietAfterDelete
  <1>1. Init => Before
    <2> SUFFICES ASSUME Init PROVE Before
      OBVIOUS
    <2>1. \A w \in Worker : HeldOK(worker[w])
      BY IdleHeld DEF Init
    <2>2. QueueBefore /\ AliveUnmarked
      BY DEF Init, QueueBefore, AliveUnmarked
    <2> QED
      BY <2>1, <2>2 DEF Before
  <1>2. TypeOK /\ Before /\ [Next]_vars => Before'
    <2> SUFFICES ASSUME TypeOK, Before, [Next]_vars PROVE Before'
      OBVIOUS
    <2>1. CASE UNCHANGED vars
      BY <2>1 DEF vars, handling, editing, rows, Before, QueueBefore, AliveUnmarked, HeldOK
    <2> QED
      BY <2>1, PublishBefore, WorkBefore, EditBefore, TickBefore DEF Next
  <1>3. Before => QuietAfterDelete
    BY DEF Before, HeldOK, QuietAfterDelete
  <1> QED
    BY <1>1, <1>2, <1>3, TypeCorrect, PTL DEF Spec

=============================================================================
