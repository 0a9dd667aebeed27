--------------------------------- MODULE Notify ---------------------------------
(***************************************************************************)
(* Notifications of one account: notify/manager.go, the handlers of        *)
(* api_notification.go and the tables of store/notification.go.            *)
(*                                                                         *)
(* Any part of the server publishes events into one bounded queue, which   *)
(* drops what does not fit.  Workers take them out, list the channels that *)
(* subscribe to the event, and send to each one unless the same event was  *)
(* sent there less than a window ago.  Administrators change channels and  *)
(* subscriptions meanwhile, reading a row in one statement and writing it  *)
(* in the next.                                                            *)
(*                                                                         *)
(* An event is its type with its deduplication key; time advances in ticks *)
(* of which DedupWindow is a small number.                                 *)
(***************************************************************************)
EXTENDS Naturals, Sequences

CONSTANTS
    Channel,        \* channels that are created, each once
    NoChannel,
    EventType,
    Worker, Admin,
    QueueSize,
    DedupWindow,
    SendTimeout,    \* for the handling of one event, in ticks
    MySQL,          \* or SQLite
    ForeignKeys,    \* enforced by the connections of the database
    MaxEvents, MaxOps       \* bounds of the model

ASSUME ConfigAssumption ==
    /\ NoChannel \notin Channel
    /\ QueueSize \in Nat
    /\ DedupWindow \in Nat /\ SendTimeout \in Nat /\ SendTimeout < DedupWindow
    /\ MySQL \in BOOLEAN /\ ForeignKeys \in BOOLEAN
    /\ MaxEvents \in Nat /\ MaxOps \in Nat

Key == Channel \X EventType
NoId == 0
Initial == MaxOps + 1
Id == 1 .. Initial

VARIABLES
    channel,        \* rows of notification_channels
    sub,            \* rows of notification_subscriptions, one for each key
    queue,          \* m.queue: numbers and types of events
    mark,           \* what is left of the window of m.lastNotify[key]
    worker, op,     \* where each goroutine is
    published,      \* events so far
    since,          \* ticks since the last attempt on a key
    deletedAt,      \* events published when a channel was deleted
    ops

rows == <<channel, sub>>
handling == <<queue, mark, worker, published, since>>
editing == <<rows, op, deletedAt, ops>>
vars == <<handling, editing>>

Exists(c) == channel[c] \in {"on", "off"}
State(on) == IF on THEN "on" ELSE "off"
NoSub == [id |-> NoId, on |-> FALSE]

Event == [n : 1 .. MaxEvents, type : EventType]
IdleWorker == [pc |-> "idle", event |-> <<>>, to |-> {}, ch |-> NoChannel, age |-> 0]
IdleOp == [pc |-> "idle"]

------------------------------------------------------------------------------
(* Publish, and the workers.                                               *)

Room == Len(queue) < QueueSize

(* A full queue drops the event.                                           *)
Publish(type) ==
    /\ published < MaxEvents
    /\ published' = published + 1
    /\ queue' = IF Room THEN Append(queue, [n |-> published + 1, type |-> type]) ELSE queue
    /\ UNCHANGED <<mark, worker, since, editing>>

TakeEvent(w) ==
    /\ worker[w].pc = "idle"
    /\ queue # <<>>
    /\ queue' = Tail(queue)
    /\ worker' = [worker EXCEPT ![w].pc = "list", ![w].event = Head(queue)]
    /\ UNCHANGED <<mark, published, since, editing>>

Finish(w) == worker' = [worker EXCEPT ![w] = IdleWorker]

SubscribedAlone(type) == {c \in Channel : sub[<<c, type>>].on}

(* The join of both tables.                                                *)
Subscribed(type) == {c \in Channel : channel[c] = "on" /\ sub[<<c, type>>].on}

Requeue(w) ==
    /\ Finish(w)
    /\ queue' = IF Room THEN Append(queue, worker[w].event) ELSE queue

(* An event whose channels cannot be listed is given up.                   *)
GiveUp(w) ==
    /\ Finish(w)
    /\ UNCHANGED queue

ListFails(w) ==
    /\ worker[w].pc = "list"
    /\ GiveUp(w)
    /\ UNCHANGED <<mark, published, since, editing>>

ListSubscriptions(w) ==
    LET to == Subscribed(worker[w].event.type)
    IN  /\ worker[w].pc = "list"
        /\ IF to = {} THEN Finish(w)
           ELSE worker' = [worker EXCEPT ![w].pc = "next", ![w].to = to]
        /\ UNCHANGED <<queue, mark, published, since, editing>>

DedupKey(w, c) == <<c, worker[w].event.type>>

WindowOverEarly(k) == mark[k] <= 1
WindowOver(k) == mark[k] = 0

(* shouldSend refuses and leaves the mark as it is.                        *)
Suppress(w, c) ==
    LET left == worker[w].to \ {c}
    IN  /\ worker[w].pc = "next"
        /\ c \in worker[w].to
        /\ ~WindowOver(DedupKey(w, c))
        /\ IF left = {} THEN Finish(w) ELSE worker' = [worker EXCEPT ![w].to = left]
        /\ UNCHANGED <<queue, mark, published, since, editing>>

(* shouldSend sets the mark in the critical section that found it over,    *)
(* before anything is sent: what fails is not tried again in the window.   *)
BeginSend(w, c) ==
    LET k == DedupKey(w, c)
    IN  /\ worker[w].pc = "next"
        /\ c \in worker[w].to
        /\ WindowOver(k)
        /\ mark' = [mark EXCEPT ![k] = DedupWindow]
        /\ since' = [since EXCEPT ![k] = 0]
        /\ worker' = [worker EXCEPT ![w].pc = "send", ![w].to = @ \ {c}, ![w].ch = c]
        /\ UNCHANGED <<queue, published, editing>>

(* Sent or failed, with a row of history if that can be written: neither   *)
(* is looked at again.                                                     *)
EndSend(w) ==
    /\ worker[w].pc = "send"
    /\ IF worker[w].to = {} THEN Finish(w)
       ELSE worker' = [worker EXCEPT ![w].pc = "next", ![w].ch = NoChannel]
    /\ UNCHANGED <<queue, mark, published, since, editing>>

(* One context of SendTimeout serves a whole event, so no worker is at one *)
(* for longer.                                                             *)
Tick ==
    /\ \A w \in Worker : worker[w].pc # "idle" => worker[w].age < SendTimeout
    /\ worker' = [w \in Worker |-> IF worker[w].pc = "idle" THEN worker[w]
                                   ELSE [worker[w] EXCEPT !.age = @ + 1]]
    /\ mark' = [k \in Key |-> IF mark[k] = 0 THEN 0 ELSE mark[k] - 1]
    /\ since' = [k \in Key |-> IF since[k] = DedupWindow THEN since[k] ELSE since[k] + 1]
    /\ UNCHANGED <<queue, published, editing>>

------------------------------------------------------------------------------
(* The handlers.                                                           *)

Begin(a) ==
    /\ op[a] = IdleOp
    /\ ops < MaxOps
    /\ ops' = ops + 1

End(a) == op' = [op EXCEPT ![a] = IdleOp]

CreateChannel(a, c, on) ==
    /\ Begin(a)
    /\ channel[c] = "new"
    /\ channel' = [channel EXCEPT ![c] = State(on)]
    /\ UNCHANGED <<handling, sub, op, deletedAt>>

(* GetNotificationChannel; the whole row is written back later.            *)
ReadChannel(a, c, on) ==
    /\ Begin(a)
    /\ Exists(c)
    /\ op' = [op EXCEPT ![a] = [pc |-> "channel", c |-> c, on |-> on]]
    /\ UNCHANGED <<handling, rows, deletedAt>>

(* UPDATE ... WHERE id: nothing is written to a channel that is gone.      *)
Updated(c, on) == IF Exists(c) THEN [channel EXCEPT ![c] = State(on)] ELSE channel

UpdateChannel(a) ==
    /\ op[a].pc = "channel"
    /\ channel' = Updated(op[a].c, op[a].on)
    /\ End(a)
    /\ UNCHANGED <<handling, sub, deletedAt, ops>>

(* One transaction with the subscriptions.                                 *)
Unsubscribed(c) == [k \in Key |-> IF k[1] = c THEN NoSub ELSE sub[k]]

DeleteChannel(a, c) ==
    /\ Begin(a)
    /\ Exists(c)
    /\ channel' = [channel EXCEPT ![c] = "deleted"]
    /\ sub' = Unsubscribed(c)
    /\ deletedAt' = [deletedAt EXCEPT ![c] = published]
    /\ UNCHANGED <<handling, op>>

(* The channel is looked at once, then one row after the other is written. *)
ReadForSubscriptions(a, c, types, on) ==
    /\ Begin(a)
    /\ Exists(c)
    /\ op' = [op EXCEPT ![a] = [pc |-> "insert", c |-> c, types |-> types, on |-> on,
                                id |-> ops + 1]]
    /\ UNCHANGED <<handling, rows, deletedAt>>

InsertAllowed(k) ==
    /\ ForeignKeys => Exists(k[1])
    /\ MySQL \/ sub[k] = NoSub

UpsertedWithoutId(k, id, on) == [sub EXCEPT ![k] = [id |-> @.id, on |-> on]]

(* UpsertNotificationSubscription with a new id.  MySQL updates the row    *)
(* that has the key already and keeps its id; SQLite refuses it.           *)
Upserted(k, id, on) ==
    [sub EXCEPT ![k] = [id |-> IF @ = NoSub THEN id ELSE @.id, on |-> on]]

InsertSubscription(a, type) ==
    LET k == <<op[a].c, type>>
        left == op[a].types \ {type}
    IN  /\ op[a].pc = "insert"
        /\ type \in op[a].types
        /\ sub' = IF InsertAllowed(k) THEN Upserted(k, op[a].id, op[a].on) ELSE sub
        /\ IF left = {} \/ ~InsertAllowed(k) THEN End(a)
           ELSE op' = [op EXCEPT ![a].types = left]
        /\ UNCHANGED <<handling, channel, deletedAt, ops>>

ReadSubscription(a, k, on) ==
    /\ Begin(a)
    /\ sub[k] # NoSub
    /\ op' = [op EXCEPT ![a] = [pc |-> "sub", key |-> k, id |-> sub[k].id, on |-> on]]
    /\ UNCHANGED <<handling, rows, deletedAt>>

(* The same upsert: a row deleted meanwhile is inserted again.             *)
UpdateSubscription(a) ==
    LET k == op[a].key
    IN  /\ op[a].pc = "sub"
        /\ sub' = IF sub[k].id = op[a].id \/ InsertAllowed(k)
                  THEN Upserted(k, op[a].id, op[a].on) ELSE sub
        /\ End(a)
        /\ UNCHANGED <<handling, channel, deletedAt, ops>>

(* Read for its account, and deleted by its id.                            *)
DeleteSubscription(a, k) ==
    /\ Begin(a)
    /\ sub[k] # NoSub
    /\ sub' = [sub EXCEPT ![k] = NoSub]
    /\ UNCHANGED <<handling, channel, op, deletedAt>>

------------------------------------------------------------------------------

Init ==
    /\ channel \in {[c \in Channel |-> state] : state \in {"new", "on"}}
    /\ sub = [k \in Key |-> IF channel[k[1]] = "on" THEN [id |-> Initial, on |-> TRUE]
                                                    ELSE NoSub]
    /\ queue = <<>>
    /\ mark = [k \in Key |-> 0]
    /\ worker = [w \in Worker |-> IdleWorker]
    /\ op = [a \in Admin |-> IdleOp]
    /\ published = 0
    /\ since = [k \in Key |-> DedupWindow]
    /\ deletedAt = [c \in Channel |-> MaxEvents]
    /\ ops = 0

Work(w) ==
    \/ TakeEvent(w) \/ ListFails(w) \/ ListSubscriptions(w) \/ EndSend(w)
    \/ \E c \in Channel : Suppress(w, c) \/ BeginSend(w, c)

Edit(a) ==
    \/ \E c \in Channel, on \in BOOLEAN :
          \/ CreateChannel(a, c, on) \/ ReadChannel(a, c, on)
          \/ \E types \in SUBSET EventType \ {{}} : ReadForSubscriptions(a, c, types, on)
    \/ \E c \in Channel : DeleteChannel(a, c)
    \/ \E k \in Key : DeleteSubscription(a, k) \/ \E on \in BOOLEAN : ReadSubscription(a, k, on)
    \/ \E type \in EventType : InsertSubscription(a, type)
    \/ UpdateChannel(a) \/ UpdateSubscription(a)

Next ==
    \/ \E type \in EventType : Publish(type)
    \/ \E w \in Worker : Work(w)
    \/ \E a \in Admin : Edit(a)
    \/ Tick

Spec == Init /\ [][Next]_vars

(* A worker goes on: every statement and every send ends with its context. *)
(* Events being bounded, no worker can keep the others waiting for ever,   *)
(* so that fairness of all of them together says the same.                 *)
FairSpec == Spec /\ WF_vars(\E w \in Worker : Work(w))

------------------------------------------------------------------------------
(* Properties.                                                             *)

WorkerState ==
    [pc : {"idle", "list", "next", "send"}, event : Event \cup {<<>>},
     to : SUBSET Channel, ch : Channel \cup {NoChannel}, age : 0 .. SendTimeout]

OpState ==
    {IdleOp}
    \cup [pc : {"channel"}, c : Channel, on : BOOLEAN]
    \cup [pc : {"insert"}, c : Channel, types : SUBSET EventType, on : BOOLEAN, id : Id]
    \cup [pc : {"sub"}, key : Key, id : Id, on : BOOLEAN]

(* Types; a worker that is about to send has an event and a channel.       *)
TypeOK ==
    /\ channel \in [Channel -> {"new", "on", "off", "deleted"}]
    /\ sub \in [Key -> [id : Id, on : BOOLEAN] \cup {NoSub}]
    /\ queue \in Seq(Event) /\ Len(queue) <= QueueSize
    /\ mark \in [Key -> 0 .. DedupWindow]
    /\ worker \in [Worker -> WorkerState]
    /\ \A w \in Worker : /\ worker[w].pc # "idle" => worker[w].event \in Event
                         /\ worker[w].pc = "send" <=> worker[w].ch # NoChannel
    /\ op \in [Admin -> OpState]
    /\ published \in 0 .. MaxEvents
    /\ since \in [Key -> 0 .. DedupWindow]
    /\ deletedAt \in [Channel -> 0 .. MaxEvents]
    /\ ops \in 0 .. MaxOps

Begins(w, k) ==
    /\ worker[w].pc = "next" /\ worker'[w].pc = "send"
    /\ k = <<worker'[w].ch, worker[w].event.type>>

Skips(w, k) ==
    /\ worker[w].pc = "next" /\ worker'[w].pc # "send"
    /\ k[1] \in worker[w].to \ worker'[w].to
    /\ k[2] = worker[w].event.type

(* docs/notification-system.md: the same event is notified once in five    *)
(* minutes.  Whichever workers handle two such events, an attempt on a     *)
(* channel begins a whole window after the one before, so never beside it; *)
(* and an event is suppressed only if there was an attempt with the same   *)
(* event on the same channel in the window: a stream of suppressed events  *)
(* does not keep a channel silent, nor does one channel silence another.   *)
OncePerWindow ==
    [][\A w \in Worker, k \in Key :
          /\ Begins(w, k) => since[k] >= DedupWindow
          /\ Skips(w, k) => since[k] < DedupWindow]_vars

(* What is published after a channel was deleted is never sent to it, even *)
(* if the channel or its subscriptions were being changed at the time.     *)
QuietAfterDelete ==
    \A w \in Worker :
        worker[w].pc = "send" => worker[w].event.n <= deletedAt[worker[w].ch]

Quiet == queue = <<>> /\ \A w \in Worker : worker[w].pc = "idle"

(* Every event that found room in the queue is dealt with: as events are   *)
(* bounded here, the queue and the workers come to rest again and again.   *)
Handled == []<>Quiet
=============================================================================
