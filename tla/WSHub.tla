--------------------------------- MODULE WSHub ---------------------------------
(***************************************************************************)
(* The WebSocket hub of the monitor page: ws_hub.go, ws_client.go and the  *)
(* handler of api_ws.go, for the viewers of one account.                   *)
(*                                                                         *)
(* One goroutine (Run) receives from three bounded channels, in whatever   *)
(* order select takes them, and hands every message to the buffered        *)
(* channel of every viewer.  It drops a viewer whose buffer is full by     *)
(* sending it to its own unregister channel.  Each viewer has a read pump, *)
(* which unregisters it when the connection fails, and a write pump, which *)
(* empties the buffer and never unregisters.                               *)
(*                                                                         *)
(* The rest of the server calls Broadcast, once while it holds Server.mu:  *)
(* a failed health check (health.go).  A channel here is a sequence; a     *)
(* message is only counted.                                                *)
(***************************************************************************)
EXTENDS Naturals, Sequences

CONSTANTS
    Client,         \* viewers that connect, each once
    NoClient,
    SendCap,        \* capacity of WSClient.send
    RegisterCap,    \* capacities of the channels of the hub
    UnregisterCap,
    BroadcastCap,
    MaxMessages     \* bound of the model: calls of Broadcast

ASSUME ConfigAssumption ==
    /\ NoClient \notin Client
    /\ SendCap \in Nat \ {0}
    /\ RegisterCap \in Nat \ {0}
    /\ UnregisterCap \in Nat \ {0}
    /\ BroadcastCap \in Nat \ {0}
    /\ MaxMessages \in Nat

VARIABLES
    clients,       \* h.clients[account]
    register, unregister,
    broadcast,     \* messages waiting in h.broadcast
    run,           \* where Run is
    buffer,        \* messages waiting in each send channel
    sendClosed,    \* send has been closed
    reader, writer,
    missed,        \* viewers a message was not sent to while registered
    panicked,      \* a send on a closed channel, or a second close
    mu,            \* Server.mu, as far as checkNodeHealth is concerned
    sent

channels == <<register, unregister, broadcast>>
pumps == <<reader, writer>>
vars == <<clients, channels, run, buffer, sendClosed, pumps, missed, panicked, mu, sent>>

(* Run waits in select, or is in the loop of broadcastToAccount with the   *)
(* viewers in `to` ahead of it, or waits to unregister `slow`.             *)
RunState ==
    [pc : {"select", "send", "evict"}, to : SUBSET Client, slow : Client \cup {NoClient}]

Selecting == [pc |-> "select", to |-> {}, slow |-> NoClient]
SendingTo(to) ==
    IF to = {} THEN Selecting ELSE [pc |-> "send", to |-> to, slow |-> NoClient]

Members(q) == {q[i] : i \in DOMAIN q}

------------------------------------------------------------------------------
(* A viewer connects, and its goroutines.                                  *)

(* handleMonitorWebSocket: the pumps start once the hub has the viewer in  *)
(* its register channel.                                                   *)
Connect(c) ==
    /\ reader[c] = "none"
    /\ Len(register) < RegisterCap
    /\ register' = Append(register, c)
    /\ reader' = [reader EXCEPT ![c] = "reading"]
    /\ writer' = [writer EXCEPT ![c] = "writing"]
    /\ UNCHANGED <<clients, unregister, broadcast, run, buffer, sendClosed, missed,
                   panicked, mu, sent>>

(* ReadMessage fails: the viewer has gone, no pong came in time, or the    *)
(* write pump has closed the connection.                                   *)
ReadFails(c) ==
    /\ reader[c] = "reading"
    /\ reader' = [reader EXCEPT ![c] = "leaving"]
    /\ UNCHANGED <<clients, channels, run, buffer, sendClosed, writer, missed, panicked,
                   mu, sent>>

UnregisterIfRoom(c) ==
    /\ reader[c] = "leaving"
    /\ unregister' = IF Len(unregister) < UnregisterCap THEN Append(unregister, c)
                                                        ELSE unregister
    /\ reader' = [reader EXCEPT ![c] = "done"]
    /\ UNCHANGED <<clients, register, broadcast, run, buffer, sendClosed, writer, missed,
                   panicked, mu, sent>>

(* The deferred function of readPump, which also closes the connection.    *)
Unregister(c) ==
    /\ reader[c] = "leaving"
    /\ Len(unregister) < UnregisterCap
    /\ unregister' = Append(unregister, c)
    /\ reader' = [reader EXCEPT ![c] = "done"]
    /\ UNCHANGED <<clients, register, broadcast, run, buffer, sendClosed, writer, missed,
                   panicked, mu, sent>>

WriterGone(c) == writer' = [writer EXCEPT ![c] = "done"]

(* One message is written.                                                 *)
Write(c) ==
    /\ writer[c] = "writing"
    /\ buffer[c] > 0
    /\ buffer' = [buffer EXCEPT ![c] = @ - 1]
    /\ UNCHANGED <<clients, channels, run, sendClosed, pumps, missed, panicked, mu, sent>>

(* The connection is closed or too slow: a message just taken is lost.     *)
WriteFails(c) ==
    /\ writer[c] = "writing"
    /\ buffer[c] > 0
    /\ buffer' = [buffer EXCEPT ![c] = @ - 1]
    /\ WriterGone(c)
    /\ UNCHANGED <<clients, channels, run, sendClosed, reader, missed, panicked, mu, sent>>

PingFails(c) ==
    /\ writer[c] = "writing"
    /\ WriterGone(c)
    /\ UNCHANGED <<clients, channels, run, buffer, sendClosed, reader, missed, panicked,
                   mu, sent>>

(* A closed channel is read to its end first.                              *)
WriterSeesClose(c) ==
    /\ writer[c] = "writing"
    /\ buffer[c] = 0
    /\ sendClosed[c]
    /\ WriterGone(c)
    /\ UNCHANGED <<clients, channels, run, buffer, sendClosed, reader, missed, panicked,
                   mu, sent>>

------------------------------------------------------------------------------
(* Run.                                                                    *)

AddClient ==
    /\ run.pc = "select"
    /\ register # <<>>
    /\ register' = Tail(register)
    /\ clients' = clients \cup {Head(register)}
    /\ UNCHANGED <<unregister, broadcast, run, buffer, sendClosed, pumps, missed, panicked,
                   mu, sent>>

CloseAlways(c) ==
    /\ clients' = clients \ {c}
    /\ sendClosed' = [sendClosed EXCEPT ![c] = TRUE]
    /\ panicked' = (panicked \/ sendClosed[c])

(* removeClient: the viewer may have been unregistered already, or not     *)
(* registered yet.                                                         *)
CloseRegistered(c) ==
    IF c \in clients
    THEN /\ clients' = clients \ {c}
         /\ sendClosed' = [sendClosed EXCEPT ![c] = TRUE]
         /\ panicked' = (panicked \/ sendClosed[c])
    ELSE UNCHANGED <<clients, sendClosed, panicked>>

RemoveDuringLoop ==
    /\ unregister # <<>>
    /\ unregister' = Tail(unregister)
    /\ CloseRegistered(Head(unregister))
    /\ UNCHANGED <<register, broadcast, run, buffer, pumps, missed, mu, sent>>

(* In the select of Run, so never while broadcastToAccount is in its loop. *)
RemoveClient ==
    /\ run.pc = "select"
    /\ unregister # <<>>
    /\ unregister' = Tail(unregister)
    /\ CloseRegistered(Head(unregister))
    /\ UNCHANGED <<register, broadcast, run, buffer, pumps, missed, mu, sent>>

TakeMessage ==
    /\ run.pc = "select"
    /\ broadcast > 0
    /\ broadcast' = broadcast - 1
    /\ run' = SendingTo(clients)
    /\ UNCHANGED <<clients, register, unregister, buffer, sendClosed, pumps, missed,
                   panicked, mu, sent>>

SendBlocking(c) ==
    /\ buffer[c] < SendCap
    /\ buffer' = [buffer EXCEPT ![c] = @ + 1]
    /\ run' = SendingTo(run.to \ {c})
    /\ UNCHANGED missed

Evicting(c) == run' = [run EXCEPT !.pc = "evict", !.slow = c]

DropSilently(c) ==
    IF buffer[c] < SendCap
    THEN /\ buffer' = [buffer EXCEPT ![c] = @ + 1]
         /\ run' = SendingTo(run.to \ {c})
         /\ UNCHANGED missed
    ELSE /\ missed' = missed \cup {c}
         /\ run' = SendingTo(run.to \ {c})
         /\ UNCHANGED buffer

SendOrEvict(c) ==
    IF buffer[c] < SendCap
    THEN /\ buffer' = [buffer EXCEPT ![c] = @ + 1]
         /\ run' = SendingTo(run.to \ {c})
         /\ UNCHANGED missed
    ELSE /\ missed' = missed \cup {c}
         /\ Evicting(c)
         /\ UNCHANGED buffer

(* The loop goes over the map in any order.                                *)
SendMessage(c) ==
    /\ run.pc = "send"
    /\ c \in run.to
    /\ SendOrEvict(c)
    /\ panicked' = (panicked \/ sendClosed[c])
    /\ UNCHANGED <<clients, channels, sendClosed, pumps, mu, sent>>

(* h.unregister <- client, by the only goroutine that receives from it.    *)
EvictSlow ==
    /\ run.pc = "evict"
    /\ Len(unregister) < UnregisterCap
    /\ unregister' = Append(unregister, run.slow)
    /\ run' = SendingTo(run.to \ {run.slow})
    /\ UNCHANGED <<clients, register, broadcast, buffer, sendClosed, pumps, missed,
                   panicked, mu, sent>>

------------------------------------------------------------------------------
(* Broadcast.                                                              *)

Enqueue ==
    /\ broadcast < BroadcastCap
    /\ broadcast' = broadcast + 1
    /\ UNCHANGED <<clients, register, unregister, run, buffer, sendClosed, pumps, missed,
                   panicked>>

Broadcast ==
    /\ sent < MaxMessages
    /\ sent' = sent + 1
    /\ Enqueue
    /\ UNCHANGED mu

(* checkNodeHealth finds a node failed; it has locked Server.mu.           *)
LockForCheck ==
    /\ mu = "free"
    /\ sent < MaxMessages
    /\ mu' = "held"
    /\ sent' = sent + 1
    /\ UNCHANGED <<clients, channels, run, buffer, sendClosed, pumps, missed, panicked>>

BroadcastUnderLock ==
    /\ mu = "held"
    /\ mu' = "free"
    /\ Enqueue
    /\ UNCHANGED sent

------------------------------------------------------------------------------

Init ==
    /\ clients = {}
    /\ register = <<>> /\ unregister = <<>> /\ broadcast = 0
    /\ run = Selecting
    /\ buffer = [c \in Client |-> 0]
    /\ sendClosed = [c \in Client |-> FALSE]
    /\ reader = [c \in Client |-> "none"]
    /\ writer = [c \in Client |-> "none"]
    /\ missed = {}
    /\ panicked = FALSE
    /\ mu = "free"
    /\ sent = 0

WritePump(c) == Write(c) \/ WriteFails(c) \/ WriterSeesClose(c)

Viewer(c) == Connect(c) \/ ReadFails(c) \/ Unregister(c) \/ WritePump(c) \/ PingFails(c)

Loop == (\E c \in Client : SendMessage(c)) \/ EvictSlow

Run == AddClient \/ RemoveClient \/ TakeMessage \/ Loop

Next ==
    \/ \E c \in Client : Viewer(c)
    \/ Run
    \/ Broadcast \/ LockForCheck \/ BroadcastUnderLock

Spec == Init /\ [][Next]_vars

(* Run goes on, and select, which chooses at random, takes from every      *)
(* channel that is ready again and again.  A write ends, with an error     *)
(* after writeWait at the latest; a closed connection ends the read pump.  *)
(* Senders that wait for room in a channel are served in turn.  Viewers    *)
(* and messages being bounded, no step is enabled again and again without  *)
(* being enabled for good: weak fairness says all of this.                 *)
FairSpec ==
    /\ Spec
    /\ WF_vars(Loop)
    /\ WF_vars(AddClient) /\ WF_vars(RemoveClient) /\ WF_vars(TakeMessage)
    /\ WF_vars(BroadcastUnderLock)
    /\ \A c \in Client :
          /\ WF_vars(WritePump(c))
          /\ WF_vars(writer[c] = "done" /\ ReadFails(c))
          /\ WF_vars(Unregister(c))

------------------------------------------------------------------------------
(* Properties.                                                             *)

(* Types; no channel holds more than its capacity, and the hub sends only  *)
(* to viewers that are still registered.                                   *)
TypeOK ==
    /\ clients \subseteq Client
    /\ register \in Seq(Client) /\ Len(register) <= RegisterCap
    /\ unregister \in Seq(Client) /\ Len(unregister) <= UnregisterCap
    /\ broadcast \in 0 .. BroadcastCap
    /\ run \in RunState
    /\ run.to \subseteq clients
    /\ run.pc = "select" => run.to = {}
    /\ run.pc = "evict" => run.slow \in run.to
    /\ buffer \in [Client -> 0 .. SendCap]
    /\ sendClosed \in [Client -> BOOLEAN]
    /\ reader \in [Client -> {"none", "reading", "leaving", "done"}]
    /\ writer \in [Client -> {"none", "writing", "done"}]
    /\ missed \subseteq Client
    /\ panicked \in BOOLEAN
    /\ mu \in {"free", "held"}
    /\ sent \in 0 .. MaxMessages

(* A viewer is unregistered by its read pump, by the hub once for every    *)
(* message it was too slow for, and perhaps before it is registered: still *)
(* its channel is closed once and nothing is sent on it afterwards, which  *)
(* would be a panic of the whole process.                                  *)
NoPanic == ~panicked

(* A viewer that missed a message does not stay: it is on its way out, so  *)
(* no page goes on showing a state with a gap in it.                       *)
MissedOnlyIfLeaving ==
    \A c \in missed \cap clients :
        c \in Members(unregister) \/ (run.pc = "evict" /\ run.slow = c)

(* The hub waits for room in the channel that only it empties.             *)
HubStuck == run.pc = "evict" /\ Len(unregister) = UnregisterCap

(* A registered viewer whose connection has failed is removed, unless the  *)
(* hub is stuck.                                                           *)
LeaverRemoved ==
    \A c \in Client :
        c \in clients /\ reader[c] = "leaving" ~> c \notin clients \/ HubStuck

(* A health check that broadcasts while it holds Server.mu lets go of it,  *)
(* unless the hub is stuck: slow viewers alone never stop the server.      *)
LockReleased == mu = "held" ~> mu = "free" \/ HubStuck

(* ws_hub.go: a viewer whose buffer is full is unregistered.               *)
SlowViewerEvicted == \A c \in Client : c \in missed ~> c \notin clients
=============================================================================
