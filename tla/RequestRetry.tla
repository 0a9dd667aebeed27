------------------------------ MODULE RequestRetry ------------------------------
(***************************************************************************)
(* The handler of POST /v1/messages (handler.go): the loop that sends a    *)
(* request to one node after another, the transport that tries each node   *)
(* several times (reverse_proxy.go), and the failure streaks and flags the *)
(* requests and the health checks share.                                   *)
(*                                                                         *)
(* A handler's steps are separated where others can come between: at the   *)
(* critical sections (selectHealthyNodeExcluding, AllowRequest,            *)
(* recordMetrics, shouldFail, handleFailure) and while it waits for a      *)
(* node.  Which usable node comes first depends on weights that any        *)
(* handler may change: any order.  Whether a breaker lets a request        *)
(* through is CircuitBreaker's matter: it may or may not.  The switch of   *)
(* the active node after a failure is NodePool's.                          *)
(***************************************************************************)
EXTENDS Naturals, FiniteSets

CONSTANTS
    Node,               \* nodes of the account when the requests arrive
    Request,            \* handlers at work at the same time
    NoNode,
    MaxAttempts,        \* retryConfig.MaxAttempts
    RetryOnStatus,      \* retryConfig.RetryOnStatus
    HasTotalTimeout,    \* retryConfig.TotalTimeout > 0
    TransportAttempts,  \* retryTransport.attempts
    FailLimit,          \* Server.failLimit
    BreakerEnabled,     \* cbConfig.Enabled
    MinLoops,           \* 20 in the code
    MaxRequests         \* bound of the model: requests that arrive

(* What a node answers, or the proxy for it.  "503" is also 502; "500" is  *)
(* any other status that is not retried: below 500, or not in the list.    *)
UpstreamStatus == {"500", "503", "504"}
ContextStatus == {"499", "504"}
Status == {"200"} \cup UpstreamStatus \cup ContextStatus
NoStatus == "none"

ASSUME ConfigAssumption ==
    /\ IsFiniteSet(Node)
    /\ NoNode \notin Node
    /\ MaxAttempts \in Nat \ {0}
    /\ RetryOnStatus \subseteq {"503", "504"}
    /\ HasTotalTimeout \in BOOLEAN
    /\ TransportAttempts \in Nat \ {0}
    /\ FailLimit \in Nat \ {0}
    /\ BreakerEnabled \in BOOLEAN
    /\ MinLoops \in Nat
    /\ MaxRequests \in Nat

VARIABLES
    nodes,      \* keys of acc.Nodes
    failed,     \* Node.Failed and acc.FailedSet
    streak,     \* Node.Metrics.FailStreak, up to FailLimit
    handler,    \* each handler's locals
    arrived

pool == <<nodes, failed, streak>>
vars == <<nodes, failed, streak, handler, arrived>>

PC == {"idle",
       "select",     \* selectHealthyNodeExcluding
       "admit",      \* AllowRequest, then the deadline is looked at
       "upstream",   \* within RoundTrip
       "respond",    \* the response is copied, then recordMetrics
       "streak",     \* shouldFail
       "mark",       \* handleFailure
       "done"}

HandlerState ==
    [pc : PC, node : Node \cup {NoNode}, skip : SUBSET Node,
     attempt : Nat, loops : Nat,
     tries : 0 .. TransportAttempts, last : UpstreamStatus \cup {NoStatus},
     status : Status \cup {NoStatus},          \* mw.status of the attempt
     client : Status \cup {NoStatus},          \* what the client has seen
     servedBy : SUBSET Node]

(* maxLoops                                                                *)
MaxLoops == LET n == 2 * Cardinality(Node) IN IF n < MinLoops THEN MinLoops ELSE n

Usable(n) == n \in nodes /\ ~failed[n]

Update(r, h) == handler' = [handler EXCEPT ![r] = h]

------------------------------------------------------------------------------
(* The response.  Every attempt writes to the same ResponseWriter, which   *)
(* keeps the first status it is given.                                     *)

SeenLast(h, s) == s
Seen(h, s) == IF h.client = NoStatus THEN s ELSE h.client

ContextError(h) == h.status \in ContextStatus
ShouldRetry(h) == h.status \in RetryOnStatus \ ContextStatus
IsLastAttempt(h) == h.attempt >= MaxAttempts

Responded(h, s) ==
    [h EXCEPT !.pc = "respond", !.tries = 0, !.last = NoStatus,
              !.status = s, !.client = Seen(h, s)]

(* The handler returns: what it has done for the client remains.           *)
Returned(h) ==
    [h EXCEPT !.pc = "done", !.node = NoNode, !.skip = {}, !.attempt = 0, !.loops = 0,
              !.status = NoStatus]

------------------------------------------------------------------------------
(* The loop.                                                               *)

NewRequest ==
    [pc |-> "select", node |-> NoNode, skip |-> {}, attempt |-> 0, loops |-> 0,
     tries |-> 0, last |-> NoStatus, status |-> NoStatus, client |-> NoStatus,
     servedBy |-> {}]

Arrive(r) ==
    /\ handler[r].pc \in {"idle", "done"}
    /\ arrived < MaxRequests
    /\ arrived' = arrived + 1
    /\ Update(r, NewRequest)
    /\ UNCHANGED pool

SelectNode(r, n) ==
    /\ handler[r].pc = "select"
    /\ handler[r].loops < MaxLoops
    /\ Usable(n) /\ n \notin handler[r].skip
    /\ Update(r, [handler[r] EXCEPT !.pc = "admit", !.node = n])
    /\ UNCHANGED <<pool, arrived>>

(* The end of the loop: 503 unless some attempt has written a response.    *)
GiveUp(r) ==
    /\ handler[r].pc = "select"
    /\ \/ handler[r].loops >= MaxLoops
       \/ \A n \in nodes \ handler[r].skip : ~Usable(n)
    /\ Update(r, [Returned(handler[r]) EXCEPT !.client = Seen(handler[r], "503")])
    /\ UNCHANGED <<pool, arrived>>

(* The node is skipped and the loop goes on.                               *)
NextWithoutSkip(h) ==
    [h EXCEPT !.pc = "select", !.node = NoNode, !.loops = h.loops + 1, !.status = NoStatus]
NextNode(h) ==
    [h EXCEPT !.pc = "select", !.node = NoNode, !.loops = h.loops + 1,
              !.skip = h.skip \cup {h.node}, !.status = NoStatus]

BreakerRefuses(r) ==
    /\ handler[r].pc = "admit"
    /\ BreakerEnabled
    /\ Update(r, NextNode(handler[r]))
    /\ UNCHANGED <<pool, arrived>>

(* TotalTimeout has passed: the breaker that let the request through is    *)
(* told nothing.                                                           *)
DeadlineOver(r) ==
    /\ handler[r].pc = "admit"
    /\ HasTotalTimeout
    /\ Update(r, [Returned(handler[r]) EXCEPT !.client = Seen(handler[r], "503")])
    /\ UNCHANGED <<pool, arrived>>

Send(r) ==
    /\ handler[r].pc = "admit"
    /\ Update(r, [handler[r] EXCEPT !.pc = "upstream", !.tries = TransportAttempts])
    /\ UNCHANGED <<pool, arrived>>

------------------------------------------------------------------------------
(* retryTransport.RoundTrip and the reverse proxy.                         *)

UpstreamOK(r) ==
    /\ handler[r].pc = "upstream"
    /\ Update(r, [Responded(handler[r], "200")
                  EXCEPT !.servedBy = handler[r].servedBy \cup {handler[r].node}])
    /\ UNCHANGED <<pool, arrived>>

TriesKept(h) == h.tries
TriesLeft(h) == h.tries - 1

(* A try that failed, with the last status a node gave; after the last try *)
(* that status is passed on, or 503 if there was none.                     *)
AfterTryOnceMore(h, last) ==
    IF TriesLeft(h) >= 0
    THEN [h EXCEPT !.tries = TriesLeft(h), !.last = last]
    ELSE Responded(h, IF last = NoStatus THEN "503" ELSE last)
AfterTry(h, last) ==
    IF TriesLeft(h) > 0
    THEN [h EXCEPT !.tries = TriesLeft(h), !.last = last]
    ELSE Responded(h, IF last = NoStatus THEN "503" ELSE last)

UpstreamFails(r, s) ==
    /\ handler[r].pc = "upstream"
    /\ Update(r, AfterTry(handler[r], s))
    /\ UNCHANGED <<pool, arrived>>

ConnectionFails(r) ==
    /\ handler[r].pc = "upstream"
    /\ Update(r, AfterTry(handler[r], handler[r].last))
    /\ UNCHANGED <<pool, arrived>>

(* The client has gone, or the timeout of the attempt has passed.          *)
ContextEnds(r, s) ==
    /\ handler[r].pc = "upstream"
    /\ Update(r, Responded(handler[r], s))
    /\ UNCHANGED <<pool, arrived>>

(* Copying the body of a 200 fails: the proxy panics with ErrAbortHandler  *)
(* and the handler is gone, nothing recorded.                              *)
StreamAborts(r) ==
    /\ handler[r].pc = "respond"
    /\ handler[r].status = "200"
    /\ Update(r, Returned(handler[r]))
    /\ UNCHANGED <<pool, arrived>>

------------------------------------------------------------------------------
(* What is recorded, and the decision to go on.                            *)

Recovered(n) ==
    /\ failed' = [failed EXCEPT ![n] = FALSE]
    /\ streak' = [streak EXCEPT ![n] = 0]

BrokenWithoutStreak(n) ==
    /\ failed' = [failed EXCEPT ![n] = TRUE]
    /\ UNCHANGED streak

Broken(n) ==
    /\ failed' = [failed EXCEPT ![n] = TRUE]
    /\ streak' = [streak EXCEPT ![n] = IF streak[n] = 0 THEN 1 ELSE streak[n]]

RecordMetrics(r) ==
    LET h == [handler[r] EXCEPT !.attempt = handler[r].attempt + 1]
    IN  /\ h.pc = "respond"
        /\ IF h.status = "200" /\ h.node \in nodes
           THEN Recovered(h.node)
           ELSE UNCHANGED <<failed, streak>>
        /\ Update(r, IF h.status = "200" \/ ContextError(h)
                     THEN Returned(h)
                     ELSE [h EXCEPT !.pc = "streak"])
        /\ UNCHANGED <<nodes, arrived>>

AfterFailure(h) ==
    IF ShouldRetry(h) THEN NextNode(h) ELSE Returned(h)

LongerStreak(n) == IF streak[n] < FailLimit THEN streak[n] + 1 ELSE FailLimit

(* shouldFail; only the last attempt goes on to mark the node.             *)
CountFailure(r) ==
    LET h == handler[r]
    IN  /\ h.pc = "streak"
        /\ IF h.node \in nodes
           THEN streak' = [streak EXCEPT ![h.node] = LongerStreak(h.node)]
           ELSE UNCHANGED streak
        /\ Update(r, IF h.node \in nodes /\ LongerStreak(h.node) >= FailLimit
                        /\ IsLastAttempt(h)
                     THEN [h EXCEPT !.pc = "mark"]
                     ELSE AfterFailure(h))
        /\ UNCHANGED <<nodes, failed, arrived>>

(* handleFailure, which looks the node up again.                           *)
MarkFailed(r) ==
    LET h == handler[r]
    IN  /\ h.pc = "mark"
        /\ IF h.node \in nodes THEN Broken(h.node) ELSE UNCHANGED <<failed, streak>>
        /\ Update(r, AfterFailure(h))
        /\ UNCHANGED <<nodes, arrived>>

------------------------------------------------------------------------------
(* The rest of the server.                                                 *)

HealthCheck(n, ok) ==
    /\ n \in nodes
    /\ IF ok THEN Recovered(n) ELSE Broken(n)
    /\ UNCHANGED <<nodes, handler, arrived>>

DeleteNode(n) ==
    /\ n \in nodes
    /\ nodes' = nodes \ {n}
    /\ UNCHANGED <<failed, streak, handler, arrived>>

------------------------------------------------------------------------------

Init ==
    /\ nodes = Node
    /\ failed = [n \in Node |-> FALSE]
    /\ streak = [n \in Node |-> 0]
    /\ handler = [r \in Request |-> [NewRequest EXCEPT !.pc = "idle"]]
    /\ arrived = 0

Step(r) ==
    \/ \E n \in Node : SelectNode(r, n)
    \/ GiveUp(r)
    \/ BreakerRefuses(r) \/ DeadlineOver(r) \/ Send(r)
    \/ UpstreamOK(r)
    \/ \E s \in UpstreamStatus : UpstreamFails(r, s)
    \/ ConnectionFails(r)
    \/ \E s \in ContextStatus : ContextEnds(r, s)
    \/ StreamAborts(r)
    \/ RecordMetrics(r) \/ CountFailure(r) \/ MarkFailed(r)

Environment ==
    \/ \E n \in Node, ok \in BOOLEAN : HealthCheck(n, ok)
    \/ \E n \in Node : DeleteNode(n)

Next ==
    \/ \E r \in Request : Arrive(r) \/ Step(r)
    \/ Environment

Spec == Init /\ [][Next]_vars

------------------------------------------------------------------------------
(* Properties.                                                             *)

(* Types; a handler has a node when it works on one, every turn of the     *)
(* loop has put another node aside, no turn sends more than once, and a    *)
(* node's 200 ends the loop.                                               *)
HandlerOK(h) ==
    /\ h \in HandlerState
    /\ h.loops = Cardinality(h.skip)
    /\ h.pc \notin {"idle", "select", "done"} => h.node \in Node \ h.skip
    /\ h.attempt <= h.loops + (IF h.pc \in {"streak", "mark"} THEN 1 ELSE 0)
    /\ h.pc = "upstream" => h.tries > 0
    /\ h.pc \in {"respond", "streak", "mark"} => h.status # NoStatus
    /\ h.pc \in {"respond", "streak", "mark", "done"} => h.client # NoStatus
    /\ h.servedBy # {} => h.pc = "done" \/ (h.pc = "respond" /\ h.status = "200")

TypeOK ==
    /\ nodes \subseteq Node
    /\ failed \in [Node -> BOOLEAN]
    /\ streak \in [Node -> 0 .. FailLimit]
    /\ handler \in [Request -> HandlerState]
    /\ arrived \in 0 .. MaxRequests
    /\ \A r \in Request : HandlerOK(handler[r])

(* The loop is bounded "to be able to try every node even with breakers"   *)
(* (handler.go, maxLoops): a handler that gives up has tried, or was       *)
(* refused, every node that was usable when it last looked, however        *)
(* health checks and other requests move the flags.                        *)
EveryNodeTried ==
    [][\A r \in Request :
         handler[r].pc = "select" /\ handler'[r].pc = "done" =>
             \A n \in nodes \ handler[r].skip : ~Usable(n)]_vars

(* A failed node has a failure streak, and a node without one is not       *)
(* failed, although a success may reset the streak between the decision of *)
(* shouldFail and the mark of handleFailure.                               *)
FailedHasStreak == \A n \in Node : failed[n] => streak[n] > 0

(* A handler ends: each of its steps leaves it fewer steps to take, at     *)
(* most Turn for every node.  (Every wait for a node is bounded by the     *)
(* timeout of the attempt.)                                                *)
Turn == TransportAttempts + 5
StepsInTurn(h) ==
    CASE h.pc = "select"   -> TransportAttempts + 5
      [] h.pc = "admit"    -> TransportAttempts + 4
      [] h.pc = "upstream" -> h.tries + 3
      [] h.pc = "respond"  -> 3
      [] h.pc = "streak"   -> 2
      [] h.pc = "mark"     -> 1
      [] OTHER             -> 0
StepsLeft(h) ==
    IF h.pc \in {"idle", "done"}
    THEN 0
    ELSE Turn * (Cardinality(Node) - h.loops) + StepsInTurn(h)

EachStepNearer ==
    [][\A r \in Request :
         handler[r].pc \notin {"idle", "done"} /\ handler'[r] # handler[r] =>
             StepsLeft(handler'[r]) < StepsLeft(handler[r])]_vars

(* The handler keeps the promise of Exchange.                              *)
Promise == INSTANCE Exchange
    WITH phase <- [r \in Request |->
                      IF handler[r].pc \in {"idle", "done"} THEN handler[r].pc ELSE "working"],
         answer <- [r \in Request |-> handler[r].client],
         servedBy <- [r \in Request |-> handler[r].servedBy]

KeepsPromise == Promise!Spec
=============================================================================
