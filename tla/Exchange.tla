-------------------------------- MODULE Exchange --------------------------------
(***************************************************************************)
(* What the proxy promises for POST /v1/messages, whatever happens behind  *)
(* it: the client is answered before the handler returns, the status it    *)
(* has seen never changes, and at most one node has answered the request   *)
(* with 200, so that no completion is paid for twice.  RequestRetry is the *)
(* handler that implements it.                                             *)
(***************************************************************************)
EXTENDS Naturals

CONSTANTS Request, Node, Status, NoStatus

VARIABLES
    phase,      \* idle, working or done
    answer,     \* the status the client has seen
    servedBy    \* nodes that answered with 200

vars == <<phase, answer, servedBy>>

Phase == {"idle", "working", "done"}

TypeOK ==
    /\ phase \in [Request -> Phase]
    /\ answer \in [Request -> Status \cup {NoStatus}]
    /\ servedBy \in [Request -> SUBSET Node]

Init ==
    /\ phase = [r \in Request |-> "idle"]
    /\ answer = [r \in Request |-> NoStatus]
    /\ servedBy = [r \in Request |-> {}]

Arrive(r) ==
    /\ phase[r] # "working"
    /\ phase' = [phase EXCEPT ![r] = "working"]
    /\ answer' = [answer EXCEPT ![r] = NoStatus]
    /\ servedBy' = [servedBy EXCEPT ![r] = {}]

(* The first status stays; later ones are not seen.                        *)
See(r, s) ==
    answer' = [answer EXCEPT ![r] = IF answer[r] = NoStatus THEN s ELSE answer[r]]

Answer(r) ==
    /\ phase[r] = "working"
    /\ \E s \in Status : See(r, s)
    /\ UNCHANGED <<phase, servedBy>>

Serve(r) ==
    /\ phase[r] = "working"
    /\ servedBy[r] = {}
    /\ \E n \in Node : servedBy' = [servedBy EXCEPT ![r] = {n}]
    /\ \E s \in Status : See(r, s)
    /\ UNCHANGED phase

Finish(r) ==
    /\ phase[r] = "working"
    /\ phase' = [phase EXCEPT ![r] = "done"]
    /\ \E s \in Status : See(r, s)
    /\ UNCHANGED servedBy

Next == \E r \in Request : Arrive(r) \/ Answer(r) \/ Serve(r) \/ Finish(r)

Spec == Init /\ [][Next]_vars
=============================================================================
