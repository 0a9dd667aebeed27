---------------------------- MODULE CircuitBreaker ----------------------------
(***************************************************************************)
(* One node's circuit breaker (internal/proxy/circuit_breaker.go) with the *)
(* goroutines that use it.  Each public method of the breaker runs under   *)
(* its mutex, so it is one action here; between AllowRequest and           *)
(* RecordResult a proxy goroutine is out of the lock, talking to the       *)
(* upstream, and any number of other calls may happen.  The proxy loop of  *)
(* handler.go may also leave without calling RecordResult at all: its      *)
(* context ended (status 499 or 504) or the overall deadline passed.       *)
(* A successful health check calls Reset at any time (health.go).          *)
(*                                                                         *)
(* Time is a number of ticks since an event, cut off one tick after the    *)
(* last value the code tells apart.                                        *)
(***************************************************************************)
EXTENDS Naturals, Sequences, FiniteSets

CONSTANTS
    Caller,            \* proxy goroutines that may be between the two calls
    WindowSeconds,     \* length of the sliding window
    RateNum, RateDen,  \* FailureRate = RateNum / RateDen
    ConsecutiveFails,  \* consecutive failures that open the breaker
    CooldownSeconds,   \* how long it stays open
    HalfOpenMaxCalls,  \* trial calls of one half-open period
    MaxAdmitted        \* bound of the model: calls admitted in one behaviour

(* applyCircuitBreakerDefaults makes every parameter positive and the rate *)
(* at most 1.                                                              *)
ASSUME BreakerAssumption ==
    /\ IsFiniteSet(Caller)
    /\ WindowSeconds \in Nat \ {0}
    /\ RateNum \in Nat \ {0}
    /\ RateDen \in Nat \ {0}
    /\ RateNum <= RateDen
    /\ ConsecutiveFails \in Nat \ {0}
    /\ CooldownSeconds \in Nat \ {0}
    /\ HalfOpenMaxCalls \in Nat \ {0}
    /\ MaxAdmitted \in Nat

VARIABLES
    state,             \* "Closed", "Open" or "HalfOpen"
    requests,          \* the sliding window, oldest record first
    consecutiveFails,
    sinceChange,       \* ticks since stateChangedAt
    halfOpenCalls,
    halfOpenSuccess,
    call,              \* where each goroutine is, see CallState
    admitted,          \* calls let through so far, to bound the model
    lost               \* a trial of this half-open period left no result

breakerVars == <<state, requests, consecutiveFails, sinceChange, halfOpenCalls,
                 halfOpenSuccess, call, admitted, lost>>

(* "trial" is a call let through in the half-open period that is still on; *)
(* "plain" one let through when closed, or in a period that has ended.     *)
CallState == {"idle", "plain", "trial"}
RequestRecord == [age : 0 .. WindowSeconds + 1, failed : BOOLEAN]

Trials == {c \in Caller : call[c] = "trial"}

------------------------------------------------------------------------------
(* The window.                                                             *)

(* Records come in time order, so those out of the window are a prefix.    *)
Expired(s) == {i \in DOMAIN s : s[i].age > WindowSeconds}
TrimIdx(s) == Cardinality(Expired(s)) + 1

Recorded(ok) == Append(requests, [age |-> 0, failed |-> ~ok])

Window(ok) == SubSeq(Recorded(ok), TrimIdx(Recorded(ok)), Len(Recorded(ok)))

StreakKeptOnSuccess(ok) == IF ok THEN consecutiveFails ELSE consecutiveFails + 1
Streak(ok) == IF ok THEN 0 ELSE consecutiveFails + 1

FailedIdx(s) == {i \in DOMAIN s : s[i].failed}
FailCount(s) == Cardinality(FailedIdx(s))

ShouldOpen(s, streak) ==
    \/ streak >= ConsecutiveFails
    \/ /\ Len(s) > 0
       /\ FailCount(s) * RateDen >= RateNum * Len(s)

Aged(s) ==
    [i \in DOMAIN s |->
        [age    |-> IF s[i].age <= WindowSeconds THEN s[i].age + 1 ELSE s[i].age,
         failed |-> s[i].failed]]

------------------------------------------------------------------------------
(* AllowRequest.  A refusal changes nothing.                               *)

Admit(c, kind) ==
    /\ call[c] = "idle"
    /\ admitted < MaxAdmitted
    /\ call' = [call EXCEPT ![c] = kind]
    /\ admitted' = admitted + 1
    /\ UNCHANGED <<requests, consecutiveFails>>

AllowClosed(c) ==
    /\ state = "Closed"
    /\ Admit(c, "plain")
    /\ UNCHANGED <<state, sinceChange, halfOpenCalls, halfOpenSuccess, lost>>

(* Cooled down: this call becomes the first trial.                         *)
AllowAfterCooldown(c) ==
    /\ state = "Open"
    /\ sinceChange >= CooldownSeconds
    /\ Admit(c, "trial")
    /\ state' = "HalfOpen"
    /\ sinceChange' = 0
    /\ halfOpenCalls' = 1
    /\ halfOpenSuccess' = 0
    /\ lost' = FALSE

SlotFreeInclusive == halfOpenCalls <= HalfOpenMaxCalls
SlotFreeBySuccess == halfOpenSuccess < HalfOpenMaxCalls
SlotFree == halfOpenCalls < HalfOpenMaxCalls

AllowTrial(c) ==
    /\ state = "HalfOpen"
    /\ SlotFree
    /\ Admit(c, "trial")
    /\ halfOpenCalls' = halfOpenCalls + 1
    /\ UNCHANGED <<state, sinceChange, halfOpenSuccess, lost>>

AllowRequest(c) == AllowClosed(c) \/ AllowAfterCooldown(c) \/ AllowTrial(c)

------------------------------------------------------------------------------
(* RecordResult.  The result may come from a call of an earlier period:    *)
(* the breaker does not tell them apart.                                   *)

(* c reports; if the half-open period ends here, the other trials go on as *)
(* calls of a period that is over.                                         *)
Report(c, periodEnds) ==
    /\ call[c] # "idle"
    /\ call' = [x \in Caller |->
                  IF x = c THEN "idle"
                  ELSE IF periodEnds /\ call[x] = "trial" THEN "plain"
                  ELSE call[x]]
    /\ UNCHANGED <<admitted, lost, halfOpenCalls>>

Observe(ok) ==
    /\ requests' = Window(ok)
    /\ consecutiveFails' = Streak(ok)

Transition(next) ==
    /\ state' = next
    /\ sinceChange' = 0

RecordClosed(c, ok) ==
    /\ state = "Closed"
    /\ Report(c, FALSE)
    /\ Observe(ok)
    /\ IF ShouldOpen(Window(ok), Streak(ok))
       THEN Transition("Open")
       ELSE UNCHANGED <<state, sinceChange>>
    /\ UNCHANGED halfOpenSuccess

RecordOpen(c, ok) ==
    /\ state = "Open"
    /\ Report(c, FALSE)
    /\ Observe(ok)
    /\ UNCHANGED <<state, sinceChange, halfOpenSuccess>>

TrialsUsedStrictly == halfOpenCalls > HalfOpenMaxCalls
TrialsUsed == halfOpenCalls >= HalfOpenMaxCalls

Successes(ok) == IF ok THEN halfOpenSuccess + 1 ELSE halfOpenSuccess

RecordEarly(c, ok) ==
    /\ ~TrialsUsed
    /\ Report(c, FALSE)
    /\ Observe(ok)
    /\ UNCHANGED <<state, sinceChange>>

CloseKeepingWindow(c, ok) ==
    /\ TrialsUsed
    /\ Successes(ok) >= HalfOpenMaxCalls
    /\ Report(c, TRUE)
    /\ Transition("Closed")
    /\ Observe(ok)

RecordClosing(c, ok) ==
    /\ TrialsUsed
    /\ Successes(ok) >= HalfOpenMaxCalls
    /\ Report(c, TRUE)
    /\ Transition("Closed")
    /\ consecutiveFails' = 0
    /\ requests' = <<>>

RecordReopening(c, ok) ==
    /\ TrialsUsed
    /\ Successes(ok) < HalfOpenMaxCalls
    /\ Report(c, TRUE)
    /\ Transition("Open")
    /\ Observe(ok)

RecordHalfOpen(c, ok) ==
    /\ state = "HalfOpen"
    /\ halfOpenSuccess' = Successes(ok)
    /\ RecordEarly(c, ok) \/ RecordClosing(c, ok) \/ RecordReopening(c, ok)

RecordResult(c, ok) ==
    RecordClosed(c, ok) \/ RecordOpen(c, ok) \/ RecordHalfOpen(c, ok)

------------------------------------------------------------------------------
(* The proxy loop leaves without a result: client gone, attempt timed out  *)
(* or overall deadline passed.                                             *)
Abandon(c) ==
    /\ call[c] # "idle"
    /\ call' = [call EXCEPT ![c] = "idle"]
    /\ lost' = (lost \/ call[c] = "trial")
    /\ UNCHANGED <<state, requests, consecutiveFails, sinceChange, halfOpenCalls,
                   halfOpenSuccess, admitted>>

(* Reset, called by a health check that found the node well.               *)
Reset ==
    /\ Transition("Closed")
    /\ requests' = <<>>
    /\ consecutiveFails' = 0
    /\ halfOpenCalls' = 0
    /\ halfOpenSuccess' = 0
    /\ call' = [x \in Caller |-> IF call[x] = "trial" THEN "plain" ELSE call[x]]
    /\ UNCHANGED <<admitted, lost>>

Tick ==
    /\ requests' = Aged(requests)
    /\ sinceChange' = IF sinceChange < CooldownSeconds THEN sinceChange + 1
                                                       ELSE sinceChange
    /\ UNCHANGED <<state, consecutiveFails, halfOpenCalls, halfOpenSuccess, call,
                   admitted, lost>>

BreakerInit ==
    /\ state = "Closed"
    /\ requests = <<>>
    /\ consecutiveFails = 0
    /\ sinceChange = 0
    /\ halfOpenCalls = 0
    /\ halfOpenSuccess = 0
    /\ call = [c \in Caller |-> "idle"]
    /\ admitted = 0
    /\ lost = FALSE

EndCall(c) == Abandon(c) \/ \E ok \in BOOLEAN : RecordResult(c, ok)

BreakerNext ==
    \/ \E c \in Caller : AllowRequest(c)
    \/ \E c \in Caller : EndCall(c)
    \/ Reset
    \/ Tick

BreakerSpec == BreakerInit /\ [][BreakerNext]_breakerVars

(* Every attempt has a timeout (context.WithTimeout in the proxy loop), so *)
(* a call that is let through ends.  Nothing else is assumed to happen.    *)
FairSpec == BreakerSpec /\ \A c \in Caller : WF_breakerVars(EndCall(c))

------------------------------------------------------------------------------
(* Properties.                                                             *)

(* Types; the trial counter stays within its limit (AllowRequest).         *)
BreakerTypeOK ==
    /\ state \in {"Closed", "Open", "HalfOpen"}
    /\ requests \in Seq(RequestRecord)
    /\ consecutiveFails \in Nat
    /\ sinceChange \in 0 .. CooldownSeconds
    /\ halfOpenCalls \in 0 .. HalfOpenMaxCalls
    /\ halfOpenSuccess \in Nat
    /\ call \in [Caller -> CallState]
    /\ admitted \in Nat
    /\ lost \in BOOLEAN

(* A closed breaker is one whose own opening condition is false: whatever  *)
(* mix of late results, closings and resets led here, it never lets        *)
(* traffic through on a window that shouldOpenLocked would open for.       *)
ClosedBelowThreshold ==
    state = "Closed" => ~ShouldOpen(requests, consecutiveFails)

(* A recovering upstream never has more than HalfOpenMaxCalls trial calls  *)
(* in flight, and none when no half-open period is on.                     *)
TrialBound ==
    /\ Cardinality(Trials) <= HalfOpenMaxCalls
    /\ state # "HalfOpen" => Trials = {}

(* A half-open breaker with no trial left to give is waiting for one of    *)
(* them: either a trial is still in flight or one left without a result.   *)
(* RecordResult alone never strands the breaker half-open.                 *)
FullHalfOpenHasPendingTrial ==
    state = "HalfOpen" /\ halfOpenCalls = HalfOpenMaxCalls =>
        lost \/ Trials # {}

(* The slots of a half-open period are neither overdrawn nor lost: at most *)
(* HalfOpenMaxCalls calls reach a recovering upstream at a time, and a     *)
(* breaker that has given out its last slot is owed a result or was        *)
(* abandoned by the caller that held it.                                   *)
TrialSlots == TrialBound /\ FullHalfOpenHasPendingTrial

(* The streak counter and the window tell the same story: the last         *)
(* consecutiveFails records of the window failed and the one before them   *)
(* succeeded, whatever was trimmed or reset.                               *)
StreakMatchesWindow ==
    \A i \in DOMAIN requests :
        /\ i + consecutiveFails > Len(requests) => requests[i].failed
        /\ i + consecutiveFails = Len(requests) => ~requests[i].failed

(* Once every trial has been given out the breaker decides, unless a trial *)
(* left without a result.                                                  *)
HalfOpenDecides ==
    (state = "HalfOpen" /\ halfOpenCalls = HalfOpenMaxCalls)
        ~> (state # "HalfOpen" \/ lost)
=============================================================================
