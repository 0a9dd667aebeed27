------------------------------ MODULE RequestProofs -----------------------------
(***************************************************************************)
(* Proofs about the way of a request: the circuit breaker of a node, and   *)
(* the handler that takes the request from node to node.                   *)
(***************************************************************************)
EXTENDS CircuitBreaker, RequestRetry, SequenceTheorems, FiniteSetTheorems, TLAPS

------------------------------------------------------------------------------
(* CircuitBreaker: its invariants hold for every configuration.  First the *)
(* sliding window.                                                         *)

(* Appending a result and dropping what has expired leaves a suffix of the *)
(* extended window that still holds the new record.                        *)
LEMMA WindowIsSuffix ==
    ASSUME requests \in Seq(RequestRecord), NEW ok \in BOOLEAN
    PROVE  /\ Window(ok) \in Seq(RequestRecord)
           /\ \E k \in 1 .. Len(requests) + 1 :
                /\ Len(Window(ok)) = Len(requests) + 2 - k
                /\ \A i \in 1 .. Len(Window(ok)) :
                     Window(ok)[i] = Recorded(ok)[k + i - 1]
  <1> DEFINE r == Recorded(ok)
             n == Len(requests) + 1
             e == Expired(r)
             k == TrimIdx(r)
  <1>1. [age |-> 0, failed |-> ~ok] \in RequestRecord
    BY BreakerAssumption DEF RequestRecord
  <1>2. /\ r \in Seq(RequestRecord)
        /\ Len(r) = n
        /\ r[n] = [age |-> 0, failed |-> ~ok]
        /\ n \in Nat
    BY <1>1, AppendProperties, LenProperties DEF Recorded
  <1>3. DOMAIN r = 1 .. n
    BY <1>2, LenProperties
  <1>4. e \subseteq 1 .. n - 1
    <2> SUFFICES ASSUME NEW i \in e PROVE i \in 1 .. n - 1
      OBVIOUS
    <2>1. i \in 1 .. n /\ r[i].age > WindowSeconds
      BY <1>3 DEF Expired
    <2>2. i # n
      BY <2>1, <1>2, BreakerAssumption
    <2> QED
      BY <2>1, <2>2, <1>2
  <1>5. IsFiniteSet(1 .. n - 1) /\ Cardinality(1 .. n - 1) = n - 1
    <2>1. n - 1 \in Nat /\ 1 \in Int /\ n - 1 \in Int
      BY <1>2, LenProperties
    <2> HIDE DEF n
    <2> QED
      BY <2>1, FS_Interval
  <1>6. Cardinality(e) \in Nat /\ Cardinality(e) <= n - 1
    <2>1. IsFiniteSet(e) /\ Cardinality(e) <= Cardinality(1 .. n - 1)
      BY <1>4, <1>5, FS_Subset
    <2> QED
      BY <2>1, <1>5, FS_CardinalityType
  <1>7. k \in 1 .. n
    BY <1>6, <1>2 DEF TrimIdx
  <1>8. \A i \in k .. n : r[i] \in RequestRecord
    BY <1>2, <1>7, ElementOfSeq
  <1>9. /\ SubSeq(r, k, n) \in Seq(RequestRecord)
        /\ Len(SubSeq(r, k, n)) = n - k + 1
        /\ \A i \in 1 .. n - k + 1 : SubSeq(r, k, n)[i] = r[k + i - 1]
    <2>1. k \in Int /\ n \in Int /\ k <= n
      BY <1>7, <1>2
    <2> HIDE DEF r, n, k
    <2> QED
      BY <2>1, <1>8, SubSeqProperties
  <1>10. Window(ok) = SubSeq(r, k, n)
    BY <1>2 DEF Window
  <1>11. n - k + 1 = Len(requests) + 2 - k
    BY <1>7, <1>2, LenProperties
  <1> HIDE DEF k
  <1> QED
    BY <1>7, <1>9, <1>10, <1>11

(* Ageing the window touches neither its length nor which records failed.  *)
LEMMA AgedWindow ==
    ASSUME NEW s \in Seq(RequestRecord)
    PROVE  /\ Aged(s) \in Seq(RequestRecord)
           /\ Len(Aged(s)) = Len(s)
           /\ DOMAIN Aged(s) = DOMAIN s
           /\ \A i \in DOMAIN s : Aged(s)[i].failed = s[i].failed
  <1>1. Len(s) \in Nat /\ DOMAIN s = 1 .. Len(s)
    BY LenProperties
  <1>2. \A i \in DOMAIN s : Aged(s)[i] \in RequestRecord /\ Aged(s)[i].failed = s[i].failed
    <2> SUFFICES ASSUME NEW i \in DOMAIN s
                 PROVE  Aged(s)[i] \in RequestRecord /\ Aged(s)[i].failed = s[i].failed
      OBVIOUS
    <2>1. s[i] \in RequestRecord
      BY <1>1, ElementOfSeq
    <2> QED
      BY <2>1, BreakerAssumption DEF Aged, RequestRecord
  <1>3. Aged(s) \in [1 .. Len(s) -> RequestRecord]
    BY <1>1, <1>2 DEF Aged
  <1>4. Aged(s) \in Seq(RequestRecord) /\ Len(Aged(s)) = Len(s)
    BY <1>1, <1>3
  <1> QED
    BY <1>1, <1>2, <1>4 DEF Aged

------------------------------------------------------------------------------
(* Type correctness.                                                       *)

LEMMA ObserveType ==
    ASSUME BreakerTypeOK, NEW ok \in BOOLEAN, Observe(ok)
    PROVE  requests' \in Seq(RequestRecord) /\ consecutiveFails' \in Nat
  <1>1. Window(ok) \in Seq(RequestRecord)
    BY WindowIsSuffix DEF BreakerTypeOK
  <1> QED
    BY <1>1 DEF BreakerTypeOK, Observe, Streak

(* Every variable keeps its type, and the trial counter its limit.         *)
THEOREM BreakerTypeCorrect == BreakerSpec => []BreakerTypeOK
  <1>0. <<>> \in Seq(RequestRecord)
    BY EmptySeq
  <1>1. BreakerInit => BreakerTypeOK
    <2>1. BreakerInit => lost \in BOOLEAN
      BY DEF BreakerInit
    <2>2. BreakerInit => /\ state \in {"Closed", "Open", "HalfOpen"}
                  /\ consecutiveFails \in Nat
                  /\ sinceChange \in 0 .. CooldownSeconds
                  /\ halfOpenCalls \in 0 .. HalfOpenMaxCalls
                  /\ halfOpenSuccess \in Nat
                  /\ admitted \in Nat
      BY BreakerAssumption DEF BreakerInit
    <2>3. BreakerInit => /\ call \in [Caller -> CallState]
                  /\ requests \in Seq(RequestRecord)
      BY <1>0 DEF BreakerInit, CallState
    <2> QED
      BY <2>1, <2>2, <2>3 DEF BreakerTypeOK
  <1>2. BreakerTypeOK /\ [BreakerNext]_breakerVars => BreakerTypeOK'
    <2> SUFFICES ASSUME BreakerTypeOK, [BreakerNext]_breakerVars PROVE BreakerTypeOK'
      OBVIOUS
    <2> USE BreakerAssumption
    <2>1. ASSUME NEW c \in Caller, AllowRequest(c) PROVE BreakerTypeOK'
      <3>1. CASE AllowClosed(c)
        BY <3>1 DEF BreakerTypeOK, AllowClosed, Admit, CallState
      <3>2. CASE AllowAfterCooldown(c)
        <4>1. halfOpenCalls' \in 0 .. HalfOpenMaxCalls
          <5>1. halfOpenCalls' = 1
            BY <3>2 DEF AllowAfterCooldown
          <5>2. HalfOpenMaxCalls \in Nat \ {0}
            OBVIOUS
          <5> QED
            BY ONLY <5>1, <5>2
        <4>2. /\ sinceChange' \in 0 .. CooldownSeconds
              /\ state' \in {"Closed", "Open", "HalfOpen"}
              /\ halfOpenSuccess' \in Nat
          BY <3>2 DEF AllowAfterCooldown
        <4>4. lost' \in BOOLEAN
          BY ONLY <3>2 DEF AllowAfterCooldown
        <4>3. /\ call' \in [Caller -> CallState]
              /\ admitted' \in Nat
              /\ UNCHANGED <<requests, consecutiveFails>>
          BY <3>2 DEF BreakerTypeOK, AllowAfterCooldown, Admit, CallState
        <4> QED
          BY <4>1, <4>2, <4>4, <4>3 DEF BreakerTypeOK
      <3>3. CASE AllowTrial(c)
        BY <3>3 DEF BreakerTypeOK, AllowTrial, Admit, CallState, SlotFree
      <3> QED
        BY <2>1, <3>1, <3>2, <3>3 DEF AllowRequest
    <2>2. ASSUME NEW c \in Caller, Abandon(c) PROVE BreakerTypeOK'
      BY <2>2 DEF BreakerTypeOK, Abandon, CallState
    <2>3. ASSUME NEW c \in Caller, NEW ok \in BOOLEAN, RecordResult(c, ok)
          PROVE  BreakerTypeOK'
      <3>1. \A b \in BOOLEAN : Report(c, b) =>
              /\ call' \in [Caller -> CallState]
              /\ UNCHANGED <<admitted, lost, halfOpenCalls>>
        BY DEF BreakerTypeOK, Report, CallState
      <3>a. Observe(ok) => requests' \in Seq(RequestRecord) /\ consecutiveFails' \in Nat
        BY ObserveType
      <3>b. \A s \in {"Closed", "Open"} : Transition(s) =>
              state' \in {"Closed", "Open", "HalfOpen"} /\ sinceChange' \in 0 .. CooldownSeconds
        BY DEF Transition
      <3>2. CASE RecordClosed(c, ok)
        <4>1. /\ state' \in {"Closed", "Open", "HalfOpen"}
              /\ sinceChange' \in 0 .. CooldownSeconds
          BY <3>2, <3>b DEF BreakerTypeOK, RecordClosed
        <4>2. requests' \in Seq(RequestRecord) /\ consecutiveFails' \in Nat
          BY <3>2, <3>a DEF RecordClosed
        <4> QED
          BY <3>1, <3>2, <4>1, <4>2 DEF BreakerTypeOK, RecordClosed
      <3>3. CASE RecordOpen(c, ok)
        BY <3>1, <3>3, <3>a DEF BreakerTypeOK, RecordOpen
      <3>4. CASE RecordHalfOpen(c, ok)
        <4>1. halfOpenSuccess' \in Nat
          BY <3>4 DEF BreakerTypeOK, RecordHalfOpen, Successes
        <4>2. CASE RecordEarly(c, ok)
          BY <3>1, <3>4, <4>1, <4>2, <3>a DEF BreakerTypeOK, RecordEarly
        <4>3. CASE RecordClosing(c, ok)
          BY <3>1, <3>b, <4>1, <4>3, <1>0 DEF BreakerTypeOK, RecordClosing
        <4>4. CASE RecordReopening(c, ok)
          BY <3>1, <3>a, <3>b, <4>1, <4>4 DEF BreakerTypeOK, RecordReopening
        <4> QED
          BY <3>4, <4>2, <4>3, <4>4 DEF RecordHalfOpen
      <3> QED
        BY <2>3, <3>2, <3>3, <3>4 DEF RecordResult
    <2>4. ASSUME Reset PROVE BreakerTypeOK'
      BY <2>4, <1>0 DEF BreakerTypeOK, Reset, Transition, CallState
    <2>5. ASSUME Tick PROVE BreakerTypeOK'
      BY <2>5, AgedWindow DEF BreakerTypeOK, Tick
    <2>6. CASE UNCHANGED breakerVars
      BY <2>6 DEF BreakerTypeOK, breakerVars
    <2> QED
      BY <2>1, <2>2, <2>3, <2>4, <2>5, <2>6 DEF BreakerNext, EndCall
  <1> QED
    BY <1>1, <1>2, PTL DEF BreakerSpec

------------------------------------------------------------------------------
(* The counters against the window.                                        *)

(* The ageing of the window never changes the opening condition.           *)
LEMMA AgedKeepsShouldOpen ==
    ASSUME NEW s \in Seq(RequestRecord), NEW fails
    PROVE  ShouldOpen(Aged(s), fails) <=> ShouldOpen(s, fails)
  <1>1. FailedIdx(Aged(s)) = FailedIdx(s)
    BY AgedWindow DEF FailedIdx
  <1> QED
    BY <1>1, AgedWindow DEF ShouldOpen, FailCount

(* A closed breaker is below its opening thresholds, for every             *)
(* configuration and any interleaving of results, trials and resets.       *)
THEOREM ClosedBelowThresholdHolds == BreakerSpec => []ClosedBelowThreshold
  <1>1. ~ShouldOpen(<<>>, 0)
    BY BreakerAssumption, EmptySeq DEF ShouldOpen
  <1>2. BreakerInit => ClosedBelowThreshold
    BY <1>1 DEF BreakerInit, ClosedBelowThreshold
  <1>3. BreakerTypeOK /\ ClosedBelowThreshold /\ [BreakerNext]_breakerVars => ClosedBelowThreshold'
    <2> SUFFICES ASSUME BreakerTypeOK, ClosedBelowThreshold, [BreakerNext]_breakerVars
                 PROVE  ClosedBelowThreshold'
      OBVIOUS
    <2>1. ASSUME NEW c \in Caller, AllowRequest(c) PROVE ClosedBelowThreshold'
      BY <2>1 DEF ClosedBelowThreshold, AllowRequest, AllowClosed,
                  AllowAfterCooldown, AllowTrial, Admit
    <2>2. ASSUME NEW c \in Caller, Abandon(c) PROVE ClosedBelowThreshold'
      BY <2>2 DEF ClosedBelowThreshold, Abandon
    <2>3. ASSUME NEW c \in Caller, NEW ok \in BOOLEAN, RecordResult(c, ok)
          PROVE  ClosedBelowThreshold'
      <3>1. CASE RecordClosed(c, ok)
        BY <3>1 DEF ClosedBelowThreshold, RecordClosed, Observe, Transition
      <3>2. CASE RecordOpen(c, ok)
        BY <3>2 DEF ClosedBelowThreshold, RecordOpen
      <3>3. CASE RecordHalfOpen(c, ok)
        BY <3>3, <1>1 DEF ClosedBelowThreshold, RecordHalfOpen, RecordEarly,
                          RecordClosing, RecordReopening, Transition
      <3> QED
        BY <2>3, <3>1, <3>2, <3>3 DEF RecordResult
    <2>4. ASSUME Reset PROVE ClosedBelowThreshold'
      BY <2>4, <1>1 DEF ClosedBelowThreshold, Reset
    <2>5. ASSUME Tick PROVE ClosedBelowThreshold'
      BY <2>5, AgedKeepsShouldOpen DEF ClosedBelowThreshold, Tick, BreakerTypeOK
    <2>6. CASE UNCHANGED breakerVars
      BY <2>6 DEF ClosedBelowThreshold, breakerVars
    <2> QED
      BY <2>1, <2>2, <2>3, <2>4, <2>5, <2>6 DEF BreakerNext, EndCall
  <1> QED
    BY <1>2, <1>3, BreakerTypeCorrect, PTL DEF BreakerSpec

(* Recording a result keeps the streak and the window in step.             *)
LEMMA ObserveKeepsStreak ==
    ASSUME BreakerTypeOK, StreakMatchesWindow, NEW ok \in BOOLEAN, Observe(ok)
    PROVE  StreakMatchesWindow'
  <1> DEFINE n == Len(requests)
  <1>1. n \in Nat /\ DOMAIN requests = 1 .. n
    BY LenProperties DEF BreakerTypeOK
  <1>2. Window(ok) \in Seq(RequestRecord)
    BY WindowIsSuffix DEF BreakerTypeOK
  <1>3. PICK k \in 1 .. n + 1 :
          /\ Len(Window(ok)) = n + 2 - k
          /\ \A i \in 1 .. Len(Window(ok)) : Window(ok)[i] = Recorded(ok)[k + i - 1]
    BY WindowIsSuffix DEF BreakerTypeOK
  <1>4. /\ \A i \in 1 .. n : Recorded(ok)[i] = requests[i]
        /\ Recorded(ok)[n + 1] = [age |-> 0, failed |-> ~ok]
    <2>1. [age |-> 0, failed |-> ~ok] \in RequestRecord
      BY BreakerAssumption DEF RequestRecord
    <2> QED
      BY <2>1, AppendProperties DEF Recorded, BreakerTypeOK
  <1>5. requests' = Window(ok) /\ consecutiveFails' = Streak(ok)
    BY DEF Observe
  <1>6. DOMAIN Window(ok) = 1 .. n + 2 - k
    BY <1>2, <1>3, LenProperties
  <1> SUFFICES ASSUME NEW i \in 1 .. n + 2 - k
               PROVE  /\ i + Streak(ok) > n + 2 - k => Window(ok)[i].failed
                      /\ i + Streak(ok) = n + 2 - k => ~Window(ok)[i].failed
    BY <1>3, <1>5, <1>6 DEF StreakMatchesWindow
  <1>7. Window(ok)[i] = Recorded(ok)[k + i - 1] /\ k + i - 1 \in 1 .. n + 1
    BY <1>1, <1>3
  <1>8. consecutiveFails \in Nat
    BY DEF BreakerTypeOK
  <1>9. CASE k + i - 1 = n + 1
    <2>1. Window(ok)[i].failed = ~ok
      BY <1>4, <1>7, <1>9
    <2>2. i = n + 2 - k
      BY <1>1, <1>9
    <2>3. CASE ok
      <3>1. Streak(ok) = 0 /\ ~Window(ok)[i].failed
        BY <2>1, <2>3 DEF Streak
      <3>2. ~(i + 0 > n + 2 - k)
        BY <2>2
      <3> QED
        BY <3>1, <3>2
    <2>4. CASE ~ok
      <3>1. Window(ok)[i].failed
        BY <2>1, <2>4
      <3>2. i + Streak(ok) # n + 2 - k
        BY <2>2, <2>4, <1>1, <1>8 DEF Streak
      <3> QED
        BY <3>1, <3>2
    <2> QED
      BY <2>3, <2>4
  <1>10. CASE k + i - 1 # n + 1
    <2> DEFINE j == k + i - 1
    <2>1. j \in 1 .. n /\ Window(ok)[i] = requests[j]
      BY <1>1, <1>4, <1>7, <1>10
    <2>2. /\ j + consecutiveFails > n => requests[j].failed
          /\ j + consecutiveFails = n => ~requests[j].failed
      BY <2>1, <1>1 DEF StreakMatchesWindow
    <2>3. CASE ok
      <3>1. Streak(ok) = 0
        BY <2>3 DEF Streak
      <3>2. ~(i + 0 > n + 2 - k) /\ i + 0 # n + 2 - k
        BY <1>1, <1>10
      <3> QED
        BY <3>1, <3>2
    <2>4. CASE ~ok
      <3>1. Streak(ok) = consecutiveFails + 1
        BY <2>4 DEF Streak
      <3>2. /\ i + Streak(ok) > n + 2 - k => j + consecutiveFails > n
            /\ i + Streak(ok) = n + 2 - k => j + consecutiveFails = n
        BY <3>1, <1>1, <1>8
      <3> QED
        BY <2>1, <2>2, <3>2
    <2> QED
      BY <2>3, <2>4
  <1> QED
    BY <1>9, <1>10

(* The failure streak always describes the tail of the window.             *)
THEOREM StreakMatchesWindowHolds == BreakerSpec => []StreakMatchesWindow
  <1>1. BreakerInit => StreakMatchesWindow
    BY DEF BreakerInit, StreakMatchesWindow
  <1>2. BreakerTypeOK /\ StreakMatchesWindow /\ [BreakerNext]_breakerVars => StreakMatchesWindow'
    <2> SUFFICES ASSUME BreakerTypeOK, StreakMatchesWindow, [BreakerNext]_breakerVars
                 PROVE  StreakMatchesWindow'
      OBVIOUS
    <2>1. ASSUME UNCHANGED <<requests, consecutiveFails>> PROVE StreakMatchesWindow'
      BY <2>1 DEF StreakMatchesWindow
    <2>2. ASSUME requests' = <<>> PROVE StreakMatchesWindow'
      BY <2>2 DEF StreakMatchesWindow
    <2>3. ASSUME NEW c \in Caller, AllowRequest(c) PROVE StreakMatchesWindow'
      BY <2>1, <2>3 DEF AllowRequest, AllowClosed, AllowAfterCooldown, AllowTrial, Admit
    <2>4. ASSUME NEW c \in Caller, Abandon(c) PROVE StreakMatchesWindow'
      BY <2>1, <2>4 DEF Abandon
    <2>5. ASSUME NEW c \in Caller, NEW ok \in BOOLEAN, RecordResult(c, ok)
          PROVE  StreakMatchesWindow'
      <3>1. Observe(ok) \/ requests' = <<>>
        BY <2>5 DEF RecordResult, RecordClosed, RecordOpen, RecordHalfOpen,
                    RecordEarly, RecordClosing, RecordReopening
      <3> QED
        BY <2>2, <3>1, ObserveKeepsStreak
    <2>6. ASSUME Reset PROVE StreakMatchesWindow'
      BY <2>2, <2>6 DEF Reset
    <2>7. ASSUME Tick PROVE StreakMatchesWindow'
      BY <2>7, AgedWindow DEF Tick, StreakMatchesWindow, BreakerTypeOK
    <2>8. CASE UNCHANGED breakerVars
      BY <2>1, <2>8 DEF breakerVars
    <2> QED
      BY <2>3, <2>4, <2>5, <2>6, <2>7, <2>8 DEF BreakerNext, EndCall
  <1> QED
    BY <1>1, <1>2, BreakerTypeCorrect, PTL DEF BreakerSpec
------------------------------------------------------------------------------
(* The trials of a half-open period.                                       *)

(* Every trial in flight holds one of the slots given out.                 *)
TrialsHoldSlots == Cardinality(Trials) <= halfOpenCalls

TrialInv ==
    /\ TrialsHoldSlots
    /\ state # "HalfOpen" => Trials = {}

LEMMA TrialsFinite == IsFiniteSet(Trials) /\ Cardinality(Trials) \in Nat
  <1>1. Trials \subseteq Caller
    BY DEF Trials
  <1> QED
    BY <1>1, BreakerAssumption, FS_Subset, FS_CardinalityType

(* Fewer trials are still covered by the slots.                            *)
LEMMA FewerTrials ==
    ASSUME BreakerTypeOK, BreakerTypeOK', TrialsHoldSlots, Trials' \subseteq Trials,
           halfOpenCalls' = halfOpenCalls
    PROVE  TrialsHoldSlots'
  <1>1. /\ Cardinality(Trials') \in Nat
        /\ Cardinality(Trials') <= Cardinality(Trials)
    BY TrialsFinite, FS_Subset, FS_CardinalityType
  <1> QED
    BY <1>1, TrialsFinite DEF TrialsHoldSlots, BreakerTypeOK

LEMMA NoTrials ==
    ASSUME BreakerTypeOK', Trials' = {}
    PROVE  TrialInv'
  <1> QED
    BY FS_EmptySet DEF TrialInv, TrialsHoldSlots, BreakerTypeOK

(* Reporting never adds a trial, and the end of a period leaves none.      *)
LEMMA ReportTrials ==
    ASSUME BreakerTypeOK, NEW c \in Caller, NEW b \in BOOLEAN, Report(c, b)
    PROVE  /\ Trials' = IF b THEN {} ELSE Trials \ {c}
           /\ halfOpenCalls' = halfOpenCalls
  <1> QED
    BY DEF Report, Trials, BreakerTypeOK, CallState

LEMMA TrialStep ==
    ASSUME BreakerTypeOK, BreakerTypeOK', TrialInv, [BreakerNext]_breakerVars
    PROVE  TrialInv'
  <1>1. ASSUME NEW c \in Caller, AllowClosed(c) PROVE TrialInv'
    <2>1. Trials' \subseteq Trials
      BY <1>1 DEF AllowClosed, Admit, Trials, BreakerTypeOK
    <2>2. Trials' = {}
      BY <1>1, <2>1 DEF AllowClosed, TrialInv
    <2> QED
      BY <2>2, NoTrials
  <1>2. ASSUME NEW c \in Caller, AllowAfterCooldown(c) PROVE TrialInv'
    <2>1. Trials = {}
      BY <1>2 DEF AllowAfterCooldown, TrialInv
    <2>2. Trials' = {c}
      BY <1>2, <2>1 DEF AllowAfterCooldown, Admit, Trials, BreakerTypeOK
    <2>3. Cardinality({c}) = 1
      BY FS_Singleton
    <2> QED
      BY <1>2, <2>2, <2>3 DEF TrialInv, TrialsHoldSlots, AllowAfterCooldown
  <1>3. ASSUME NEW c \in Caller, AllowTrial(c) PROVE TrialInv'
    <2>1. c \notin Trials /\ Trials' = Trials \cup {c}
      BY <1>3 DEF AllowTrial, Admit, Trials, BreakerTypeOK
    <2>2. Cardinality(Trials') = Cardinality(Trials) + 1
      BY <2>1, TrialsFinite, FS_AddElement
    <2> QED
      BY <1>3, <2>2, TrialsFinite DEF TrialInv, TrialsHoldSlots, AllowTrial, BreakerTypeOK
  <1>4. ASSUME NEW c \in Caller, Abandon(c) PROVE TrialInv'
    <2>1. Trials' \subseteq Trials
      BY <1>4 DEF Abandon, Trials, BreakerTypeOK
    <2> QED
      BY <1>4, <2>1, FewerTrials DEF TrialInv, Abandon
  <1>5. ASSUME NEW c \in Caller, NEW ok \in BOOLEAN, RecordResult(c, ok)
        PROVE  TrialInv'
    <2>1. CASE Report(c, TRUE)
      BY <2>1, ReportTrials, NoTrials
    <2>2. CASE Report(c, FALSE) /\ (state' = "HalfOpen" \/ state # "HalfOpen")
      <3>1. Trials' \subseteq Trials /\ halfOpenCalls' = halfOpenCalls
        BY <2>2, ReportTrials
      <3> QED
        BY <2>2, <3>1, FewerTrials DEF TrialInv
    <2> QED
      BY <1>5, <2>1, <2>2 DEF RecordResult, RecordClosed, RecordOpen,
           RecordHalfOpen, RecordEarly, RecordClosing, RecordReopening
  <1>6. ASSUME Reset PROVE TrialInv'
    <2>1. Trials' = {}
      BY <1>6 DEF Reset, Trials, BreakerTypeOK
    <2> QED
      BY <2>1, NoTrials
  <1>7. ASSUME UNCHANGED <<state, halfOpenCalls, call>> PROVE TrialInv'
    BY <1>7 DEF TrialInv, TrialsHoldSlots, Trials
  <1> QED
    BY <1>1, <1>2, <1>3, <1>4, <1>5, <1>6, <1>7
    DEF BreakerNext, EndCall, AllowRequest, Tick, breakerVars

(* Type correctness and the trials, together.                              *)
LEMMA TrialInvHolds == BreakerSpec => []TrialInv
  <1>1. BreakerInit => Trials = {}
    BY DEF BreakerInit, Trials
  <1>2. BreakerInit => TrialInv
    <2>1. Cardinality({}) = 0
      BY FS_EmptySet
    <2>2. BreakerInit => halfOpenCalls = 0
      BY DEF BreakerInit
    <2> QED
      BY <1>1, <2>1, <2>2 DEF TrialInv, TrialsHoldSlots
  <1>3. BreakerTypeOK /\ BreakerTypeOK' /\ TrialInv /\ [BreakerNext]_breakerVars => TrialInv'
    BY TrialStep
  <1> QED
    BY <1>2, <1>3, BreakerTypeCorrect, PTL DEF BreakerSpec

(* Never more than HalfOpenMaxCalls trials in flight, for any number of    *)
(* goroutines, and none outside a half-open period.                        *)
THEOREM TrialBoundHolds == BreakerSpec => []TrialBound
  <1>1. BreakerTypeOK /\ TrialInv => TrialBound
    BY TrialsFinite, BreakerAssumption DEF BreakerTypeOK, TrialInv, TrialsHoldSlots, TrialBound
  <1> QED
    BY <1>1, BreakerTypeCorrect, TrialInvHolds, PTL

(* A half-open breaker without a free slot waits for a trial that is in    *)
(* flight or that was abandoned: results alone never strand it.            *)
THEOREM FullHalfOpenHasPendingTrialHolds == BreakerSpec => []FullHalfOpenHasPendingTrial
  <1>1. BreakerInit => FullHalfOpenHasPendingTrial
    BY DEF BreakerInit, FullHalfOpenHasPendingTrial
  <1>2. BreakerTypeOK /\ FullHalfOpenHasPendingTrial /\ [BreakerNext]_breakerVars
          => FullHalfOpenHasPendingTrial'
    <2> SUFFICES ASSUME BreakerTypeOK, FullHalfOpenHasPendingTrial, [BreakerNext]_breakerVars
                 PROVE  FullHalfOpenHasPendingTrial'
      OBVIOUS
    <2>1. ASSUME NEW c \in Caller, AllowRequest(c) PROVE FullHalfOpenHasPendingTrial'
      <3>1. AllowClosed(c) => state' # "HalfOpen"
        BY DEF AllowClosed
      <3>2. AllowAfterCooldown(c) \/ AllowTrial(c) => c \in Trials'
        BY DEF AllowAfterCooldown, AllowTrial, Admit, Trials, BreakerTypeOK
      <3> QED
        BY <2>1, <3>1, <3>2 DEF AllowRequest, FullHalfOpenHasPendingTrial
    <2>2. ASSUME NEW c \in Caller, Abandon(c) PROVE FullHalfOpenHasPendingTrial'
      <3>1. CASE c \in Trials
        BY <2>2, <3>1 DEF Abandon, FullHalfOpenHasPendingTrial, Trials
      <3>2. CASE c \notin Trials
        <4>1. Trials' = Trials /\ lost' = lost
          BY <2>2, <3>2 DEF Abandon, Trials, BreakerTypeOK
        <4> QED
          BY <2>2, <4>1 DEF Abandon, FullHalfOpenHasPendingTrial
      <3> QED
        BY <3>1, <3>2
    <2>3. ASSUME NEW c \in Caller, NEW ok \in BOOLEAN, RecordResult(c, ok)
          PROVE  FullHalfOpenHasPendingTrial'
      <3>1. CASE RecordClosed(c, ok) \/ RecordOpen(c, ok)
        BY <3>1 DEF RecordClosed, RecordOpen, Transition, FullHalfOpenHasPendingTrial
      <3>2. CASE RecordHalfOpen(c, ok)
        <4>1. CASE RecordEarly(c, ok)
          <5>1. halfOpenCalls' < HalfOpenMaxCalls
            BY <4>1, BreakerAssumption DEF RecordEarly, TrialsUsed, Report, BreakerTypeOK
          <5> QED
            BY <5>1, BreakerAssumption DEF FullHalfOpenHasPendingTrial
        <4>2. CASE RecordClosing(c, ok) \/ RecordReopening(c, ok)
          BY <4>2 DEF RecordClosing, RecordReopening, Transition,
                      FullHalfOpenHasPendingTrial
        <4> QED
          BY <3>2, <4>1, <4>2 DEF RecordHalfOpen
      <3> QED
        BY <2>3, <3>1, <3>2 DEF RecordResult
    <2>4. ASSUME Reset PROVE FullHalfOpenHasPendingTrial'
      BY <2>4 DEF Reset, Transition, FullHalfOpenHasPendingTrial
    <2>5. ASSUME UNCHANGED <<state, halfOpenCalls, call, lost>>
          PROVE  FullHalfOpenHasPendingTrial'
      BY <2>5 DEF FullHalfOpenHasPendingTrial, Trials
    <2> QED
      BY <2>1, <2>2, <2>3, <2>4, <2>5 DEF BreakerNext, EndCall, Tick, breakerVars
  <1> QED
    BY <1>1, <1>2, BreakerTypeCorrect, PTL DEF BreakerSpec

(* Both together: the slots are neither overdrawn nor lost.                *)
THEOREM TrialSlotsHolds == BreakerSpec => []TrialSlots
  <1>1. TrialBound /\ FullHalfOpenHasPendingTrial => TrialSlots
    BY DEF TrialSlots
  <1> QED
    BY <1>1, TrialBoundHolds, FullHalfOpenHasPendingTrialHolds, PTL

------------------------------------------------------------------------------
(* RequestRetry, for any number of nodes, handlers, attempts and tries:    *)
(* its invariants, the bound on a handler's steps, and that it keeps the   *)
(* promise of Exchange.                                                    *)
(*                                                                         *)
(* Everything rests on one lemma, HandlerMoves: a step of a handler takes  *)
(* its locals h to well-formed locals k, nearer to the end, and does to    *)
(* the client one of the four things Exchange allows.                      *)

N == Cardinality(Node)

Working(h) == h.pc \notin {"idle", "done"}

(* The first status the client sees stays.                                 *)
Shown(h, k) ==
    /\ k.client \in Status
    /\ h.client # NoStatus => k.client = h.client

Quiet(h, k) == Working(k) /\ k.client = h.client /\ k.servedBy = h.servedBy
Answers(h, k) == Working(k) /\ Shown(h, k) /\ k.servedBy = h.servedBy
Serves(h, k) ==
    /\ Working(k) /\ Shown(h, k)
    /\ h.servedBy = {} /\ \E n \in Node : k.servedBy = {n}
Ends(h, k) == k.pc = "done" /\ Shown(h, k) /\ k.servedBy = h.servedBy

Moves(h, k) ==
    /\ HandlerOK(k)
    /\ StepsLeft(k) < StepsLeft(h)
    /\ Quiet(h, k) \/ Answers(h, k) \/ Serves(h, k) \/ Ends(h, k)

------------------------------------------------------------------------------
(* Arithmetic of the loop.                                                 *)

LEMMA NodeCount == N \in Nat
  BY ConfigAssumption, FS_CardinalityType DEF N

LEMMA LoopsBounded ==
    ASSUME NEW h, HandlerOK(h)
    PROVE  h.loops \in 0 .. N
  <1>1. h.skip \in SUBSET Node /\ h.loops = Cardinality(h.skip) /\ h.loops \in Nat
    BY DEF HandlerOK, HandlerState
  <1>2. Cardinality(h.skip) <= Cardinality(Node)
    BY <1>1, ConfigAssumption, FS_Subset
  <1> QED
    BY <1>1, <1>2, NodeCount DEF N

(* A turn that skips its node leaves room for it.                          *)
LEMMA SkipCount ==
    ASSUME NEW h, HandlerOK(h), h.node \in Node \ h.skip
    PROVE  /\ Cardinality(h.skip \cup {h.node}) = h.loops + 1
           /\ h.loops + 1 <= N
  <1>1. h.skip \in SUBSET Node /\ h.loops = Cardinality(h.skip) /\ h.loops \in Nat
    BY DEF HandlerOK, HandlerState
  <1>2. IsFiniteSet(h.skip)
    BY <1>1, ConfigAssumption, FS_Subset
  <1>3. Cardinality(h.skip \cup {h.node}) = h.loops + 1
    BY <1>1, <1>2, FS_AddElement
  <1>4. h.skip \cup {h.node} \in SUBSET Node
    BY <1>1
  <1>5. Cardinality(h.skip \cup {h.node}) <= Cardinality(Node)
    BY <1>4, ConfigAssumption, FS_Subset
  <1> QED
    BY <1>1, <1>3, <1>5 DEF N

LEMMA TurnOff ==
    ASSUME NEW l \in Nat, l + 1 <= N
    PROVE  Turn * (N - l) = Turn * (N - (l + 1)) + Turn
  <1>1. Turn \in Nat /\ N - l \in Nat /\ N - (l + 1) \in Nat
        /\ N - l = (N - (l + 1)) + 1
    BY NodeCount, ConfigAssumption DEF Turn
  <1>2. \A a, b \in Nat : a * (b + 1) = a * b + a
    OBVIOUS
  <1> QED
    BY <1>1, <1>2

LEMMA StepsLeftType ==
    ASSUME NEW h, HandlerOK(h)
    PROVE  /\ Turn * (N - h.loops) \in Nat
           /\ StepsInTurn(h) \in 0 .. Turn
           /\ StepsLeft(h) \in Nat
           /\ Working(h) => StepsLeft(h) > 0
           /\ Working(h) => StepsInTurn(h) > 0
  <1>1. Turn \in Nat /\ N - h.loops \in Nat /\ h.tries \in 0 .. TransportAttempts
        /\ TransportAttempts \in Nat
    BY LoopsBounded, NodeCount, ConfigAssumption DEF Turn, HandlerOK, HandlerState
  <1>2. Turn * (N - h.loops) \in Nat
    BY <1>1
  <1>3. h.pc \in PC
    BY DEF HandlerOK, HandlerState
  <1>4. StepsInTurn(h) \in 0 .. Turn /\ (Working(h) => StepsInTurn(h) > 0)
    BY <1>1, <1>3 DEF StepsInTurn, Turn, PC, Working
  <1> QED
    BY <1>2, <1>4 DEF StepsLeft, Working, N

(* Within a turn only the number of steps of the turn counts.              *)
LEMMA SameTurn ==
    ASSUME NEW h, NEW k, HandlerOK(h), HandlerOK(k), Working(h), Working(k),
           k.loops = h.loops, StepsInTurn(k) < StepsInTurn(h)
    PROVE  StepsLeft(k) < StepsLeft(h)
  BY StepsLeftType DEF StepsLeft, Working, N

LEMMA NextTurn ==
    ASSUME NEW h, NEW k, HandlerOK(h), HandlerOK(k), Working(h), Working(k),
           k.loops = h.loops + 1
    PROVE  StepsLeft(k) < StepsLeft(h)
  <1>1. h.loops \in Nat /\ h.loops + 1 <= N
    BY LoopsBounded, NodeCount
  <1>2. Turn * (N - h.loops) = Turn * (N - k.loops) + Turn
    BY <1>1, TurnOff
  <1>3. /\ StepsInTurn(k) \in 0 .. Turn /\ StepsInTurn(h) \in 0 .. Turn
        /\ StepsInTurn(h) > 0
        /\ Turn * (N - k.loops) \in Nat /\ Turn \in Nat
    BY StepsLeftType, ConfigAssumption DEF Turn
  <1> QED
    BY <1>2, <1>3 DEF StepsLeft, Working, N

------------------------------------------------------------------------------
(* The helpers that end a step.                                            *)

LEMMA EmptySkip == Cardinality({}) = 0
  BY FS_EmptySet

LEMMA NewRequestOK ==
    HandlerOK(NewRequest) /\ HandlerOK([NewRequest EXCEPT !.pc = "idle"])
  BY EmptySkip, ConfigAssumption DEF NewRequest, HandlerOK, HandlerState, PC, NoStatus, Status

LEMMA SeenOK ==
    ASSUME NEW h \in HandlerState, NEW s \in Status
    PROVE  Seen(h, s) \in Status /\ (h.client # NoStatus => Seen(h, s) = h.client)
  BY DEF Seen, HandlerState

LEMMA NotAStatus == NoStatus \notin Status
  BY DEF NoStatus, Status, UpstreamStatus, ContextStatus

(* What a step may change before the handler returns or goes on: its       *)
(* counters, never what it has done for the client.                        *)
Alike(h, g) ==
    /\ g \in HandlerState
    /\ g.node = h.node /\ g.skip = h.skip /\ g.loops = h.loops
    /\ g.client = h.client /\ g.servedBy = h.servedBy

(* A handler that returns: what the client has seen is a response.         *)
LEMMA ReturnedMoves ==
    ASSUME NEW h, HandlerOK(h), Working(h), h.client # NoStatus,
           NEW g, Alike(h, g)
    PROVE  Moves(h, Returned(g))
  <1> DEFINE k == Returned(g)
  <1>1. /\ k \in HandlerState
        /\ k.pc = "done" /\ k.client = h.client /\ k.servedBy = h.servedBy
        /\ k.skip = {} /\ k.loops = 0 /\ k.attempt = 0
    BY ConfigAssumption DEF Alike, HandlerState, Returned, PC
  <1>2. HandlerOK(k)
    BY <1>1, EmptySkip DEF HandlerOK
  <1>3. StepsLeft(k) < StepsLeft(h)
    <2>1. StepsLeft(k) = 0
      BY <1>1 DEF StepsLeft
    <2> QED
      BY <2>1, StepsLeftType
  <1>4. h.client \in Status
    BY DEF HandlerOK, HandlerState
  <1> QED
    BY <1>1, <1>2, <1>3, <1>4 DEF Moves, Ends, Shown

LEMMA RefusedMoves ==
    ASSUME NEW h, HandlerOK(h), Working(h), NEW s \in Status
    PROVE  Moves(h, [Returned(h) EXCEPT !.client = Seen(h, s)])
  <1> DEFINE c == Seen(h, s)
             k == [Returned(h) EXCEPT !.client = c]
  <1>0. h \in HandlerState
    BY DEF HandlerOK
  <1>1. c \in Status /\ (h.client # NoStatus => c = h.client)
    BY <1>0, SeenOK
  <1> HIDE DEF c
  <1>2. /\ k \in HandlerState
        /\ k.pc = "done" /\ k.client = c /\ k.servedBy = h.servedBy
        /\ k.skip = {} /\ k.loops = 0 /\ k.attempt = 0
    BY <1>0, <1>1, ConfigAssumption DEF HandlerState, Returned, PC
  <1>3. HandlerOK(k)
    BY <1>1, <1>2, EmptySkip, NotAStatus DEF HandlerOK
  <1>4. StepsLeft(k) < StepsLeft(h)
    <2>1. StepsLeft(k) = 0
      BY <1>2 DEF StepsLeft
    <2> QED
      BY <2>1, StepsLeftType
  <1>5. Moves(h, k)
    BY <1>1, <1>2, <1>3, <1>4 DEF Moves, Ends, Shown
  <1> QED
    BY <1>5 DEF c

(* The next turn of the loop.                                              *)
LEMMA NextNodeMoves ==
    ASSUME NEW h, HandlerOK(h), h.pc \notin {"idle", "select", "done"},
           h.servedBy = {}, NEW g, Alike(h, g), g.attempt <= h.loops + 1
    PROVE  Moves(h, NextNode(g))
  <1> DEFINE k == NextNode(g)
  <1>1. h \in HandlerState /\ h.node \in Node \ h.skip
        /\ h.skip \cup {h.node} \in SUBSET Node
        /\ h.loops \in Nat /\ h.loops + 1 \in Nat
        /\ h.loops = Cardinality(h.skip)
    BY DEF HandlerOK, HandlerState
  <1>2. /\ k \in HandlerState
        /\ k.pc = "select" /\ k.client = h.client /\ k.servedBy = h.servedBy
        /\ k.skip = h.skip \cup {h.node} /\ k.loops = h.loops + 1
        /\ k.attempt = g.attempt
    <2>1. "select" \in PC
      BY DEF PC
    <2> QED
      BY <1>1, <2>1 DEF Alike, HandlerState, NextNode
  <1>3. k.loops = Cardinality(k.skip)
    BY <1>1, <1>2, SkipCount
  <1>4. HandlerOK(k)
    <2>1. k.attempt <= k.loops + 0
      BY <1>1, <1>2 DEF Alike, HandlerState
    <2> QED
      BY <1>1, <1>2, <1>3, <2>1 DEF HandlerOK
  <1>5. Working(h) /\ Working(k)
    BY <1>2 DEF Working
  <1>6. StepsLeft(k) < StepsLeft(h)
    BY <1>2, <1>4, <1>5, NextTurn
  <1> QED
    BY <1>2, <1>4, <1>5, <1>6 DEF Moves, Quiet

(* The response of an attempt reaches the client, if it is the first.      *)
LEMMA RespondedMoves ==
    ASSUME NEW h, HandlerOK(h), h.pc = "upstream", NEW s \in Status
    PROVE  /\ Moves(h, Responded(h, s))
           /\ s = "200" =>
                Moves(h, [Responded(h, s) EXCEPT !.servedBy = h.servedBy \cup {h.node}])
  <1> DEFINE c == Seen(h, s)
             k == [h EXCEPT !.pc = "respond", !.tries = 0, !.last = NoStatus,
                            !.status = s, !.client = c]
             m == [k EXCEPT !.servedBy = h.servedBy \cup {h.node}]
  <1>0. h \in HandlerState /\ h.node \in Node \ h.skip /\ h.servedBy = {}
        /\ h.loops = Cardinality(h.skip) /\ h.attempt <= h.loops
        /\ h.tries \in Nat /\ h.tries > 0 /\ h.servedBy \cup {h.node} \in SUBSET Node
        /\ h.loops \in Nat /\ h.attempt \in Nat
    BY ConfigAssumption DEF HandlerOK, HandlerState
  <1>1. c \in Status /\ (h.client # NoStatus => c = h.client)
    BY <1>0, SeenOK
  <1> HIDE DEF c
  <1>2. /\ k \in HandlerState
        /\ k.pc = "respond" /\ k.client = c /\ k.servedBy = h.servedBy
        /\ k.skip = h.skip /\ k.loops = h.loops /\ k.status = s
        /\ k.attempt = h.attempt /\ k.node = h.node /\ k.tries = 0
    <2>1. "respond" \in PC /\ 0 \in 0 .. TransportAttempts
      BY ConfigAssumption DEF PC
    <2> QED
      BY <1>0, <1>1, <2>1 DEF HandlerState
  <1>3. /\ m \in HandlerState
        /\ m.pc = "respond" /\ m.client = c /\ m.servedBy = {h.node}
        /\ m.skip = h.skip /\ m.loops = h.loops /\ m.status = s
        /\ m.attempt = h.attempt /\ m.node = h.node /\ m.tries = 0
    BY <1>0, <1>2 DEF HandlerState
  <1> HIDE DEF k, m
  <1>4. HandlerOK(k)
    BY <1>0, <1>1, <1>2, NotAStatus DEF HandlerOK
  <1>5. s = "200" => HandlerOK(m)
    BY <1>0, <1>1, <1>3, NotAStatus DEF HandlerOK
  <1>6. Working(h) /\ Working(k) /\ Working(m)
    BY <1>2, <1>3 DEF Working
  <1>7. StepsInTurn(h) = h.tries + 3 /\ StepsInTurn(k) = 3 /\ StepsInTurn(m) = 3
    BY <1>2, <1>3 DEF StepsInTurn
  <1>8. StepsLeft(k) < StepsLeft(h)
    BY <1>0, <1>2, <1>4, <1>6, <1>7, SameTurn
  <1>9. s = "200" => StepsLeft(m) < StepsLeft(h)
    BY <1>0, <1>3, <1>5, <1>6, <1>7, SameTurn
  <1>10. Moves(h, k)
    BY <1>1, <1>2, <1>4, <1>6, <1>8 DEF Moves, Answers, Shown
  <1>11. s = "200" => Moves(h, m)
    BY <1>0, <1>1, <1>3, <1>5, <1>6, <1>9 DEF Moves, Serves, Shown
  <1> QED
    BY <1>10, <1>11 DEF c, k, m, Responded

(* Another try of the transport, or the response of the last one.          *)
LEMMA AfterTryMoves ==
    ASSUME NEW h, HandlerOK(h), h.pc = "upstream",
           NEW last \in UpstreamStatus \cup {NoStatus}
    PROVE  Moves(h, AfterTry(h, last))
  <1> DEFINE k == [h EXCEPT !.tries = TriesLeft(h), !.last = last]
  <1>1. CASE TriesLeft(h) > 0
    <2>1. h \in HandlerState /\ h.tries \in 0 .. TransportAttempts
          /\ TransportAttempts \in Nat /\ TriesLeft(h) \in 0 .. TransportAttempts
          /\ TriesLeft(h) + 3 < h.tries + 3
      BY <1>1, ConfigAssumption DEF HandlerOK, HandlerState, TriesLeft
    <2>2. /\ k \in HandlerState
          /\ k.pc = "upstream" /\ k.client = h.client /\ k.servedBy = h.servedBy
          /\ k.skip = h.skip /\ k.loops = h.loops /\ k.status = h.status
          /\ k.attempt = h.attempt /\ k.node = h.node /\ k.tries = TriesLeft(h)
      BY <2>1 DEF HandlerState
    <2> HIDE DEF k
    <2>3. HandlerOK(k)
      BY <1>1, <2>2 DEF HandlerOK
    <2>4. Working(h) /\ Working(k)
      BY <2>2 DEF Working
    <2>5. StepsInTurn(h) = h.tries + 3 /\ StepsInTurn(k) = TriesLeft(h) + 3
      BY <2>2 DEF StepsInTurn
    <2>6. StepsLeft(k) < StepsLeft(h)
      BY <2>1, <2>2, <2>3, <2>4, <2>5, SameTurn
    <2>7. Moves(h, k)
      BY <2>2, <2>3, <2>4, <2>6 DEF Moves, Quiet
    <2> QED
      BY <1>1, <2>7 DEF AfterTry, k
  <1>2. CASE ~(TriesLeft(h) > 0)
    <2>1. (IF last = NoStatus THEN "503" ELSE last) \in Status
      BY DEF Status, UpstreamStatus
    <2> QED
      BY <1>2, <2>1, RespondedMoves DEF AfterTry
  <1> QED
    BY <1>1, <1>2

(* After a failed attempt.                                                 *)
LEMMA AfterFailureMoves ==
    ASSUME NEW h, HandlerOK(h), h.pc \in {"streak", "mark"},
           NEW g, Alike(h, g), g.attempt = h.attempt
    PROVE  Moves(h, AfterFailure(g))
  <1>1. Working(h) /\ h.servedBy = {} /\ h.client # NoStatus /\ g.attempt <= h.loops + 1
    BY DEF HandlerOK, Working
  <1>2. Moves(h, NextNode(g))
    BY <1>1, NextNodeMoves
  <1>3. Moves(h, Returned(g))
    BY <1>1, ReturnedMoves
  <1> QED
    BY <1>2, <1>3 DEF AfterFailure

(* A step within a turn that changes neither what the client has seen nor  *)
(* the nodes set aside.                                                    *)
LEMMA QuietMoves ==
    ASSUME NEW h, HandlerOK(h), Working(h), NEW k, HandlerOK(k), Working(k),
           k.loops = h.loops, k.client = h.client, k.servedBy = h.servedBy,
           StepsInTurn(k) < StepsInTurn(h)
    PROVE  Moves(h, k)
  BY SameTurn DEF Moves, Quiet

------------------------------------------------------------------------------
(* The steps of a handler.                                                 *)

Turned(r, k) == handler' = [handler EXCEPT ![r] = k] /\ Moves(handler[r], k)

LEMMA HandlerMoves ==
    ASSUME TypeOK, NEW r \in Request, Step(r)
    PROVE  \E k : Turned(r, k)
  <1> DEFINE h == handler[r]
  <1>1. /\ HandlerOK(h) /\ h \in HandlerState
        /\ h.pc \in PC /\ h.loops \in Nat /\ h.attempt \in Nat
        /\ h.loops = Cardinality(h.skip) /\ h.attempt <= h.loops + 1
    BY DEF TypeOK, HandlerOK, HandlerState
  <1>2. ASSUME NEW n \in Node, SelectNode(r, n) PROVE \E k : Turned(r, k)
    <2> DEFINE k == [h EXCEPT !.pc = "admit", !.node = n]
    <2>1. h.pc = "select" /\ n \in Node \ h.skip /\ Update(r, k)
      BY <1>2 DEF SelectNode
    <2>2. /\ k \in HandlerState
          /\ k.pc = "admit" /\ k.node = n /\ k.skip = h.skip /\ k.loops = h.loops
          /\ k.attempt = h.attempt /\ k.client = h.client /\ k.servedBy = h.servedBy
      BY <1>1, <2>1 DEF HandlerState, PC
    <2> HIDE DEF k
    <2>3. HandlerOK(k)
      BY <1>1, <2>1, <2>2 DEF HandlerOK
    <2>4. StepsInTurn(k) < StepsInTurn(h)
      BY <2>1, <2>2, ConfigAssumption DEF StepsInTurn
    <2>5. Moves(h, k)
      BY <1>1, <2>1, <2>2, <2>3, <2>4, QuietMoves DEF Working
    <2> QED
      BY <2>1, <2>5 DEF Update, Turned
  <1>3. ASSUME GiveUp(r) \/ DeadlineOver(r) PROVE \E k : Turned(r, k)
    <2> DEFINE k == [Returned(h) EXCEPT !.client = Seen(h, "503")]
    <2>1. Working(h) /\ Update(r, k)
      BY <1>3 DEF GiveUp, DeadlineOver, Working
    <2>2. Moves(h, k)
      BY <1>1, <2>1, RefusedMoves DEF Status, UpstreamStatus
    <2> QED
      BY <2>1, <2>2 DEF Update, Turned
  <1>4. ASSUME BreakerRefuses(r) PROVE \E k : Turned(r, k)
    <2>1. h.pc = "admit" /\ h.servedBy = {} /\ h.attempt <= h.loops + 1 /\ Alike(h, h)
          /\ Update(r, NextNode(h))
      BY <1>1, <1>4 DEF BreakerRefuses, HandlerOK, Alike
    <2>2. Moves(h, NextNode(h))
      BY <1>1, <2>1, NextNodeMoves
    <2> QED
      BY <2>1, <2>2 DEF Update, Turned
  <1>5. ASSUME Send(r) PROVE \E k : Turned(r, k)
    <2> DEFINE k == [h EXCEPT !.pc = "upstream", !.tries = TransportAttempts]
    <2>1. h.pc = "admit" /\ Update(r, k)
      BY <1>5 DEF Send
    <2>2. TransportAttempts \in 0 .. TransportAttempts /\ TransportAttempts > 0
          /\ TransportAttempts \in Nat
      BY ConfigAssumption
    <2>3. /\ k \in HandlerState
          /\ k.pc = "upstream" /\ k.node = h.node /\ k.skip = h.skip /\ k.loops = h.loops
          /\ k.attempt = h.attempt /\ k.client = h.client /\ k.servedBy = h.servedBy
          /\ k.tries = TransportAttempts
      BY <1>1, <2>1, <2>2 DEF HandlerState, PC
    <2> HIDE DEF k
    <2>4. HandlerOK(k)
      BY <1>1, <2>1, <2>2, <2>3 DEF HandlerOK
    <2>5. StepsInTurn(k) < StepsInTurn(h)
      BY <2>1, <2>2, <2>3 DEF StepsInTurn
    <2>6. Moves(h, k)
      BY <1>1, <2>1, <2>3, <2>4, <2>5, QuietMoves DEF Working
    <2> QED
      BY <2>1, <2>6 DEF Update, Turned
  <1>6. ASSUME UpstreamOK(r) PROVE \E k : Turned(r, k)
    <2> DEFINE k == [Responded(h, "200") EXCEPT !.servedBy = h.servedBy \cup {h.node}]
    <2>1. h.pc = "upstream" /\ Update(r, k)
      BY <1>6 DEF UpstreamOK
    <2>2. "200" \in Status
      BY DEF Status
    <2>3. Moves(h, k)
      BY <1>1, <2>1, <2>2, RespondedMoves
    <2> QED
      BY <2>1, <2>3 DEF Update, Turned
  <1>7. ASSUME NEW s \in UpstreamStatus, UpstreamFails(r, s) PROVE \E k : Turned(r, k)
    <2>1. h.pc = "upstream" /\ Update(r, AfterTry(h, s))
      BY <1>7 DEF UpstreamFails
    <2>2. Moves(h, AfterTry(h, s))
      BY <1>1, <2>1, AfterTryMoves
    <2> QED
      BY <2>1, <2>2 DEF Update, Turned
  <1>8. ASSUME ConnectionFails(r) PROVE \E k : Turned(r, k)
    <2>1. h.pc = "upstream" /\ Update(r, AfterTry(h, h.last))
      BY <1>8 DEF ConnectionFails
    <2>2. h.last \in UpstreamStatus \cup {NoStatus}
      BY <1>1 DEF HandlerState
    <2>3. Moves(h, AfterTry(h, h.last))
      BY <1>1, <2>1, <2>2, AfterTryMoves
    <2> QED
      BY <2>1, <2>3 DEF Update, Turned
  <1>9. ASSUME NEW s \in ContextStatus, ContextEnds(r, s) PROVE \E k : Turned(r, k)
    <2>1. h.pc = "upstream" /\ Update(r, Responded(h, s)) /\ s \in Status
      BY <1>9 DEF ContextEnds, Status
    <2>2. Moves(h, Responded(h, s))
      BY <1>1, <2>1, RespondedMoves
    <2> QED
      BY <2>1, <2>2 DEF Update, Turned
  <1>10. ASSUME StreamAborts(r) PROVE \E k : Turned(r, k)
    <2>1. Working(h) /\ h.client # NoStatus /\ Alike(h, h) /\ Update(r, Returned(h))
      BY <1>1, <1>10 DEF StreamAborts, Working, HandlerOK, Alike
    <2>2. Moves(h, Returned(h))
      BY <1>1, <2>1, ReturnedMoves
    <2> QED
      BY <2>1, <2>2 DEF Update, Turned
  <1>11. ASSUME RecordMetrics(r) PROVE \E k : Turned(r, k)
    <2> DEFINE g == [h EXCEPT !.attempt = h.attempt + 1]
               k == [g EXCEPT !.pc = "streak"]
    <2>1. /\ g \in HandlerState /\ g.pc = h.pc /\ g.node = h.node /\ g.skip = h.skip
          /\ g.loops = h.loops /\ g.client = h.client /\ g.servedBy = h.servedBy
          /\ g.status = h.status /\ g.attempt = h.attempt + 1
      BY <1>1 DEF HandlerState
    <2>2. Update(r, IF g.status = "200" \/ ContextError(g) THEN Returned(g) ELSE k)
          /\ g.pc = "respond"
      BY <1>11 DEF RecordMetrics
    <2>3. /\ k \in HandlerState /\ k.pc = "streak" /\ k.node = h.node /\ k.skip = h.skip
          /\ k.loops = h.loops /\ k.client = h.client /\ k.servedBy = h.servedBy
          /\ k.status = h.status /\ k.attempt = h.attempt + 1
      BY <2>1 DEF HandlerState, PC
    <2> HIDE DEF g, k
    <2>4. CASE g.status = "200" \/ ContextError(g)
      <3>1. Working(h) /\ h.client # NoStatus /\ Alike(h, g)
        BY <1>1, <2>1, <2>2 DEF Working, HandlerOK, Alike
      <3>2. Moves(h, Returned(g))
        BY <1>1, <3>1, ReturnedMoves
      <3> QED
        BY <2>2, <2>4, <3>2 DEF Update, Turned
    <2>5. CASE ~(g.status = "200" \/ ContextError(g))
      <3>1. h.pc = "respond" /\ h.status # "200" /\ h.attempt <= h.loops + 0
            /\ h.servedBy = {}
        BY <1>1, <2>1, <2>2, <2>5 DEF HandlerOK
      <3>2. HandlerOK(k)
        BY <1>1, <2>3, <3>1 DEF HandlerOK
      <3>3. StepsInTurn(k) < StepsInTurn(h)
        BY <2>3, <3>1 DEF StepsInTurn
      <3>4. Moves(h, k)
        BY <1>1, <2>3, <3>1, <3>2, <3>3, QuietMoves DEF Working
      <3> QED
        BY <2>2, <2>5, <3>4 DEF Update, Turned
    <2> QED
      BY <2>4, <2>5
  <1>12. ASSUME CountFailure(r) PROVE \E k : Turned(r, k)
    <2> DEFINE k == [h EXCEPT !.pc = "mark"]
    <2>1. h.pc = "streak" /\ Alike(h, h)
      BY <1>1, <1>12 DEF CountFailure, Alike
    <2>2. /\ k \in HandlerState /\ k.pc = "mark" /\ k.node = h.node /\ k.skip = h.skip
          /\ k.loops = h.loops /\ k.client = h.client /\ k.servedBy = h.servedBy
          /\ k.status = h.status /\ k.attempt = h.attempt
      BY <1>1 DEF HandlerState, PC
    <2>3. Update(r, k) \/ Update(r, AfterFailure(h))
      BY <1>12 DEF CountFailure
    <2> HIDE DEF k
    <2>4. HandlerOK(k)
      BY <1>1, <2>1, <2>2 DEF HandlerOK
    <2>5. StepsInTurn(k) < StepsInTurn(h)
      BY <2>1, <2>2 DEF StepsInTurn
    <2>6. Moves(h, k)
      BY <1>1, <2>1, <2>2, <2>4, <2>5, QuietMoves DEF Working
    <2>7. Moves(h, AfterFailure(h))
      BY <1>1, <2>1, AfterFailureMoves
    <2> QED
      BY <2>3, <2>6, <2>7 DEF Update, Turned
  <1>13. ASSUME MarkFailed(r) PROVE \E k : Turned(r, k)
    <2>1. h.pc = "mark" /\ Alike(h, h) /\ Update(r, AfterFailure(h))
      BY <1>1, <1>13 DEF MarkFailed, Alike
    <2>2. Moves(h, AfterFailure(h))
      BY <1>1, <2>1, AfterFailureMoves
    <2> QED
      BY <2>1, <2>2 DEF Update, Turned
  <1> QED
    BY <1>2, <1>3, <1>4, <1>5, <1>6, <1>7, <1>8, <1>9, <1>10, <1>11, <1>12, <1>13
       DEF Step

------------------------------------------------------------------------------
(* The invariants.                                                         *)

(* A step leaves the keys, the flags and the streaks well-formed.          *)
PoolOK ==
    /\ nodes \subseteq Node
    /\ failed \in [Node -> BOOLEAN]
    /\ streak \in [Node -> 0 .. FailLimit]
    /\ FailedHasStreak

LEMMA RecoveredOK ==
    ASSUME PoolOK, NEW n \in nodes, Recovered(n), nodes' = nodes
    PROVE  PoolOK'
  BY ConfigAssumption DEF PoolOK, Recovered, FailedHasStreak

LEMMA BrokenOK ==
    ASSUME PoolOK, NEW n \in nodes, Broken(n), nodes' = nodes
    PROVE  PoolOK'
  <1>1. n \in Node /\ FailLimit \in Nat /\ FailLimit > 0
    BY ConfigAssumption DEF PoolOK
  <1>2. failed' \in [Node -> BOOLEAN] /\ (\A m \in Node : m # n => failed'[m] = failed[m])
    BY <1>1 DEF PoolOK, Broken
  <1>3. streak' \in [Node -> 0 .. FailLimit] /\ streak'[n] > 0
        /\ (\A m \in Node : m # n => streak'[m] = streak[m])
    BY <1>1 DEF PoolOK, Broken
  <1>4. FailedHasStreak'
    <2> SUFFICES ASSUME NEW m \in Node, failed'[m] PROVE streak'[m] > 0
      BY DEF FailedHasStreak
    <2> QED
      BY <1>2, <1>3 DEF PoolOK, FailedHasStreak
  <1> QED
    BY <1>2, <1>3, <1>4 DEF PoolOK

LEMMA StepPool ==
    ASSUME PoolOK, NEW r \in Request, Step(r)
    PROVE  PoolOK' /\ arrived' = arrived
  <1>0. nodes' = nodes /\ failed' = failed /\ streak' = streak => PoolOK'
    BY DEF PoolOK, FailedHasStreak
  <1>1. CASE RecordMetrics(r)
    <2>1. /\ UNCHANGED <<failed, streak>> \/ \E n \in nodes : Recovered(n)
          /\ UNCHANGED <<nodes, arrived>>
      BY <1>1 DEF RecordMetrics
    <2> QED
      BY <1>0, <2>1, RecoveredOK
  <1>2. CASE CountFailure(r)
    <2> DEFINE n == handler[r].node
    <2>1. /\ UNCHANGED <<nodes, failed, arrived>>
          /\ \/ UNCHANGED streak
             \/ n \in nodes /\ streak' = [streak EXCEPT ![n] = LongerStreak(n)]
      BY <1>2 DEF CountFailure
    <2>2. CASE n \in nodes /\ streak' = [streak EXCEPT ![n] = LongerStreak(n)]
      <3>1. n \in Node /\ LongerStreak(n) \in 0 .. FailLimit /\ LongerStreak(n) > 0
        BY <2>2, ConfigAssumption DEF PoolOK, LongerStreak
      <3>2. /\ streak' \in [Node -> 0 .. FailLimit]
            /\ \A m \in Node : streak'[m] = streak[m] \/ streak'[m] > 0
        BY <2>2, <3>1 DEF PoolOK
      <3> QED
        BY <2>1, <3>2 DEF PoolOK, FailedHasStreak
    <2> QED
      BY <1>0, <2>1, <2>2
  <1>3. CASE MarkFailed(r)
    <2>1. /\ UNCHANGED <<failed, streak>> \/ \E n \in nodes : Broken(n)
          /\ UNCHANGED <<nodes, arrived>>
      BY <1>3 DEF MarkFailed
    <2> QED
      BY <1>0, <2>1, BrokenOK
  <1>4. CASE ~(RecordMetrics(r) \/ CountFailure(r) \/ MarkFailed(r))
    <2>1. UNCHANGED <<pool, arrived>>
      BY <1>4 DEF Step, SelectNode, GiveUp, BreakerRefuses, DeadlineOver, Send,
           UpstreamOK, UpstreamFails, ConnectionFails, ContextEnds, StreamAborts
    <2> QED
      BY <1>0, <2>1 DEF pool
  <1> QED
    BY <1>1, <1>2, <1>3, <1>4

LEMMA EnvironmentPool ==
    ASSUME PoolOK, Environment
    PROVE  PoolOK' /\ UNCHANGED <<handler, arrived>>
  <1>1. ASSUME NEW n \in Node, NEW ok \in BOOLEAN, HealthCheck(n, ok)
        PROVE  PoolOK' /\ UNCHANGED <<handler, arrived>>
    <2>1. n \in nodes /\ UNCHANGED <<nodes, handler, arrived>>
          /\ (Recovered(n) \/ Broken(n))
      BY <1>1 DEF HealthCheck
    <2> QED
      BY <2>1, RecoveredOK, BrokenOK
  <1>2. ASSUME NEW n \in Node, DeleteNode(n)
        PROVE  PoolOK' /\ UNCHANGED <<handler, arrived>>
    BY <1>2 DEF DeleteNode, PoolOK, FailedHasStreak
  <1> QED
    BY <1>1, <1>2 DEF Environment

(* The inductive invariant: the handlers and the pool, each by itself.     *)
IInv == TypeOK /\ FailedHasStreak

LEMMA Invariance == Spec => []IInv
  <1>1. Init => IInv
    <2> SUFFICES ASSUME Init PROVE IInv
      OBVIOUS
    <2>1. nodes \subseteq Node /\ failed \in [Node -> BOOLEAN] /\ FailedHasStreak
      BY DEF Init, FailedHasStreak
    <2>2. streak \in [Node -> 0 .. FailLimit] /\ arrived \in 0 .. MaxRequests
      BY ConfigAssumption DEF Init
    <2>3. handler \in [Request -> HandlerState] /\ \A r \in Request : HandlerOK(handler[r])
      BY NewRequestOK DEF Init, HandlerOK
    <2> QED
      BY <2>1, <2>2, <2>3 DEF IInv, TypeOK
  <1>2. IInv /\ [Next]_vars => IInv'
    <2> SUFFICES ASSUME IInv, [Next]_vars PROVE IInv'
      OBVIOUS
    <2>0. TypeOK /\ PoolOK
      BY DEF IInv, TypeOK, PoolOK
    <2>1. ASSUME NEW r \in Request, NEW k, HandlerOK(k), handler' = [handler EXCEPT ![r] = k]
          PROVE  handler' \in [Request -> HandlerState]
                 /\ \A q \in Request : HandlerOK(handler'[q])
      BY <2>0, <2>1 DEF TypeOK, HandlerOK
    <2>2. ASSUME NEW r \in Request, Arrive(r) PROVE IInv'
      <3>1. handler' = [handler EXCEPT ![r] = NewRequest] /\ UNCHANGED pool
        BY <2>2 DEF Arrive, Update
      <3>2. arrived' \in 0 .. MaxRequests
        BY <2>0, <2>2, ConfigAssumption DEF Arrive, TypeOK
      <3>3. handler' \in [Request -> HandlerState]
            /\ \A q \in Request : HandlerOK(handler'[q])
        BY <2>1, <3>1, NewRequestOK
      <3> QED
        BY <2>0, <3>1, <3>2, <3>3 DEF IInv, TypeOK, PoolOK, FailedHasStreak, pool
    <2>3. ASSUME NEW r \in Request, Step(r) PROVE IInv'
      <3>1. PICK k : Turned(r, k)
        BY <2>0, <2>3, HandlerMoves
      <3>2. handler' \in [Request -> HandlerState]
            /\ \A q \in Request : HandlerOK(handler'[q])
        BY <2>1, <3>1 DEF Turned, Moves
      <3>3. PoolOK' /\ arrived' = arrived
        BY <2>0, <2>3, StepPool
      <3> QED
        BY <2>0, <3>2, <3>3 DEF IInv, TypeOK, PoolOK
    <2>4. ASSUME Environment PROVE IInv'
      <3>1. PoolOK' /\ UNCHANGED <<handler, arrived>>
        BY <2>0, <2>4, EnvironmentPool
      <3> QED
        BY <2>0, <3>1 DEF IInv, TypeOK, PoolOK
    <2>5. ASSUME UNCHANGED vars PROVE IInv'
      BY <2>0, <2>5 DEF vars, IInv, TypeOK, FailedHasStreak, PoolOK
    <2> QED
      BY <2>2, <2>3, <2>4, <2>5 DEF Next
  <1> QED
    BY <1>1, <1>2, PTL DEF Spec

(* Every handler's locals stay well-formed (HandlerOK): in particular each *)
(* turn of the loop sets another node aside, so that the loop ends after   *)
(* at most one turn for each node.                                         *)
THEOREM TypeCorrect == Spec => []TypeOK
  BY Invariance, PTL DEF IInv

(* A failed node has a failure streak, whatever comes between shouldFail   *)
(* and handleFailure.                                                      *)
THEOREM FailedHasStreakHolds == Spec => []FailedHasStreak
  BY Invariance, PTL DEF IInv

------------------------------------------------------------------------------
(* What a step may do.                                                     *)

LEMMA OthersStay ==
    ASSUME TypeOK, NEW r \in Request, NEW k, handler' = [handler EXCEPT ![r] = k]
    PROVE  handler'[r] = k /\ \A q \in Request : q # r => handler'[q] = handler[q]
  BY DEF TypeOK

(* A handler that gives up has put aside, or found unusable, every node:   *)
(* maxLoops is never what ends the loop early.                             *)
THEOREM EveryNodeTriedHolds == Spec => EveryNodeTried
  <1>1. TypeOK /\ [Next]_vars =>
          [\A r \in Request :
             handler[r].pc = "select" /\ handler'[r].pc = "done" =>
                 \A n \in nodes \ handler[r].skip : ~Usable(n)]_vars
    <2> SUFFICES ASSUME TypeOK, Next, NEW r \in Request,
                        handler[r].pc = "select", handler'[r].pc = "done",
                        NEW n \in nodes \ handler[r].skip
                 PROVE  ~Usable(n)
      OBVIOUS
    <2> DEFINE h == handler[r]
    <2>1. Step(r)
      <3>1. ASSUME NEW q \in Request, Arrive(q) PROVE FALSE
        <4>1. handler'[q] = NewRequest /\ (q # r => handler'[r] = handler[r])
          BY <3>1, OthersStay DEF Arrive, Update
        <4> QED
          BY <4>1 DEF NewRequest
      <3>2. ASSUME NEW q \in Request, Step(q), q # r PROVE FALSE
        <4>1. PICK k : Turned(q, k)
          BY <3>2, HandlerMoves
        <4>2. handler'[r] = handler[r]
          BY <3>2, <4>1, OthersStay DEF Turned
        <4> QED
          BY <4>2
      <3>3. ASSUME Environment PROVE FALSE
        BY <3>3 DEF Environment, HealthCheck, DeleteNode
      <3> QED
        BY <3>1, <3>2, <3>3 DEF Next
    <2>2. GiveUp(r)
      <3>1. ASSUME NEW m \in Node, SelectNode(r, m) PROVE FALSE
        <4>1. handler'[r] = [h EXCEPT !.pc = "admit", !.node = m]
          BY <3>1, OthersStay DEF SelectNode, Update
        <4>2. h \in HandlerState
          BY DEF TypeOK
        <4> QED
          BY <4>1, <4>2 DEF HandlerState
      <3> QED
        BY <2>1, <3>1 DEF Step, BreakerRefuses, DeadlineOver, Send, UpstreamOK,
             UpstreamFails, ConnectionFails, ContextEnds, StreamAborts, RecordMetrics,
             CountFailure, MarkFailed
    <2>3. CASE h.loops >= MaxLoops
      <3>1. h.loops = Cardinality(h.skip) /\ h.loops \in Nat /\ h.skip \in SUBSET Node
            /\ h.loops <= N /\ HandlerOK(h)
        BY LoopsBounded, NodeCount DEF TypeOK, HandlerOK, HandlerState
      <3>2. MaxLoops >= 2 * N
        BY NodeCount, ConfigAssumption DEF MaxLoops, N
      <3>3. N = 0
        BY <2>3, <3>1, <3>2, NodeCount, ConfigAssumption DEF MaxLoops, N
      <3>4. Node = {}
        BY <3>3, ConfigAssumption, FS_EmptySet DEF N
      <3> QED
        BY <3>4 DEF TypeOK
    <2> QED
      BY <2>2, <2>3 DEF GiveUp
  <1> QED
    BY <1>1, TypeCorrect, PTL DEF Spec, EveryNodeTried

(* StepsLeft is a bound on the steps of a handler: each takes it down.     *)
THEOREM EachStepNearerHolds == Spec => EachStepNearer
  <1>1. TypeOK /\ [Next]_vars =>
          [\A r \in Request :
             handler[r].pc \notin {"idle", "done"} /\ handler'[r] # handler[r] =>
                 StepsLeft(handler'[r]) < StepsLeft(handler[r])]_vars
    <2> SUFFICES ASSUME TypeOK, Next, NEW r \in Request,
                        handler[r].pc \notin {"idle", "done"}, handler'[r] # handler[r]
                 PROVE  StepsLeft(handler'[r]) < StepsLeft(handler[r])
      OBVIOUS
    <2>1. ASSUME NEW q \in Request, Arrive(q)
          PROVE  StepsLeft(handler'[r]) < StepsLeft(handler[r])
      <3>1. q # r
        BY <2>1 DEF Arrive
      <3> QED
        BY <2>1, <3>1, OthersStay DEF Arrive, Update
    <2>2. ASSUME NEW q \in Request, Step(q)
          PROVE  StepsLeft(handler'[r]) < StepsLeft(handler[r])
      <3>1. PICK k : Turned(q, k)
        BY <2>2, HandlerMoves
      <3>2. q = r /\ handler'[r] = k
        BY <3>1, OthersStay DEF Turned
      <3> QED
        BY <3>1, <3>2 DEF Turned, Moves
    <2>3. ASSUME Environment PROVE FALSE
      BY <2>3 DEF Environment, HealthCheck, DeleteNode
    <2> QED
      BY <2>1, <2>2, <2>3 DEF Next
  <1> QED
    BY <1>1, TypeCorrect, PTL DEF Spec, EachStepNearer

------------------------------------------------------------------------------
(* RequestRetry implements Exchange.                                       *)

PhaseOf(h) == IF h.pc \in {"idle", "done"} THEN h.pc ELSE "working"
phase == [r \in Request |-> PhaseOf(handler[r])]
answer == [r \in Request |-> handler[r].client]
servedBy == [r \in Request |-> handler[r].servedBy]

(* The mapped variables change where the handler does.                     *)
LEMMA MappedStep ==
    ASSUME TypeOK, NEW r \in Request, NEW k, handler' = [handler EXCEPT ![r] = k]
    PROVE  /\ phase' = [phase EXCEPT ![r] = PhaseOf(k)]
           /\ answer' = [answer EXCEPT ![r] = k.client]
           /\ servedBy' = [servedBy EXCEPT ![r] = k.servedBy]
           /\ phase[r] = PhaseOf(handler[r])
           /\ answer[r] = handler[r].client
           /\ servedBy[r] = handler[r].servedBy
  <1>1. \A q \in Request : handler'[q] = IF q = r THEN k ELSE handler[q]
    BY DEF TypeOK
  <1>2. phase' = [q \in Request |-> PhaseOf(IF q = r THEN k ELSE handler[q])]
    BY <1>1 DEF phase
  <1>3. answer' = [q \in Request |-> (IF q = r THEN k ELSE handler[q]).client]
    BY <1>1 DEF answer
  <1>4. servedBy' = [q \in Request |-> (IF q = r THEN k ELSE handler[q]).servedBy]
    BY <1>1 DEF servedBy
  <1> QED
    BY <1>2, <1>3, <1>4 DEF phase, answer, servedBy

(* Every behaviour of the handlers is one that Exchange allows.            *)
THEOREM KeepsPromiseHolds == Spec => KeepsPromise
  <1>1. Init => Promise!Init
    BY DEF Init, Promise!Init, NewRequest
  <1>2. TypeOK /\ [Next]_vars => [Promise!Next]_(Promise!vars)
    <2> SUFFICES ASSUME TypeOK, [Next]_vars
                 PROVE  Promise!Next \/ UNCHANGED Promise!vars
      OBVIOUS
    <2>0. handler' = handler => UNCHANGED Promise!vars
      BY DEF Promise!vars
    <2>1. ASSUME NEW r \in Request, Arrive(r) PROVE Promise!Next
      <3>1. handler' = [handler EXCEPT ![r] = NewRequest] /\ PhaseOf(handler[r]) # "working"
        BY <2>1 DEF Arrive, Update, PhaseOf
      <3>2. /\ phase' = [phase EXCEPT ![r] = "working"] /\ phase[r] # "working"
            /\ answer' = [answer EXCEPT ![r] = NoStatus]
            /\ servedBy' = [servedBy EXCEPT ![r] = {}]
        <4>1. /\ NewRequest.pc = "select" /\ NewRequest.client = NoStatus
              /\ NewRequest.servedBy = {}
          BY DEF NewRequest
        <4>2. PhaseOf(NewRequest) = "working"
          BY <4>1 DEF PhaseOf
        <4>3. /\ phase' = [phase EXCEPT ![r] = PhaseOf(NewRequest)]
              /\ answer' = [answer EXCEPT ![r] = NewRequest.client]
              /\ servedBy' = [servedBy EXCEPT ![r] = NewRequest.servedBy]
              /\ phase[r] = PhaseOf(handler[r])
          BY <3>1, MappedStep
        <4> QED
          BY <3>1, <4>1, <4>2, <4>3
      <3>3. Promise!Arrive(r)
        BY <3>2 DEF Promise!Arrive, phase, answer, servedBy, PhaseOf
      <3> QED
        BY <3>3 DEF Promise!Next
    <2>2. ASSUME NEW r \in Request, Step(r)
          PROVE  Promise!Next \/ UNCHANGED Promise!vars
      <3> DEFINE h == handler[r]
      <3>1. PICK k : Turned(r, k)
        BY <2>2, HandlerMoves
      <3>2. /\ phase' = [phase EXCEPT ![r] = PhaseOf(k)] /\ phase[r] = PhaseOf(h)
            /\ answer' = [answer EXCEPT ![r] = k.client] /\ answer[r] = h.client
            /\ servedBy' = [servedBy EXCEPT ![r] = k.servedBy] /\ servedBy[r] = h.servedBy
        BY <3>1, MappedStep DEF Turned
      <3>3. Working(h) /\ phase[r] = "working"
        <4>1. h \in HandlerState
          BY DEF TypeOK
        <4>2. RecordMetrics(r) => h.pc = "respond"
          BY <4>1 DEF RecordMetrics, HandlerState
        <4>3. h.pc \notin {"idle", "done"}
          BY <2>2, <4>2 DEF Step, SelectNode, GiveUp, BreakerRefuses, DeadlineOver, Send,
             UpstreamOK, UpstreamFails, ConnectionFails, ContextEnds, StreamAborts,
             CountFailure, MarkFailed
        <4> QED
          BY <3>2, <4>3 DEF Working, PhaseOf
      <3>4. /\ phase = [q \in Request |-> phase[q]]
            /\ answer = [q \in Request |-> answer[q]]
            /\ servedBy = [q \in Request |-> servedBy[q]]
        BY DEF phase, answer, servedBy
      <3>5. ASSUME Shown(h, k)
            PROVE  \E s \in Status : Promise!See(r, s)
        <4>1. k.client = IF answer[r] = NoStatus THEN k.client ELSE answer[r]
          BY <3>2, <3>5 DEF Shown
        <4>2. answer' = [answer EXCEPT ![r] = IF answer[r] = NoStatus THEN k.client
                                                                      ELSE answer[r]]
          BY <3>2, <4>1
        <4>3. Promise!See(r, k.client)
          BY <4>2 DEF Promise!See, answer
        <4> QED
          BY <3>5, <4>3 DEF Shown
      <3>6. CASE Quiet(h, k)
        <4>1. phase' = phase /\ answer' = answer /\ servedBy' = servedBy
          BY <3>2, <3>3, <3>4, <3>6 DEF Quiet, Working, PhaseOf
        <4> QED
          BY <4>1 DEF Promise!vars, phase, answer, servedBy, PhaseOf
      <3>7. CASE Answers(h, k)
        <4>1. phase' = phase /\ servedBy' = servedBy
          BY <3>2, <3>3, <3>4, <3>7 DEF Answers, Working, PhaseOf
        <4>2. Promise!Answer(r)
          BY <3>3, <3>5, <3>7, <4>1
          DEF Answers, Promise!Answer, phase, servedBy, PhaseOf
        <4> QED
          BY <4>2 DEF Promise!Next
      <3>8. CASE Serves(h, k)
        <4>1. phase' = phase
          BY <3>2, <3>3, <3>4, <3>8 DEF Serves, Working, PhaseOf
        <4>2. servedBy[r] = {} /\ \E n \in Node : servedBy' = [servedBy EXCEPT ![r] = {n}]
          BY <3>2, <3>8 DEF Serves
        <4>3. Promise!Serve(r)
          BY <3>3, <3>5, <3>8, <4>1, <4>2
          DEF Serves, Promise!Serve, phase, servedBy, PhaseOf
        <4> QED
          BY <4>3 DEF Promise!Next
      <3>9. CASE Ends(h, k)
        <4>1. phase' = [phase EXCEPT ![r] = "done"]
          BY <3>2, <3>9 DEF Ends, PhaseOf
        <4>2. servedBy' = servedBy
          BY <3>2, <3>4, <3>9 DEF Ends
        <4>3. Promise!Finish(r)
          BY <3>3, <3>5, <3>9, <4>1, <4>2
          DEF Ends, Promise!Finish, phase, servedBy, PhaseOf
        <4> QED
          BY <4>3 DEF Promise!Next
      <3> QED
        BY <3>1, <3>6, <3>7, <3>8, <3>9 DEF Turned, Moves
    <2>3. ASSUME Environment PROVE UNCHANGED Promise!vars
      BY <2>0, <2>3 DEF Environment, HealthCheck, DeleteNode
    <2>4. ASSUME UNCHANGED vars PROVE UNCHANGED Promise!vars
      BY <2>0, <2>4 DEF vars
    <2> QED
      BY <2>1, <2>2, <2>3, <2>4 DEF Next
  <1> QED
    BY <1>1, <1>2, TypeCorrect, PTL DEF Spec, KeepsPromise, Promise!Spec

================================================================================
