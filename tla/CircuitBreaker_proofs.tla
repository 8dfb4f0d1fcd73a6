------------------------ MODULE CircuitBreaker_proofs ------------------------
(***************************************************************************)
(* The circuit breaker for every number of overlapping calls, every pair   *)
(* of thresholds and every recovery timeout.                               *)
(***************************************************************************)
EXTENDS CircuitBreaker, TLAPS

\* What each state of the breaker knows about the outcomes recorded so far.
ClosedKnows ==
  state = "Closed" => failureCount = failStreak /\ failStreak < FailureThreshold

OpenKnows == state = "Open" => wait + quiet >= RecoveryTimeout

HalfOpenKnows ==
  state = "HalfOpen" => quiet = RecoveryTimeout /\ successCount <= successStreak

BreakerInv == TypeOK /\ ClosedKnows /\ OpenKnows /\ HalfOpenKnows

\* The breaker's knowledge is inductive: it holds at the start and every
\* action of every call, and of time, keeps it.
THEOREM BreakerInvariant == Spec => []BreakerInv
<1> USE ThresholdAssumption
<1>1. Init => BreakerInv
  BY DEF Init, BreakerInv, TypeOK, ClosedKnows, OpenKnows, HalfOpenKnows
<1>2. BreakerInv /\ [Next]_vars => BreakerInv'
  <2> SUFFICES ASSUME BreakerInv, [Next]_vars PROVE BreakerInv'
    OBVIOUS
  <2> USE DEF BreakerInv, TypeOK, ClosedKnows, OpenKnows, HalfOpenKnows,
              breakerVars, streakVars, Lesser
  <2>1. ASSUME NEW c \in Calls, Admit(c) PROVE BreakerInv'
    BY <2>1 DEF Admit, AdmitWhileHalfOpen, MayAttempt
  <2>2. ASSUME NEW c \in Calls, Reject(c) PROVE BreakerInv'
    BY <2>2 DEF Reject, vars
  <2>3. ASSUME NEW c \in Calls, Succeed(c) PROVE BreakerInv'
    <3>1. CASE SuccessWhileClosed
      BY <2>3, <3>1 DEF Succeed, Finish, SuccessWhileClosed
    <3>2. CASE SuccessWhileHalfOpen
      BY <2>3, <3>2 DEF Succeed, Finish, SuccessWhileHalfOpen, Closes
    <3>3. CASE SuccessWhileOpen
      BY <2>3, <3>3 DEF Succeed, Finish, SuccessWhileOpen
    <3>4. QED
      BY <2>3, <3>1, <3>2, <3>3 DEF Succeed
  <2>4. ASSUME NEW c \in Calls, Fail(c) PROVE BreakerInv'
    <3>1. CASE FailureWhileClosed
      BY <2>4, <3>1 DEF Fail, Finish, FailureWhileClosed, Open
    <3>2. CASE FailureWhileHalfOpen
      BY <2>4, <3>2 DEF Fail, Finish, FailureWhileHalfOpen, Open
    <3>3. CASE FailureWhileOpen
      BY <2>4, <3>3 DEF Fail, Finish, FailureWhileOpen, Open
    <3>4. QED
      BY <2>4, <3>1, <3>2, <3>3 DEF Fail
  <2>5. ASSUME NEW c \in Calls, Cancel(c) PROVE BreakerInv'
    BY <2>5 DEF Cancel, Finish
  <2>6. CASE Tick
    BY <2>6 DEF Tick
  <2>7. CASE OutageEnds
    BY <2>7 DEF OutageEnds
  <2>8. CASE UNCHANGED vars
    BY <2>8 DEF vars
  <2>9. QED
    BY <2>1, <2>2, <2>3, <2>4, <2>5, <2>6, <2>7, <2>8 DEF Next
<1>3. QED
  BY <1>1, <1>2, PTL DEF Spec

\* The type invariant, for every instance.
THEOREM BreakerTypeCorrect == Spec => []TypeOK
<1>1. BreakerInv => TypeOK
  BY DEF BreakerInv
<1>2. QED
  BY <1>1, BreakerInvariant, PTL
-----------------------------------------------------------------------------
\* Unless the breaker is closed, no call is admitted within the recovery
\* timeout of the last failure recorded.
THEOREM NoEarlyProbes == Spec => NoProbeTooEarly
<1> USE ThresholdAssumption
<1> DEFINE Quietly(c) ==
      (state # "Closed" /\ c \notin running /\ c \in running')
        => quiet = RecoveryTimeout
<1>1. ASSUME BreakerInv, [Next]_vars, NEW c \in Calls PROVE Quietly(c)
  <2> SUFFICES ASSUME state # "Closed", c \notin running, c \in running'
               PROVE quiet = RecoveryTimeout
    OBVIOUS
  <2>1. PICK d \in Calls : Admit(d)
    BY <1>1 DEF Next, vars, breakerVars, Reject, Succeed, Fail, Cancel, Finish,
                Tick, OutageEnds
  <2>2. QED
    BY <1>1, <2>1 DEF Admit, AdmitWhileHalfOpen, MayAttempt, BreakerInv, TypeOK,
                      OpenKnows, HalfOpenKnows
<1>2. BreakerInv /\ [Next]_vars => [\A c \in Calls : Quietly(c)]_vars
  BY <1>1
<1>3. QED
  BY <1>2, BreakerInvariant, PTL DEF Spec, NoProbeTooEarly

\* A closed breaker opens only on failure_threshold failures in a row.
THEOREM OpeningNeedsStreak == Spec => OpensOnlyOnStreak
<1> USE ThresholdAssumption
<1> DEFINE Justified ==
      (state = "Closed" /\ state' = "Open") => failStreak' >= FailureThreshold
<1>1. ASSUME BreakerInv, [Next]_vars PROVE Justified
  <2> SUFFICES ASSUME state = "Closed", state' = "Open"
               PROVE failStreak' >= FailureThreshold
    OBVIOUS
  <2>1. PICK c \in Calls : Fail(c)
    BY <1>1 DEF Next, vars, breakerVars, Admit, AdmitWhileHalfOpen, Reject,
                Succeed, SuccessWhileClosed, SuccessWhileHalfOpen,
                SuccessWhileOpen, Cancel, Tick, OutageEnds
  <2>2. QED
    BY <1>1, <2>1 DEF Fail, FailureWhileClosed, FailureWhileHalfOpen,
                      FailureWhileOpen, Lesser, BreakerInv, TypeOK, ClosedKnows
<1>2. BreakerInv /\ [Next]_vars => [Justified]_vars
  BY <1>1
<1>3. QED
  BY <1>2, BreakerInvariant, PTL DEF Spec, OpensOnlyOnStreak

\* The breaker closes only on success_threshold successes in a row.
THEOREM ClosingNeedsStreak == Spec => ClosesOnlyOnStreak
<1> USE ThresholdAssumption
<1> DEFINE Justified ==
      (state # "Closed" /\ state' = "Closed")
        => successStreak' >= SuccessThreshold
<1>1. ASSUME BreakerInv, [Next]_vars PROVE Justified
  <2> SUFFICES ASSUME state # "Closed", state' = "Closed"
               PROVE successStreak' >= SuccessThreshold
    OBVIOUS
  <2>1. PICK c \in Calls : Succeed(c)
    BY <1>1 DEF Next, vars, breakerVars, Admit, AdmitWhileHalfOpen, Reject, Fail,
                FailureWhileClosed, FailureWhileHalfOpen, FailureWhileOpen, Open,
                Cancel, Tick, OutageEnds
  <2>2. QED
    BY <1>1, <2>1 DEF Succeed, SuccessWhileClosed, SuccessWhileHalfOpen,
                      SuccessWhileOpen, Closes, Lesser, BreakerInv, TypeOK,
                      HalfOpenKnows
<1>3. BreakerInv /\ [Next]_vars => [Justified]_vars
  BY <1>1
<1>4. QED
  BY <1>3, BreakerInvariant, PTL DEF Spec, ClosesOnlyOnStreak
=============================================================================
