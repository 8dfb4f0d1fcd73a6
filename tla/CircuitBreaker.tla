--------------------------- MODULE CircuitBreaker ---------------------------
(***************************************************************************)
(* One circuit breaker (circuit_breaker.rs) and the calls that go through  *)
(* it at the same time.  A call asks should_allow_request, runs its        *)
(* operation without holding the breaker's lock, and records the outcome   *)
(* afterwards: by then other calls may have moved the breaker.             *)
(*                                                                         *)
(* Time passes in ticks.  The code compares instants only as               *)
(* now >= next_attempt, so the instant is kept as the ticks left to it.    *)
(* failure_count is compared only with failure_threshold: it is counted up *)
(* to the threshold, and so are the streaks.                               *)
(***************************************************************************)
EXTENDS Naturals

CONSTANTS
  Calls,               \* the calls that may be under way together
  FailureThreshold,    \* config.failure_threshold
  SuccessThreshold,    \* config.success_threshold
  RecoveryTimeout      \* config.recovery_timeout, in ticks

ASSUME ThresholdAssumption ==
  /\ FailureThreshold \in Nat \ {0}
  /\ SuccessThreshold \in Nat \ {0}
  /\ RecoveryTimeout \in Nat \ {0}

VARIABLES
  state,               \* CircuitState
  failureCount,        \* failure_count
  successCount,        \* success_count
  wait,                \* ticks until next_attempt, 0 when it is past or None
  running,             \* the calls admitted and not yet accounted for
  outage,              \* whether the upstream is failing
  mayFail,             \* the running calls admitted while it was
  quiet,               \* history: ticks since a failure was recorded
  failStreak,          \* history: failures recorded since the last success
  successStreak        \* history: successes recorded since the last failure

breakerVars == <<state, failureCount, successCount, wait>>
streakVars  == <<failStreak, successStreak>>

vars == <<breakerVars, running, outage, mayFail, quiet, streakVars>>

Lesser(m, n) == IF m < n THEN m ELSE n

TypeOK ==
  /\ state \in {"Closed", "Open", "HalfOpen"}
  /\ failureCount \in 0..FailureThreshold
  /\ successCount \in 0..(SuccessThreshold - 1)
  /\ wait \in 0..RecoveryTimeout
  /\ running \subseteq Calls
  /\ outage \in BOOLEAN
  /\ mayFail \subseteq running
  /\ quiet \in 0..RecoveryTimeout
  /\ failStreak \in 0..FailureThreshold
  /\ successStreak \in 0..SuccessThreshold

Init ==
  /\ state = "Closed"
  /\ failureCount = 0
  /\ successCount = 0
  /\ wait = 0
  /\ running = {}
  /\ outage = TRUE
  /\ mayFail = {}
  /\ quiet = RecoveryTimeout
  /\ failStreak = 0
  /\ successStreak = 0
-----------------------------------------------------------------------------
\* Mutant: the reset of the successes applied to every call while half-open.
AdmitWhileHalfOpenResets ==
  state = "HalfOpen" /\ successCount' = 0 /\ UNCHANGED state

AdmitWhileHalfOpen == state = "HalfOpen" /\ UNCHANGED <<state, successCount>>

MayAttempt == wait = 0

\* should_allow_request says yes.
Admit(c) ==
  /\ c \notin running
  /\ running' = running \cup {c}
  /\ mayFail' = IF outage THEN mayFail \cup {c} ELSE mayFail
  /\ \/ state = "Closed" /\ UNCHANGED <<state, successCount>>
     \/ AdmitWhileHalfOpen
     \/ /\ state = "Open" /\ MayAttempt
        /\ state' = "HalfOpen"
        /\ successCount' = 0
  /\ UNCHANGED <<failureCount, wait, outage, quiet, streakVars>>

\* should_allow_request says no: the call returns CircuitOpen at once.
Reject(c) ==
  /\ c \notin running
  /\ state = "Open" /\ ~MayAttempt
  /\ UNCHANGED vars

\* Mutant: a success while closed does not clear the failures.
SuccessWhileClosedKeepsCount ==
  state = "Closed" /\ UNCHANGED <<state, failureCount, successCount, wait>>

SuccessWhileClosed ==
  /\ state = "Closed"
  /\ failureCount' = 0
  /\ UNCHANGED <<state, successCount, wait>>

\* Mutant: the threshold compared with > after the increment.
ClosesLate == successCount + 1 > SuccessThreshold

Closes == successCount + 1 >= SuccessThreshold

SuccessWhileHalfOpen ==
  /\ state = "HalfOpen"
  /\ IF Closes
     THEN /\ state' = "Closed"
          /\ failureCount' = 0
          /\ successCount' = 0
          /\ wait' = 0
     ELSE /\ successCount' = successCount + 1
          /\ UNCHANGED <<state, failureCount, wait>>

\* The success of a call that was admitted before the breaker opened, of which a
\* comment says that it should not happen.
SuccessWhileOpen ==
  state = "Open" /\ UNCHANGED <<state, failureCount, successCount, wait>>

\* The call is over.
Finish(c) ==
  /\ c \in running
  /\ running' = running \ {c}
  /\ mayFail' = mayFail \ {c}

\* on_success.
Succeed(c) ==
  /\ Finish(c)
  /\ SuccessWhileClosed \/ SuccessWhileHalfOpen \/ SuccessWhileOpen
  /\ failStreak' = 0
  /\ successStreak' = Lesser(successStreak + 1, SuccessThreshold)
  /\ UNCHANGED <<outage, quiet>>

Open == state' = "Open" /\ wait' = RecoveryTimeout

FailureWhileClosed ==
  /\ state = "Closed"
  /\ IF failureCount + 1 >= FailureThreshold
     THEN Open ELSE UNCHANGED <<state, wait>>
  /\ UNCHANGED successCount

\* Mutant: a failure while half-open is only counted.
FailureWhileHalfOpenStays ==
  state = "HalfOpen" /\ UNCHANGED <<state, successCount, wait>>

FailureWhileHalfOpen ==
  state = "HalfOpen" /\ Open /\ successCount' = 0

\* Mutant: a late failure leaves the next attempt where it was.
FailureWhileOpenIgnored ==
  state = "Open" /\ UNCHANGED <<state, successCount, wait>>

\* A late failure pushes the next attempt back.
FailureWhileOpen == state = "Open" /\ Open /\ UNCHANGED successCount

\* on_failure.
Fail(c) ==
  /\ c \in mayFail
  /\ Finish(c)
  /\ failureCount' = Lesser(failureCount + 1, FailureThreshold)
  /\ FailureWhileClosed \/ FailureWhileHalfOpen \/ FailureWhileOpen
  /\ quiet' = 0
  /\ failStreak' = Lesser(failStreak + 1, FailureThreshold)
  /\ successStreak' = 0
  /\ UNCHANGED outage

\* The caller is dropped while its operation runs: no outcome is recorded.
Cancel(c) ==
  /\ Finish(c)
  /\ UNCHANGED <<breakerVars, outage, quiet, streakVars>>

Tick ==
  /\ wait > 0 \/ quiet < RecoveryTimeout
  /\ wait' = IF wait > 0 THEN wait - 1 ELSE 0
  /\ quiet' = Lesser(quiet + 1, RecoveryTimeout)
  /\ UNCHANGED <<state, failureCount, successCount, running, outage, mayFail,
                 streakVars>>

\* The upstream is well again, for good.
OutageEnds ==
  /\ outage
  /\ outage' = FALSE
  /\ UNCHANGED <<breakerVars, running, mayFail, quiet, streakVars>>

Next ==
  \/ \E c \in Calls : Admit(c) \/ Reject(c) \/ Succeed(c) \/ Fail(c) \/ Cancel(c)
  \/ Tick
  \/ OutageEnds

Spec == Init /\ [][Next]_vars

\* Time passes, clients keep calling, and not every call is dropped.
FairSpec ==
  /\ Spec
  /\ WF_vars(Tick)
  /\ WF_vars(\E c \in Calls : Admit(c))
  /\ SF_vars(\E c \in Calls : Succeed(c))
-----------------------------------------------------------------------------
\* Unless the breaker is closed no call reaches the upstream within the
\* recovery timeout of the last failure recorded, be it the failure of a call
\* admitted long before (the three arms of on_failure against
\* should_allow_request).
NoProbeTooEarly ==
  [][\A c \in Calls :
       (state # "Closed" /\ c \notin running /\ c \in running')
         => quiet = RecoveryTimeout]_vars

\* A closed breaker opens only after failure_threshold failures in a row with
\* no success recorded in between, whatever was recorded before it last closed.
OpensOnlyOnStreak ==
  [][(state = "Closed" /\ state' = "Open")
       => failStreak' >= FailureThreshold]_vars

\* The breaker closes only on success_threshold successes in a row with no
\* failure recorded in between, although calls overlap and finish in any order.
ClosesOnlyOnStreak ==
  [][(state # "Closed" /\ state' = "Closed")
       => successStreak' >= SuccessThreshold]_vars

\* Once the upstream is well for good the breaker closes and stays closed,
\* although calls admitted during the outage may still fail afterwards.
RecoversAfterOutage == ~outage ~> [](state = "Closed")
=============================================================================
