---------------------------- MODULE RetryHistory ----------------------------
(***************************************************************************)
(* ProxyLoop with a history variable that counts how often each request    *)
(* was handed each key: the measure by which the retry loop ends.          *)
(***************************************************************************)
EXTENDS ProxyLoop

VARIABLE tries         \* request -> key -> hand-outs since the last reload

retryVars == <<vars, tries>>

NoTries == [r \in Requests |-> [k \in Keys |-> 0]]

TriesTypeOK == tries \in [Requests -> [Keys -> Nat]]

\* Whether this step hands the key to the request.
HandsOut(r, k) == At(r, "probe") /\ req'[r].pc = "send" /\ req'[r].key = k

RetryInit == Init /\ tries = NoTries

CountTries ==
  tries' = IF reloads' # reloads THEN NoTries
           ELSE [r \in Requests |->
                   [k \in Keys |->
                      IF HandsOut(r, k) THEN tries[r][k] + 1 ELSE tries[r][k]]]

RetryNext == Next /\ CountTries

RetrySpec == RetryInit /\ [][RetryNext]_retryVars

\* A task that can run is run: tokio schedules ready tasks, its RwLock serves
\* writers and readers in turn, the client's request timeout ends every wait
\* for the upstream, and a sleep ends.
FairRetrySpec == RetrySpec /\ \A r \in Requests : WF_vars(Proceed(r))
-----------------------------------------------------------------------------
\* How often a request may meet one key before the store blocks it.
Limit == IF maxFailures = 0 THEN 1 ELSE maxFailures

\* Between two reloads no request is handed the same key more often than the
\* failure threshold allows, however the failures of several requests
\* interleave: with finitely many keys the retry loop of proxy_loop, which has
\* no attempt counter of its own, therefore ends.
AttemptsBounded == \A r \in Requests, k \in Keys : tries[r][k] <= Limit

\* Every request that arrives is answered (or dropped by its client).
EveryRequestAnswered ==
  \A r \in Requests : At(r, "route") ~> At(r, "done")

\* What the documentation says of a key that failed or was rate-limited: it is
\* out of rotation for a while and returns.
BlockedKeysReturn ==
  \A k \in Keys : (k \in DOMAIN keyStates /\ keyStates[k].blocked)
                    ~> (k \in DOMAIN keyStates => ~keyStates[k].blocked)
=============================================================================
