----------------------------- MODULE GuardedFetch -----------------------------
(***************************************************************************)
(* fetch_guarded of crates/sources (source.rs) for the sources of a run    *)
(* that fetch from one host at the same time: the host's circuit breaker   *)
(* (circuit_breaker.rs), the global token bucket (rate_limit.rs) and the   *)
(* retry loop with its backoff.  A tick is the time in which the bucket    *)
(* gains one token.                                                        *)
(***************************************************************************)
EXTENDS Integers, FiniteSets

CONSTANTS
  Fetchers,          \* sources fetching from the host
  FailureThreshold,  \* CircuitBreakerConfig
  SuccessThreshold,
  OpenDuration,
  HalfOpenMax,
  MaxAttempts,       \* max_attempts of a source
  Burst,             \* tokens the bucket holds
  MaxCalls,          \* bound on the calls of each source
  MaxTime            \* bound on the clock

ASSUME GuardedFetchAssumption ==
  /\ IsFiniteSet(Fetchers)
  /\ FailureThreshold \in Nat \ {0} /\ SuccessThreshold \in Nat \ {0}
  /\ HalfOpenMax \in Nat \ {0} /\ OpenDuration \in Nat
  /\ MaxAttempts \in Nat \ {0} /\ Burst \in Nat \ {0}
  /\ MaxCalls \in Nat /\ MaxTime \in Nat

VARIABLES
  state,       \* the breaker
  failures,
  successes,   \* half_open_successes
  openedAt,    \* 0 when it never opened
  tokens,      \* the bucket, negative when in debt
  lastRefill,
  pc,          \* fetcher -> where its call is
  wake,        \* fetcher -> end of its wait for a token
  attempts,    \* fetcher -> requests sent by the call
  calls,       \* fetcher -> calls made
  streak,      \* history: failures since the last success, up to the threshold
  released,    \* calls that got past the bucket
  now

breakerVars == <<state, failures, successes, openedAt>>
bucketVars  == <<tokens, lastRefill>>
callVars    == <<pc, wake, attempts, calls>>
vars == <<breakerVars, bucketVars, callVars, streak, released, now>>

States == {"closed", "open", "half_open"}

Init ==
  /\ state = "closed" /\ failures = 0 /\ successes = 0 /\ openedAt = 0
  /\ tokens = Burst /\ lastRefill = 0
  /\ pc = [f \in Fetchers |-> "idle"]
  /\ wake = [f \in Fetchers |-> 0]
  /\ attempts = [f \in Fetchers |-> 0]
  /\ calls = [f \in Fetchers |-> 0]
  /\ streak = 0 /\ released = 0 /\ now = 0

-----------------------------------------------------------------------------
(* The bucket.                                                             *)

Refilled ==
  IF tokens + (now - lastRefill) > Burst THEN Burst
  ELSE tokens + (now - lastRefill)

\* The time until a bucket with t tokens has a whole one.
TokenWait(t) == IF t >= 1 THEN 0 ELSE 1 - t

\* Mutant: an empty bucket makes the caller wait but records no debt.
TokenTaken_NoDebt(t) == IF t >= 1 THEN t - 1 ELSE t

TokenTaken(t) == t - 1

-----------------------------------------------------------------------------
(* The breaker.                                                            *)

Cooled == now - openedAt >= OpenDuration

\* Mutant: after the cooldown calls are let in, but the breaker stays open.
Admit_StaysOpen ==
  /\ state = "closed" \/ (state = "half_open" /\ successes < HalfOpenMax)
     \/ (state = "open" /\ Cooled)
  /\ UNCHANGED breakerVars

\* allow lets the call in.
Admit ==
  \/ /\ state = "closed" \/ (state = "half_open" /\ successes < HalfOpenMax)
     /\ UNCHANGED breakerVars
  \/ /\ state = "open" /\ Cooled
     /\ state' = "half_open" /\ successes' = 0
     /\ UNCHANGED <<failures, openedAt>>

\* allow answers CircuitOpen.
Refused ==
  \/ state = "open" /\ ~Cooled
  \/ state = "half_open" /\ successes >= HalfOpenMax

\* Mutant: a success does not reset the count of a closed breaker.
ClosedSuccess_NoReset == UNCHANGED failures

\* A success of a closed breaker.
ClosedSuccess == failures' = 0

\* Mutant: the trials that closed the breaker are one too many.
EnoughSuccesses_OffByOne == successes > SuccessThreshold

\* Whether this success closes a half-open breaker.
EnoughSuccesses == successes + 1 >= SuccessThreshold

RecordSuccess ==
  /\ streak' = 0
  /\ \/ /\ state = "closed"
        /\ ClosedSuccess
        /\ UNCHANGED <<state, successes, openedAt>>
     \/ /\ state = "half_open"
        /\ successes' = successes + 1
        /\ IF EnoughSuccesses
           THEN state' = "closed" /\ failures' = 0 /\ openedAt' = 0
           ELSE UNCHANGED <<state, failures, openedAt>>
     \/ state = "open" /\ UNCHANGED breakerVars

\* Mutant: a late failure starts the cooldown of an open breaker again.
OpenFailure_Restamp == openedAt' = now

\* A failure recorded while the breaker is open.
OpenFailure == UNCHANGED openedAt

RecordFailure ==
  /\ streak' = IF streak < FailureThreshold THEN streak + 1 ELSE streak
  /\ \/ /\ state = "closed" /\ failures + 1 < FailureThreshold
        /\ failures' = failures + 1
        /\ UNCHANGED <<state, successes, openedAt>>
     \/ /\ state = "closed" /\ failures + 1 >= FailureThreshold
        /\ state' = "open" /\ failures' = 0 /\ openedAt' = now
        /\ UNCHANGED successes
     \/ /\ state = "half_open"
        /\ state' = "open" /\ successes' = 0 /\ openedAt' = now
        /\ UNCHANGED failures
     \/ /\ state = "open" /\ OpenFailure
        /\ UNCHANGED <<state, failures, successes>>

-----------------------------------------------------------------------------
(* fetch_guarded.                                                          *)

\* The call is refused: CircuitOpen, no attempt.
Refuse(f) ==
  /\ pc[f] = "idle" /\ calls[f] < MaxCalls
  /\ Refused
  /\ calls' = [calls EXCEPT ![f] = @ + 1]
  /\ UNCHANGED <<breakerVars, bucketVars, pc, wake, attempts,
                 streak, released, now>>

\* The call is let in and takes its token, for which it may have to wait.
Call(f) ==
  /\ pc[f] = "idle" /\ calls[f] < MaxCalls
  /\ Admit
  /\ calls' = [calls EXCEPT ![f] = @ + 1]
  /\ tokens' = TokenTaken(Refilled) /\ lastRefill' = now
  /\ wake' = [wake EXCEPT ![f] = now + TokenWait(Refilled)]
  /\ pc' = [pc EXCEPT ![f] = "waiting"]
  /\ UNCHANGED <<attempts, streak, released, now>>

\* The first request of the call; nothing asks the breaker again.
FirstSend(f) ==
  /\ pc[f] = "waiting" /\ now >= wake[f]
  /\ pc' = [pc EXCEPT ![f] = "sending"]
  /\ attempts' = [attempts EXCEPT ![f] = 1]
  /\ released' = released + 1
  /\ UNCHANGED <<breakerVars, bucketVars, wake, calls, streak, now>>

\* A body or a 304.
Succeed(f) ==
  /\ pc[f] = "sending"
  /\ RecordSuccess
  /\ pc' = [pc EXCEPT ![f] = "idle"]
  /\ UNCHANGED <<bucketVars, wake, attempts, calls, released, now>>

\* Mutant: the retry loop has no end.
MayRetry_Always(f) == TRUE

\* Whether a retryable failure is retried.
MayRetry(f) == attempts[f] < MaxAttempts

\* A timeout, a 429, a 408 or a 5xx, with attempts left.
FailRetryably(f) ==
  /\ pc[f] = "sending" /\ MayRetry(f)
  /\ RecordFailure
  /\ pc' = [pc EXCEPT ![f] = "backoff"]
  /\ UNCHANGED <<bucketVars, wake, attempts, calls, released, now>>

\* A permanent failure, or the last attempt.
Fail(f) ==
  /\ pc[f] = "sending"
  /\ RecordFailure
  /\ pc' = [pc EXCEPT ![f] = "idle"]
  /\ UNCHANGED <<bucketVars, wake, attempts, calls, released, now>>

\* The backoff is over: the next request, again without asking the breaker.
\* The count stops at MaxAttempts + 1, which no call reaches.
Retry(f) ==
  /\ pc[f] = "backoff"
  /\ pc' = [pc EXCEPT ![f] = "sending"]
  /\ attempts' = [attempts EXCEPT ![f] = IF @ > MaxAttempts THEN @ ELSE @ + 1]
  /\ UNCHANGED <<breakerVars, bucketVars, wake, calls, streak,
                 released, now>>

\* The clock is bounded, but nobody waits for it for ever.
Tick ==
  /\ now < MaxTime \/ \E f \in Fetchers : pc[f] = "waiting" /\ now < wake[f]
  /\ now' = now + 1
  /\ UNCHANGED <<breakerVars, bucketVars, callVars, streak, released>>

Progress(f) ==
  FirstSend(f) \/ Succeed(f) \/ FailRetryably(f) \/ Fail(f) \/ Retry(f)

Next ==
  \/ Tick
  \/ \E f \in Fetchers : Refuse(f) \/ Call(f) \/ Progress(f)

Spec == Init /\ [][Next]_vars

\* Time passes, sleeps end and every request is answered or times out.
FairSpec == Spec /\ WF_vars(Tick) /\ \A f \in Fetchers : WF_vars(Progress(f))

-----------------------------------------------------------------------------
(* Properties                                                              *)

Active(f) == pc[f] # "idle"

\* Every variable has the values the code gives it.
TypeOK ==
  /\ state \in States
  /\ failures \in 0..(FailureThreshold - 1)
  /\ successes \in Nat /\ openedAt \in Nat
  /\ tokens \in Int /\ tokens <= Burst /\ lastRefill \in Nat
  /\ pc \in [Fetchers -> {"idle", "waiting", "sending", "backoff"}]
  /\ wake \in [Fetchers -> Nat] /\ attempts \in [Fetchers -> 0..MaxAttempts]
  /\ calls \in [Fetchers -> Nat]
  /\ streak \in Nat /\ released \in Nat /\ now \in Nat

\* A closed breaker opens on sustained failure only: the last
\* FailureThreshold results of the host, over all its concurrent calls, are
\* failures ("not on failures spread over a healthy stretch", record_success).
OpensOnSustainedFailure ==
  [][state = "closed" /\ state' = "open" => streak' >= FailureThreshold]_vars

\* An open breaker stays open for OpenDuration and no longer than that on
\* account of the calls that were let in before it opened (record_failure,
\* record_success and allow while open).
OpenForItsDuration ==
  [][state = "open" =>
       IF state' = "open" THEN openedAt' = openedAt
       ELSE state' = "half_open" /\ Cooled]_vars

\* The requests a call may still send: a retry does not ask the breaker again.
RequestsLeft(f) ==
  IF pc[f] = "idle" THEN 0
  ELSE IF pc[f] = "waiting" THEN MaxAttempts
  ELSE MaxAttempts - attempts[f]

\* An open breaker lets the host drain: while it stays open every request sent
\* is a retry, or the awaited first request, of a call let in before, and each
\* one uses up an attempt of that call (fetch_guarded's loop goes on sending
\* after the breaker opened, but for max_attempts requests at most).
OpenDrains ==
  [][state = "open" /\ state' = "open" =>
       \A f \in Fetchers : RequestsLeft(f)' <= RequestsLeft(f)]_vars

\* The calls of all sources together are paced by one budget: however they
\* interleave, at most Burst + t of them send their first request by time t
\* (TokenBucket::take's debt).
PacedByBudget == released <= Burst + now

\* A half-open breaker can still let a trial in.  (Only when the successes
\* that close it are no more than the trials it allows; see the README.)
HalfOpenAdmits == state = "half_open" => successes < HalfOpenMax

\* "`success_threshold` consecutive trial successes close it again"
\* (circuit_breaker.rs): a half-open breaker with no call under way lets the
\* next trial in, or nothing will ever change its state again.
NeverStuck ==
  state = "half_open" /\ (\A f \in Fetchers : ~Active(f))
    => successes < HalfOpenMax

\* Every call of fetch_guarded returns, whatever the host answers.
CallReturns == \A f \in Fetchers : Active(f) ~> ~Active(f)
=============================================================================
