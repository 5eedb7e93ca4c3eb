-------------------------- MODULE GuardedFetch_proofs --------------------------
(***************************************************************************)
(* For every number of concurrent sources and every configuration:         *)
(* TypeOK, OpensOnSustainedFailure, OpenForItsDuration, OpenDrains and     *)
(* PacedByBudget hold; HalfOpenAdmits holds when SuccessThreshold <=       *)
(* HalfOpenMax, and a breaker that got stuck stays stuck.                  *)
(***************************************************************************)
EXTENDS GuardedFetch, FiniteSetTheorems, TLAPS

-----------------------------------------------------------------------------
(* Types, and what the counters of the breaker mean.                       *)

\* A call in its backoff has attempts left.
RetriesLeft == \A f \in Fetchers : pc[f] = "backoff" => attempts[f] < MaxAttempts

\* The count of a closed breaker never exceeds the host's run of failures,
\* and a breaker that is not closed has no count.
FailuresInStreak ==
  /\ failures <= streak
  /\ state # "closed" => failures = 0

\* A half-open breaker has had too few successes to close.
TrialsPending == state = "half_open" => successes < SuccessThreshold

BreakerInv == TypeOK /\ RetriesLeft /\ FailuresInStreak /\ TrialsPending

LEMMA InitBreaker == Init => BreakerInv
BY GuardedFetchAssumption
   DEF GuardedFetchAssumption, Init, BreakerInv, TypeOK, RetriesLeft,
       FailuresInStreak, TrialsPending, States

\* What record_success and record_failure do to the breaker.
LEMMA RecordStep ==
  ASSUME BreakerInv, RecordSuccess \/ RecordFailure
  PROVE  /\ state' \in States /\ failures' \in 0..(FailureThreshold - 1)
         /\ successes' \in Nat /\ openedAt' \in Nat /\ streak' \in Nat
         /\ failures' <= streak' /\ (state' # "closed" => failures' = 0)
         /\ state' = "half_open" => successes' < SuccessThreshold
<1>1. CASE RecordSuccess
  BY <1>1, GuardedFetchAssumption
     DEF GuardedFetchAssumption, BreakerInv, TypeOK, FailuresInStreak,
         TrialsPending, RecordSuccess, ClosedSuccess, EnoughSuccesses,
         breakerVars, States
<1>2. CASE RecordFailure
  BY <1>2, GuardedFetchAssumption
     DEF GuardedFetchAssumption, BreakerInv, TypeOK, FailuresInStreak,
         TrialsPending, RecordFailure, OpenFailure, breakerVars, States
<1> QED BY <1>1, <1>2

LEMMA NextBreaker == BreakerInv /\ [Next]_vars => BreakerInv'
<1> SUFFICES ASSUME BreakerInv, [Next]_vars PROVE BreakerInv'
  OBVIOUS
<1> USE GuardedFetchAssumption DEF GuardedFetchAssumption
<1>1. CASE UNCHANGED vars
  BY <1>1 DEF BreakerInv, TypeOK, RetriesLeft, FailuresInStreak, TrialsPending,
              vars, breakerVars, bucketVars, callVars
<1>2. CASE Tick
  BY <1>2 DEF BreakerInv, TypeOK, RetriesLeft, FailuresInStreak, TrialsPending,
              Tick, breakerVars, bucketVars, callVars
<1>3. ASSUME NEW f \in Fetchers, Refuse(f) PROVE BreakerInv'
  BY <1>3 DEF BreakerInv, TypeOK, RetriesLeft, FailuresInStreak, TrialsPending,
              Refuse, breakerVars, bucketVars
<1>4. ASSUME NEW f \in Fetchers, Call(f) PROVE BreakerInv'
  <2>1. /\ state' \in States /\ failures' = failures /\ successes' \in Nat
        /\ openedAt' = openedAt
        /\ state' # "closed" => failures' = 0
        /\ state' = "half_open" => successes' < SuccessThreshold
    BY <1>4 DEF BreakerInv, TypeOK, FailuresInStreak, TrialsPending, Call, Admit,
                breakerVars, States
  <2>2. tokens' \in Int /\ tokens' <= Burst /\ lastRefill' \in Nat
    BY <1>4 DEF BreakerInv, TypeOK, Call, Refilled, TokenTaken
  <2>3. now + TokenWait(Refilled) \in Nat
    BY DEF BreakerInv, TypeOK, TokenWait, Refilled
  <2>4. TypeOK'
    BY <1>4, <2>1, <2>2, <2>3 DEF BreakerInv, TypeOK, Call
  <2>5. RetriesLeft'
    BY <1>4 DEF BreakerInv, TypeOK, RetriesLeft, Call
  <2> QED BY <1>4, <2>1, <2>4, <2>5
          DEF BreakerInv, FailuresInStreak, TrialsPending, Call
<1>5. ASSUME NEW f \in Fetchers, FirstSend(f) PROVE BreakerInv'
  BY <1>5 DEF BreakerInv, TypeOK, RetriesLeft, FailuresInStreak, TrialsPending,
              FirstSend, breakerVars, bucketVars
<1>6. ASSUME NEW f \in Fetchers, Succeed(f) \/ FailRetryably(f) \/ Fail(f)
      PROVE  BreakerInv'
  <2>1. RecordSuccess \/ RecordFailure
    BY <1>6 DEF Succeed, FailRetryably, Fail
  <2>2. /\ pc' \in [Fetchers -> {"idle", "waiting", "sending", "backoff"}]
        /\ attempts' = attempts
        /\ \A g \in Fetchers : pc'[g] = "backoff" =>
             pc[g] = "backoff" \/ attempts[g] < MaxAttempts
    BY <1>6 DEF BreakerInv, TypeOK, Succeed, FailRetryably, Fail, MayRetry
  <2>3. UNCHANGED <<bucketVars, wake, calls, released, now>>
    BY <1>6 DEF Succeed, FailRetryably, Fail
  <2> QED BY <2>1, <2>2, <2>3, RecordStep
          DEF BreakerInv, TypeOK, RetriesLeft, FailuresInStreak, TrialsPending,
              bucketVars
<1>7. ASSUME NEW f \in Fetchers, Retry(f) PROVE BreakerInv'
  BY <1>7 DEF BreakerInv, TypeOK, RetriesLeft, FailuresInStreak, TrialsPending,
              Retry, breakerVars, bucketVars
<1> QED BY <1>1, <1>2, <1>3, <1>4, <1>5, <1>6, <1>7 DEF Next, Progress

LEMMA BreakerInvariant == Spec => []BreakerInv
BY InitBreaker, NextBreaker, PTL DEF Spec

\* Every variable keeps its type; in particular no call makes more than
\* MaxAttempts requests and a breaker's count stays under its threshold.
THEOREM TypeCorrect == Spec => []TypeOK
<1>1. BreakerInv => TypeOK
  BY DEF BreakerInv
<1> QED BY <1>1, BreakerInvariant, PTL

\* When closing needs no more successes than trials are allowed, a half-open
\* breaker always lets the next trial in.
THEOREM HalfOpenAdmitsHolds ==
  ASSUME SuccessThreshold <= HalfOpenMax
  PROVE  Spec => []HalfOpenAdmits
<1>1. BreakerInv => HalfOpenAdmits
  BY GuardedFetchAssumption
     DEF GuardedFetchAssumption, BreakerInv, TypeOK, TrialsPending, HalfOpenAdmits
<1> QED BY <1>1, BreakerInvariant, PTL

\* A half-open breaker that admits no trial and has no call under way: what
\* NeverStuck excludes.
Stuck ==
  /\ state = "half_open" /\ successes >= HalfOpenMax
  /\ \A f \in Fetchers : ~Active(f)

\* A breaker that is stuck once refuses every call for ever: neither time nor
\* any call of any source gets it out (allow, record_success).
THEOREM StuckForGood == Spec => [](Stuck => []Stuck)
<1>1. TypeOK /\ Stuck /\ [Next]_vars => Stuck'
  <2> SUFFICES ASSUME TypeOK, Stuck, [Next]_vars PROVE Stuck'
    OBVIOUS
  <2>1. CASE UNCHANGED vars
    BY <2>1 DEF Stuck, Active, vars, breakerVars, callVars
  <2>2. CASE Tick
    BY <2>2 DEF Stuck, Active, Tick, breakerVars, callVars
  <2>3. ASSUME NEW f \in Fetchers, Refuse(f) PROVE Stuck'
    BY <2>3 DEF Stuck, Active, Refuse, breakerVars
  <2>4. ASSUME NEW f \in Fetchers PROVE ~Call(f) /\ ~Progress(f)
    BY GuardedFetchAssumption
       DEF GuardedFetchAssumption, TypeOK, Stuck, Active, Call, Admit, Progress,
           FirstSend, Succeed, FailRetryably, Fail, Retry
  <2> QED BY <2>1, <2>2, <2>3, <2>4 DEF Next
<1> QED BY <1>1, TypeCorrect, PTL DEF Spec

\* A closed breaker opens only when the last FailureThreshold results of the
\* host were failures, whatever calls they belong to.
THEOREM OpensOnSustainedFailureHolds == Spec => OpensOnSustainedFailure
<1>1. BreakerInv /\ [Next]_vars =>
        [state = "closed" /\ state' = "open" => streak' >= FailureThreshold]_vars
  <2> SUFFICES ASSUME BreakerInv, [Next]_vars, state = "closed", state' = "open"
               PROVE  streak' >= FailureThreshold
    OBVIOUS
  <2>1. ~ UNCHANGED vars /\ ~Tick
    BY DEF vars, breakerVars, Tick
  <2>2. PICK f \in Fetchers : Refuse(f) \/ Call(f) \/ Progress(f)
    BY <2>1 DEF Next
  <2>3. RecordSuccess \/ RecordFailure
    BY <2>2 DEF Refuse, Call, Admit, Progress, FirstSend, Succeed,
                FailRetryably, Fail, Retry, breakerVars
  <2>4. RecordFailure
    BY <2>3 DEF RecordSuccess, breakerVars
  <2> QED BY <2>4, GuardedFetchAssumption
          DEF RecordFailure, BreakerInv, TypeOK, FailuresInStreak,
              GuardedFetchAssumption
<1> QED BY <1>1, BreakerInvariant, PTL DEF Spec, OpensOnSustainedFailure

-----------------------------------------------------------------------------
(* The budget.  Calls take their tokens in one order and may be released   *)
(* in another, so the invariant speaks of every future time t: the calls   *)
(* released by then are those released already and those due by t.         *)

Queued == {f \in Fetchers : pc[f] = "waiting"}
DueBy(t) == {f \in Fetchers : pc[f] = "waiting" /\ wake[f] <= t}

\* The bucket's balance accounts for every call that took a token.
DebtBound ==
  tokens <= Burst + lastRefill - (released + Cardinality(Queued))

DueBound ==
  \A t \in Nat : t >= now => released + Cardinality(DueBy(t)) <= Burst + t

BudgetInv == TypeOK /\ lastRefill <= now /\ DebtBound /\ DueBound

\* Both sets are finite, and those due are among those queued.
LEMMA QueueCounts ==
  ASSUME NEW t
  PROVE  /\ IsFiniteSet(Queued) /\ Cardinality(Queued) \in Nat
         /\ IsFiniteSet(DueBy(t)) /\ Cardinality(DueBy(t)) \in Nat
         /\ Cardinality(DueBy(t)) <= Cardinality(Queued)
<1>1. IsFiniteSet(Fetchers)
  BY GuardedFetchAssumption DEF GuardedFetchAssumption
<1>2. IsFiniteSet(Queued)
  BY <1>1, FS_Subset DEF Queued
<1>3. DueBy(t) \in SUBSET Queued
  BY DEF DueBy, Queued
<1>4. IsFiniteSet(DueBy(t)) /\ Cardinality(DueBy(t)) <= Cardinality(Queued)
  BY <1>2, <1>3, FS_Subset
<1> QED BY <1>2, <1>4, FS_CardinalityType

LEMMA InitBudget == Init => BudgetInv
<1> SUFFICES ASSUME Init PROVE BudgetInv
  OBVIOUS
<1>1. TypeOK
  BY InitBreaker DEF BreakerInv
<1>2. Queued = {} /\ \A t : DueBy(t) = {}
  BY DEF Init, Queued, DueBy
<1>3. Cardinality(Queued) = 0 /\ \A t : Cardinality(DueBy(t)) = 0
  BY <1>2, FS_EmptySet
<1> QED BY <1>1, <1>3, GuardedFetchAssumption
        DEF GuardedFetchAssumption, Init, BudgetInv, DebtBound, DueBound

\* A step that neither queues a call nor releases one.
LEMMA QuietBudget ==
  ASSUME BudgetInv, TypeOK', now' >= now,
         UNCHANGED <<bucketVars, wake, released>>,
         \A f \in Fetchers : pc[f] = "waiting" <=> pc'[f] = "waiting"
  PROVE  BudgetInv'
<1>1. Queued' = Queued /\ \A t : DueBy(t)' = DueBy(t)
  BY DEF Queued, DueBy
<1>2. DueBound'
  <2> SUFFICES ASSUME NEW t \in Nat, t >= now'
               PROVE  released' + Cardinality(DueBy(t)') <= Burst' + t
    BY DEF DueBound
  <2>1. t >= now
    BY DEF BudgetInv, TypeOK
  <2>2. released + Cardinality(DueBy(t)) <= Burst + t
    BY <2>1 DEF BudgetInv, DueBound
  <2> QED BY <1>1, <2>2
<1>3. DebtBound'
  BY <1>1 DEF BudgetInv, DebtBound, bucketVars
<1>4. lastRefill' <= now'
  BY DEF BudgetInv, TypeOK, bucketVars
<1> QED BY <1>2, <1>3, <1>4 DEF BudgetInv

\* A call takes its token: it becomes due when the bucket has paid for it.
LEMMA CallBudget ==
  ASSUME BudgetInv, TypeOK', NEW f \in Fetchers, Call(f)
  PROVE  BudgetInv'
<1> DEFINE w == now + TokenWait(Refilled)
<1> USE GuardedFetchAssumption DEF GuardedFetchAssumption
<1>1. /\ pc[f] = "idle" /\ released' = released /\ now' = now
      /\ tokens' = Refilled - 1 /\ lastRefill' = now
      /\ pc' = [pc EXCEPT ![f] = "waiting"] /\ wake' = [wake EXCEPT ![f] = w]
  BY DEF Call, TokenTaken
<1>0. /\ released \in Nat /\ Cardinality(Queued) \in Nat
      /\ tokens \in Int /\ now \in Nat /\ lastRefill \in Nat
      /\ tokens <= Burst + lastRefill - (released + Cardinality(Queued))
  BY QueueCounts DEF BudgetInv, TypeOK, DebtBound
<1>2. /\ Refilled \in Int
      /\ Refilled <= Burst + now - (released + Cardinality(Queued))
  BY <1>0 DEF Refilled
<1>3. Queued' = Queued \cup {f} /\ f \notin Queued
  BY <1>1 DEF Queued, BudgetInv, TypeOK
<1>4. Cardinality(Queued') = Cardinality(Queued) + 1
  BY <1>3, QueueCounts, FS_AddElement
<1>5. DebtBound'
  BY <1>0, <1>1, <1>2, <1>4 DEF DebtBound
<1>6. DueBound'
  <2> SUFFICES ASSUME NEW t \in Nat, t >= now
               PROVE  released + Cardinality(DueBy(t)') <= Burst + t
    BY <1>1 DEF DueBound
  <2>0. /\ released \in Nat /\ now \in Nat
        /\ Cardinality(Queued) \in Nat /\ Cardinality(DueBy(t)) \in Nat
        /\ Cardinality(DueBy(t)) <= Cardinality(Queued)
    BY QueueCounts DEF BudgetInv, TypeOK
  <2>1. CASE w <= t
    <3>1. DueBy(t)' = DueBy(t) \cup {f} /\ f \notin DueBy(t)
      BY <1>1, <2>1 DEF DueBy, BudgetInv, TypeOK
    <3>2. Cardinality(DueBy(t)') = Cardinality(DueBy(t)) + 1
      BY <3>1, QueueCounts, FS_AddElement
    <3>3. Refilled + t >= now + 1
      BY <2>0, <2>1, <1>2 DEF TokenWait
    <3> QED BY <1>2, <2>0, <3>2, <3>3
  <2>2. CASE ~(w <= t)
    <3>1. DueBy(t)' = DueBy(t)
      BY <1>1, <2>2 DEF DueBy, BudgetInv, TypeOK
    <3> QED BY <3>1 DEF BudgetInv, DueBound
  <2> QED BY <2>1, <2>2
<1> QED BY <1>1, <1>5, <1>6 DEF BudgetInv, TypeOK

\* A due call sends its first request: it leaves the queue and is counted.
LEMMA FirstSendBudget ==
  ASSUME BudgetInv, TypeOK', NEW f \in Fetchers, FirstSend(f)
  PROVE  BudgetInv'
<1> USE GuardedFetchAssumption DEF GuardedFetchAssumption
<1>1. /\ pc[f] = "waiting" /\ wake[f] <= now /\ released' = released + 1
      /\ pc' = [pc EXCEPT ![f] = "sending"]
      /\ UNCHANGED <<tokens, lastRefill, wake, now>>
  BY DEF FirstSend, bucketVars, BudgetInv, TypeOK
<1>2. Queued' = Queued \ {f} /\ f \in Queued
  BY <1>1 DEF Queued, BudgetInv, TypeOK
<1>3. Cardinality(Queued') = Cardinality(Queued) - 1
  BY <1>2, QueueCounts, FS_RemoveElement
<1>4. DebtBound'
  BY <1>1, <1>3, QueueCounts DEF DebtBound, BudgetInv, TypeOK
<1>5. DueBound'
  <2> SUFFICES ASSUME NEW t \in Nat, t >= now
               PROVE  released + 1 + Cardinality(DueBy(t)') <= Burst + t
    BY <1>1 DEF DueBound
  <2>1. DueBy(t)' = DueBy(t) \ {f} /\ f \in DueBy(t)
    BY <1>1 DEF DueBy, BudgetInv, TypeOK
  <2>2. Cardinality(DueBy(t) \ {f}) = Cardinality(DueBy(t)) - 1
    <3>1. IsFiniteSet(DueBy(t))
      BY QueueCounts
    <3> QED BY <2>1, <3>1, FS_RemoveElement
  <2>3. released + Cardinality(DueBy(t)) <= Burst + t
    BY DEF BudgetInv, DueBound
  <2> QED BY <2>1, <2>2, <2>3, QueueCounts DEF BudgetInv, TypeOK
<1> QED BY <1>1, <1>4, <1>5 DEF BudgetInv

LEMMA NextBudget == BudgetInv /\ TypeOK' /\ [Next]_vars => BudgetInv'
<1> SUFFICES ASSUME BudgetInv, TypeOK', [Next]_vars PROVE BudgetInv'
  OBVIOUS
<1>1. CASE UNCHANGED vars
  BY <1>1, QuietBudget DEF vars, callVars, BudgetInv, TypeOK
<1>2. CASE Tick
  BY <1>2, QuietBudget DEF Tick, callVars, BudgetInv, TypeOK
<1>3. ASSUME NEW f \in Fetchers, Refuse(f) PROVE BudgetInv'
  BY <1>3, QuietBudget DEF Refuse, BudgetInv, TypeOK
<1>4. ASSUME NEW f \in Fetchers, Succeed(f) \/ FailRetryably(f) \/ Fail(f) \/ Retry(f)
      PROVE  BudgetInv'
  <2>1. \A g \in Fetchers : pc[g] = "waiting" <=> pc'[g] = "waiting"
    BY <1>4 DEF Succeed, FailRetryably, Fail, Retry, BudgetInv, TypeOK
  <2>2. now' = now /\ UNCHANGED <<bucketVars, wake, released>>
    BY <1>4 DEF Succeed, FailRetryably, Fail, Retry
  <2> QED BY <2>1, <2>2, QuietBudget DEF BudgetInv, TypeOK
<1> QED BY <1>1, <1>2, <1>3, <1>4, CallBudget, FirstSendBudget DEF Next, Progress

\* All sources together send at most Burst + t first requests by time t,
\* however their waits overlap.
THEOREM PacedByBudgetHolds == Spec => []PacedByBudget
<1>1. BudgetInv => PacedByBudget
  <2> SUFFICES ASSUME BudgetInv PROVE PacedByBudget
    OBVIOUS
  <2>1. released + Cardinality(DueBy(now)) <= Burst + now
    BY DEF BudgetInv, DueBound, TypeOK
  <2> QED BY <2>1, QueueCounts, GuardedFetchAssumption
          DEF PacedByBudget, BudgetInv, TypeOK, GuardedFetchAssumption
<1> QED BY <1>1, InitBudget, NextBudget, TypeCorrect, PTL DEF Spec

-----------------------------------------------------------------------------
(* The cooldown.                                                           *)

\* Only a trial after the cooldown takes a breaker out of open, and no late
\* result of an earlier call prolongs its stay.
THEOREM OpenForItsDurationHolds == Spec => OpenForItsDuration
<1> DEFINE Stays == state = "open" =>
                      IF state' = "open" THEN openedAt' = openedAt
                      ELSE state' = "half_open" /\ Cooled
<1>1. ASSUME Next PROVE Stays
  <2>1. CASE Tick
    BY <2>1 DEF Tick, breakerVars
  <2>2. ASSUME NEW f \in Fetchers, Refuse(f) PROVE Stays
    BY <2>2 DEF Refuse, breakerVars
  <2>3. ASSUME NEW f \in Fetchers, Call(f) PROVE Stays
    BY <2>3 DEF Call, Admit, breakerVars
  <2>4. ASSUME NEW f \in Fetchers, FirstSend(f) \/ Retry(f) PROVE Stays
    BY <2>4 DEF FirstSend, Retry, breakerVars
  <2>5. ASSUME RecordSuccess \/ RecordFailure PROVE Stays
    BY <2>5 DEF RecordSuccess, RecordFailure, OpenFailure, breakerVars
  <2>6. ASSUME NEW f \in Fetchers, Succeed(f) \/ FailRetryably(f) \/ Fail(f)
        PROVE  Stays
    BY <2>5, <2>6 DEF Succeed, FailRetryably, Fail
  <2> QED BY <1>1, <2>1, <2>2, <2>3, <2>4, <2>6 DEF Next, Progress
<1>2. ASSUME UNCHANGED vars PROVE Stays
  BY <1>2 DEF vars, breakerVars
<1> QED BY <1>1, <1>2, PTL DEF Spec, OpenForItsDuration

\* While the breaker stays open nobody is let in, and what each call let in
\* before may still send only gets less.
THEOREM OpenDrainsHolds == Spec => OpenDrains
<1> DEFINE Drains == state = "open" /\ state' = "open" =>
              \A g \in Fetchers : RequestsLeft(g)' <= RequestsLeft(g)
           Quiet(g) == pc'[g] = pc[g] /\ attempts'[g] = attempts[g]
<1> USE GuardedFetchAssumption
<1>1. ASSUME TypeOK, Next PROVE Drains
  <2>1. ASSUME NEW g \in Fetchers
        PROVE  /\ attempts[g] \in 0..MaxAttempts /\ RequestsLeft(g) \in Nat
               /\ Quiet(g) => RequestsLeft(g)' <= RequestsLeft(g)
    BY <1>1, <2>1 DEF TypeOK, RequestsLeft
  <2>2. CASE Tick \/ \E f \in Fetchers : Refuse(f)
    BY <2>1, <2>2 DEF Tick, Refuse, callVars
  <2>3. ASSUME NEW f \in Fetchers, Call(f) PROVE Drains
    BY <2>3 DEF Call, Admit, breakerVars
  <2>4. ASSUME NEW f \in Fetchers, FirstSend(f) PROVE Drains
    <3>1. /\ pc[f] = "waiting" /\ pc'[f] = "sending" /\ attempts'[f] = 1
          /\ \A g \in Fetchers \ {f} : Quiet(g)
      BY <1>1, <2>4 DEF FirstSend, TypeOK
    <3>2. RequestsLeft(f)' <= RequestsLeft(f)
      BY <3>1 DEF RequestsLeft
    <3> QED BY <2>1, <3>1, <3>2
  <2>5. ASSUME NEW f \in Fetchers, Retry(f) PROVE Drains
    <3>1. /\ pc[f] = "backoff" /\ pc'[f] = "sending"
          /\ attempts'[f] = attempts[f] + 1
          /\ \A g \in Fetchers \ {f} : Quiet(g)
      BY <1>1, <2>1, <2>5 DEF Retry, TypeOK
    <3>2. RequestsLeft(f)' <= RequestsLeft(f)
      BY <2>1, <3>1 DEF RequestsLeft
    <3> QED BY <2>1, <3>1, <3>2
  <2>6. ASSUME NEW f \in Fetchers, Succeed(f) \/ FailRetryably(f) \/ Fail(f)
        PROVE  Drains
    <3>1. /\ pc[f] = "sending" /\ attempts' = attempts
          /\ pc'[f] \in {"idle", "backoff"}
          /\ \A g \in Fetchers \ {f} : Quiet(g)
      BY <1>1, <2>6 DEF Succeed, FailRetryably, Fail, TypeOK
    <3>2. RequestsLeft(f)' <= RequestsLeft(f)
      BY <2>1, <3>1 DEF RequestsLeft
    <3> QED BY <2>1, <3>1, <3>2
  <2> QED BY <1>1, <2>2, <2>3, <2>4, <2>5, <2>6 DEF Next, Progress
<1>2. ASSUME TypeOK, UNCHANGED vars PROVE Drains
  BY <1>2 DEF vars, callVars, TypeOK, RequestsLeft
<1>3. TypeOK /\ [Next]_vars =>
        [state = "open" /\ state' = "open" =>
           \A f \in Fetchers : RequestsLeft(f)' <= RequestsLeft(f)]_vars
  BY <1>1, <1>2
<1> QED BY <1>3, TypeCorrect, PTL DEF Spec, OpenDrains
=============================================================================
