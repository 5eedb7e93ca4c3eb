----------------------------- MODULE SourceFetch -----------------------------
(***************************************************************************)
(* The acquisition tasks of a run (src/tor_collector/fetch.rs) and the     *)
(* circuit breaker they share.  The breaker keeps two maps under two       *)
(* mutexes: `allow` takes open_since and then failures, `record` takes     *)
(* failures and then open_since.  Tasks run on several threads; inside one *)
(* task the BridgeDB strand and the mirror strands take turns, and no lock *)
(* is held while a request is in flight.                                   *)
(***************************************************************************)
EXTENDS Integers, FiniteSets

CONSTANTS
  Tasks,      \* acquisition tasks, one per (transport, ipv6)
  BridgeDb,   \* source key of BridgeDB
  Mirrors,    \* source keys of the community mirrors
  Free,       \* a mutex nobody holds
  Threshold,  \* SOURCE_CB_FAILURES
  Cooldown,   \* SOURCE_CB_RESET_SECS, in ticks
  MaxTime     \* bound on the clock

Keys == {BridgeDb} \cup Mirrors
Strands == Tasks \X Keys
TaskOf(s) == s[1]
KeyOf(s) == s[2]

\* A BridgeDB strand has two URLs behind one `allow`, a mirror one.
Urls(s) == IF KeyOf(s) = BridgeDb THEN 2 ELSE 1

ASSUME FetchAssumption ==
  /\ Threshold \in Nat \ {0} /\ Cooldown \in Nat /\ MaxTime \in Nat
  /\ BridgeDb \notin Mirrors /\ Free \notin Strands

VARIABLES
  pc,         \* strand -> where it is
  answer,     \* strand -> the answer being recorded
  left,       \* strand -> URLs not requested yet
  openSince,  \* source key -> opening time, for the open ones
  failures,   \* source key -> consecutive failures
  openLock,   \* holder of the open_since mutex
  failLock,   \* holder of the failures mutex
  now

strandVars  == <<pc, answer, left>>
breakerVars == <<openSince, failures, openLock, failLock>>
vars == <<strandVars, breakerVars, now>>

Answers == {"usable", "empty", "failed"}

\* Threads inside allow or record; the rest of a task waits for its thread.
InCall == {"allow_failures", "record", "record_open"}
ThreadFree(s) ==
  \A r \in Strands : TaskOf(r) = TaskOf(s) /\ r # s => pc[r] \notin InCall

-----------------------------------------------------------------------------
Init ==
  /\ pc = [s \in Strands |-> "start"]
  /\ answer = [s \in Strands |-> "failed"]
  /\ left = [s \in Strands |-> Urls(s)]
  /\ openSince = [k \in {} |-> 0]
  /\ failures = [k \in Keys |-> 0]
  /\ openLock = Free /\ failLock = Free
  /\ now = 0

IsOpen(k) == k \in DOMAIN openSince
Elapsed(k) == now - openSince[k] >= Cooldown
Without(k) == [o \in DOMAIN openSince \ {k} |-> openSince[o]]
With(k) == [o \in DOMAIN openSince \cup {k} |->
              IF o = k THEN now ELSE openSince[o]]

Send(s) ==
  /\ pc' = [pc EXCEPT ![s] = "inflight"]
  /\ left' = [left EXCEPT ![s] = @ - 1]

\* allow, with the open_since mutex: closed lets the request through, open
\* skips the source, and an elapsed cooldown goes on to the failure counts
\* without letting the mutex go.  A task's first poll asks for BridgeDB and
\* then for every mirror before it can see any answer.
Allow(s) ==
  /\ pc[s] = "start" /\ ThreadFree(s) /\ openLock = Free
  /\ KeyOf(s) # BridgeDb => pc[<<TaskOf(s), BridgeDb>>] # "start"
  /\ \/ /\ ~IsOpen(KeyOf(s))
        /\ Send(s)
        /\ UNCHANGED <<openSince, openLock>>
     \/ /\ IsOpen(KeyOf(s)) /\ ~Elapsed(KeyOf(s))
        /\ pc' = [pc EXCEPT ![s] = "done"]
        /\ UNCHANGED <<left, openSince, openLock>>
     \/ /\ IsOpen(KeyOf(s)) /\ Elapsed(KeyOf(s))
        /\ openSince' = Without(KeyOf(s))
        /\ openLock' = s
        /\ pc' = [pc EXCEPT ![s] = "allow_failures"]
        /\ UNCHANGED left
  /\ UNCHANGED <<answer, failures, failLock, now>>

\* Mutant: the cooldown closes the breaker but keeps the count.
ForgottenCount_Keep(k) == failures[k]

ForgottenCount(k) == 0

\* Mutant: the guard of open_since lives on across the request.
AllowFailures_GuardKept(s) ==
  /\ pc[s] = "allow_failures" /\ failLock = Free
  /\ failures' = [failures EXCEPT ![KeyOf(s)] = ForgottenCount(KeyOf(s))]
  /\ Send(s)
  /\ UNCHANGED <<answer, openSince, openLock, failLock, now>>

\* allow, second mutex.
AllowFailures(s) ==
  /\ pc[s] = "allow_failures" /\ failLock = Free
  /\ failures' = [failures EXCEPT ![KeyOf(s)] = ForgottenCount(KeyOf(s))]
  /\ openLock' = Free
  /\ Send(s)
  /\ UNCHANGED <<answer, openSince, failLock, now>>

\* fetch_text gives up or returns a body; every attempt has a timeout.
Respond(s) ==
  /\ pc[s] = "inflight" /\ ThreadFree(s)
  /\ \A k \in Keys : pc[<<TaskOf(s), k>>] # "start"
  /\ \E a \in Answers : answer' = [answer EXCEPT ![s] = a]
  /\ pc' = [pc EXCEPT ![s] = "record"]
  /\ UNCHANGED <<left, breakerVars, now>>

\* Mutant: the second URL is requested again and again.
Continue_Retry(s) ==
  IF answer[s] # "usable"
  THEN Send(s)
  ELSE pc' = [pc EXCEPT ![s] = "done"] /\ UNCHANGED left

\* After the record: a BridgeDB strand that got nothing usable requests its
\* next URL, and does not ask the breaker again.  (A body that cannot be
\* parsed ends the strand like a usable one.)
Continue(s) ==
  IF answer[s] # "usable" /\ left[s] > 0
  THEN Send(s)
  ELSE pc' = [pc EXCEPT ![s] = "done"] /\ UNCHANGED left

\* record, with the failures mutex: a success goes on to open_since, and so
\* does the failure that reaches the threshold.
Record(s) ==
  LET k == KeyOf(s) IN
  /\ pc[s] = "record" /\ failLock = Free
  /\ \/ /\ answer[s] # "failed"
        /\ failures' = [failures EXCEPT ![k] = 0]
        /\ failLock' = s
        /\ pc' = [pc EXCEPT ![s] = "record_open"] /\ UNCHANGED left
     \/ /\ answer[s] = "failed" /\ failures[k] + 1 >= Threshold
        /\ failures' = [failures EXCEPT ![k] = @ + 1]
        /\ failLock' = s
        /\ pc' = [pc EXCEPT ![s] = "record_open"] /\ UNCHANGED left
     \/ /\ answer[s] = "failed" /\ failures[k] + 1 < Threshold
        /\ failures' = [failures EXCEPT ![k] = @ + 1]
        /\ UNCHANGED failLock
        /\ Continue(s)
  /\ UNCHANGED <<answer, openSince, openLock, now>>

\* record, second mutex: a success closes, a failure opens (again).
RecordOpen(s) ==
  /\ pc[s] = "record_open" /\ openLock = Free
  /\ openSince' = IF answer[s] = "failed" THEN With(KeyOf(s))
                                          ELSE Without(KeyOf(s))
  /\ failLock' = Free
  /\ Continue(s)
  /\ UNCHANGED <<answer, failures, openLock, now>>

Tick == now < MaxTime /\ now' = now + 1 /\ UNCHANGED <<strandVars, breakerVars>>

Step(s) ==
  Allow(s) \/ AllowFailures(s) \/ Respond(s) \/ Record(s) \/ RecordOpen(s)

AllDone == \A s \in Strands : pc[s] = "done"

Next == Tick \/ \E s \in Strands : Step(s)

Spec == Init /\ [][Next]_vars

\* Threads run, requests time out, a free mutex is taken by a waiting thread.
FairSpec == Spec /\ \A s \in Strands : WF_vars(Step(s))

-----------------------------------------------------------------------------
(* Properties                                                              *)

\* Every variable has the values the code gives it.
TypeOK ==
  /\ pc \in [Strands -> {"start", "allow_failures", "inflight", "record",
                         "record_open", "done"}]
  /\ answer \in [Strands -> Answers]
  /\ left \in [Strands -> 0..2]
  /\ DOMAIN openSince \subseteq Keys
  /\ openSince \in [DOMAIN openSince -> Nat]
  /\ failures \in [Keys -> Nat]
  /\ openLock \in Strands \cup {Free} /\ failLock \in Strands \cup {Free}
  /\ now \in Nat

\* The two maps agree whenever both mutexes are free: a source is blocked
\* exactly when its consecutive failures reached the threshold (allow and
\* record of SourceCircuitBreaker update them one after the other).
MapsAgree ==
  openLock = Free /\ failLock = Free =>
    \A k \in Keys : IsOpen(k) <=> failures[k] >= Threshold

\* What the next region of s needs is free: its thread or a mutex.
CanStep(s) ==
  \/ /\ pc[s] = "start" /\ ThreadFree(s) /\ openLock = Free
     /\ KeyOf(s) # BridgeDb => pc[<<TaskOf(s), BridgeDb>>] # "start"
  \/ pc[s] \in {"allow_failures", "record"} /\ failLock = Free
  \/ /\ pc[s] = "inflight" /\ ThreadFree(s)
     /\ \A k \in Keys : pc[<<TaskOf(s), k>>] # "start"
  \/ pc[s] = "record_open" /\ openLock = Free

\* A thread inside allow holds open_since and waits for failures, another
\* one inside record holds failures and waits for open_since.
CrossWait ==
  \E r, s \in Strands : /\ pc[r] = "allow_failures" /\ openLock = r
                        /\ pc[s] = "record_open" /\ failLock = s

\* The opposite orders of the two mutexes are the only way the acquisition
\* can get stuck: otherwise some task can always go on, whatever the tasks
\* that share a thread and the strands that share a breaker wait for.
OnlyCrossWaitBlocks == AllDone \/ CrossWait \/ \E s \in Strands : CanStep(s)

\* Every acquisition ends: no thread stays inside allow or record for ever
\* ("This prevents a persistently dead mirror from consuming the entire
\* stage budget on every run", SourceCircuitBreaker).
AcquisitionEnds == <>AllDone
=============================================================================
