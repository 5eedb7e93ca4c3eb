------------------------------ MODULE ProbeEngine ------------------------------
(***************************************************************************)
(* The probe engine of a run (src/tor_collector/tester.rs), shared by the  *)
(* list tasks: each calls test_many, which probes its candidates in chunks *)
(* under a semaphore of its own.  Shared, each under one mutex, are the    *)
(* breaker per front domain and the success counts per transport that the  *)
(* size of the next chunk is taken from.  No lock is held over an await.   *)
(***************************************************************************)
EXTENDS Integers, FiniteSets, Sequences

CONSTANTS
  Lists,        \* calls of test_many
  Candidates,   \* list -> its candidate lines, in order
  Longest,      \* length of the longest of them
  TransportOf,  \* list -> its transport
  FrontOf,      \* line -> its front domain, or Direct
  Direct,       \* no front: a TCP connect to the literal address
  Guarded,      \* lines the endpoint guard rejects
  Fronts, Transports,
  MaxRetries, MinWorkers, MaxWorkers,
  Threshold,    \* front_failure_threshold
  Cooldown,     \* front_cooldown_secs, in ticks
  WarmUp,       \* results before a transport is judged
  MaxTime       \* bound on the clock

Probes == {p \in Lists \X (1..Longest) : p[2] <= Len(Candidates[p[1]])}
LineOf(p) == Candidates[p[1]][p[2]]
Front(p) == FrontOf[LineOf(p)]

ASSUME ProbeAssumption ==
  /\ IsFiniteSet(Lists) /\ Longest \in Nat
  /\ \A l \in Lists : Len(Candidates[l]) \in 0..Longest /\ TransportOf[l] \in Transports
  /\ \A p \in Probes : Front(p) \in Fronts \cup {Direct}
  /\ Direct \notin Fronts
  /\ MaxRetries \in Nat \ {0} /\ MinWorkers \in Nat \ {0}
  /\ MaxWorkers \in Nat /\ MaxWorkers >= MinWorkers
  /\ Threshold \in Nat \ {0} /\ Cooldown \in Nat \ {0} /\ WarmUp \in Nat
  /\ MaxTime \in Nat

VARIABLES
  started,    \* list -> candidates in the chunks begun so far
  recorded,   \* list -> candidates in the chunks that ended
  permits,    \* list -> permits of its current chunk
  pc,         \* probe -> where it is
  attempt,    \* probe -> attempts made
  fails,      \* front -> consecutive failures
  openUntil,  \* front -> when its circuit closes, 0 when it is not open
  good, bad,  \* transport -> successes and failures of the ended chunks
  hits,       \* history: front -> requests since its last answer or cooldown
  now

listVars  == <<started, recorded, permits>>
probeVars == <<pc, attempt>>
frontVars == <<fails, openUntil, hits>>
vars == <<listVars, probeVars, frontVars, good, bad, now>>

Ended == {"reachable", "unreachable"}
Running == {"trying", "inflight", "backoff"}

-----------------------------------------------------------------------------
Init ==
  /\ started = [l \in Lists |-> 0] /\ recorded = [l \in Lists |-> 0]
  /\ permits = [l \in Lists |-> 0]
  /\ pc = [p \in Probes |-> "queued"]
  /\ attempt = [p \in Probes |-> 0]
  /\ fails = [f \in Fronts |-> 0] /\ openUntil = [f \in Fronts |-> 0]
  /\ good = [t \in Transports |-> 0] /\ bad = [t \in Transports |-> 0]
  /\ hits = [f \in Fronts |-> 0]
  /\ now = 0

AtLeast(n, m) == IF n >= m THEN n ELSE m

\* The workers for a transport with g successes and b failures: a weak one is
\* probed with fewer sockets.
PermitsFor(g, b) ==
  IF g + b < WarmUp THEN MaxWorkers
  ELSE IF 5 * g < g + b THEN MinWorkers
  ELSE IF 2 * g < g + b THEN AtLeast(MaxWorkers \div 4, MinWorkers)
  ELSE IF 4 * g < 3 * (g + b) THEN AtLeast(MaxWorkers \div 2, MinWorkers)
  ELSE MaxWorkers

ChunkEnd(l, n) ==
  LET e == started[l] + 2 * n
  IN  IF e > Len(Candidates[l]) THEN Len(Candidates[l]) ELSE e

Chunk(l) == {p \in Probes : p[1] = l /\ recorded[l] < p[2] /\ p[2] <= started[l]}

\* The next chunk: its permits from the transport's record, its tasks spawned.
StartChunk(l) ==
  LET n == PermitsFor(good[TransportOf[l]], bad[TransportOf[l]]) IN
  /\ recorded[l] = started[l] /\ started[l] < Len(Candidates[l])
  /\ permits' = [permits EXCEPT ![l] = n]
  /\ started' = [started EXCEPT ![l] = ChunkEnd(l, n)]
  /\ UNCHANGED <<recorded, probeVars, frontVars, good, bad, now>>

Holders(l) == {p \in Chunk(l) : pc[p] \in Running}

\* Mutant: an ended probe does not give its permit back.
PermitFree_Kept(l) == Cardinality({p \in Chunk(l) : pc[p] # "queued"}) < permits[l]

PermitFree(l) == Cardinality(Holders(l)) < permits[l]

\* A task of the chunk gets its permit; the guard rejects an unsafe endpoint
\* before any network access.
Begin(p) ==
  /\ pc[p] = "queued" /\ p \in Chunk(p[1]) /\ PermitFree(p[1])
  /\ pc' = [pc EXCEPT ![p] = IF LineOf(p) \in Guarded THEN "unreachable" ELSE "trying"]
  /\ UNCHANGED <<listVars, attempt, frontVars, good, bad, now>>

\* Mutant: one attempt too many.
AttemptLeft_OffByOne(p) == attempt[p] + 1 <= MaxRetries

AttemptLeft(p) == attempt[p] + 1 < MaxRetries

\* An attempt failed: the probe backs off, or has made its last attempt.
FailAttempt(p) ==
  /\ attempt' = [attempt EXCEPT ![p] = @ + 1]
  /\ pc' = [pc EXCEPT ![p] = IF AttemptLeft(p) THEN "backoff" ELSE "unreachable"]

\* probe_once with a literal endpoint and no front.
Connect(p) ==
  /\ pc[p] = "trying" /\ Front(p) = Direct
  /\ pc' = [pc EXCEPT ![p] = "inflight"]
  /\ UNCHANGED <<listVars, attempt, frontVars, good, bad, now>>

\* Mutant: an expired circuit lets the request through and stays as it is.
FailsOnAllow_Kept(f) == fails[f]

\* Letting a request through an expired circuit forgets the failures.
FailsOnAllow(f) == 0

\* Mutant: the circuit is not looked at.
CircuitOpen_Never(f) == FALSE

CircuitOpen(f) == openUntil[f] > now

\* An open circuit refuses, which costs the probe an attempt.
Refused(p) == CircuitOpen(Front(p)) /\ FailAttempt(p) /\ UNCHANGED frontVars

\* The requests since the front last answered, or since its last cooldown.
Sent(f) == IF openUntil[f] \in 1..now THEN 1 ELSE hits[f] + 1

\* A circuit that is closed, or has just expired, lets the request through.
LetThrough(p) ==
  LET f == Front(p) IN
  /\ ~CircuitOpen(f)
  /\ pc' = [pc EXCEPT ![p] = "inflight"] /\ UNCHANGED attempt
  /\ hits' = [hits EXCEPT ![f] = Sent(f)]
  /\ \/ openUntil[f] = 0 /\ UNCHANGED <<fails, openUntil>>
     \/ /\ openUntil[f] # 0
        /\ fails' = [fails EXCEPT ![f] = FailsOnAllow(f)]
        /\ openUntil' = [openUntil EXCEPT ![f] = 0]

\* FrontCircuitBreaker::allow, and the request if it lets it through.
Ask(p) ==
  /\ pc[p] = "trying" /\ Front(p) # Direct
  /\ Refused(p) \/ LetThrough(p)
  /\ UNCHANGED <<listVars, good, bad, now>>

\* Mutant: a failure that arrives while the circuit is open is dropped.
Counted_WhileClosed(f) == IF openUntil[f] # 0 THEN fails[f] ELSE fails[f] + 1

Counted(f) == fails[f] + 1

\* FrontCircuitBreaker::record: a failure may open the circuit, or extend its
\* cooldown; a success closes it.
Record(f, ok) ==
  IF ok
  THEN /\ fails' = [fails EXCEPT ![f] = 0]
       /\ openUntil' = [openUntil EXCEPT ![f] = 0]
       /\ hits' = [hits EXCEPT ![f] = 0]
  ELSE /\ fails' = [fails EXCEPT ![f] = Counted(f)]
       /\ openUntil' = [openUntil EXCEPT ![f] = IF Counted(f) >= Threshold
                                                THEN now + Cooldown ELSE @]
       /\ UNCHANGED hits

\* The handshake succeeds, fails or times out.
Answer(p, ok) ==
  /\ pc[p] = "inflight"
  /\ IF ok THEN pc' = [pc EXCEPT ![p] = "reachable"] /\ UNCHANGED attempt
           ELSE FailAttempt(p)
  /\ IF Front(p) = Direct THEN UNCHANGED frontVars ELSE Record(Front(p), ok)
  /\ UNCHANGED <<listVars, good, bad, now>>

\* The jittered backoff is over; the permit was kept.
Retry(p) ==
  /\ pc[p] = "backoff"
  /\ pc' = [pc EXCEPT ![p] = "trying"]
  /\ UNCHANGED <<listVars, attempt, frontVars, good, bad, now>>

\* Mutant: the chunk is recorded when its last task has been spawned.
ChunkDone_Early(l) == \A p \in Chunk(l) : pc[p] # "queued"

ChunkDone(l) == \A p \in Chunk(l) : pc[p] \in Ended

\* Every task of the chunk was joined; record_batch.
EndChunk(l) ==
  LET t == TransportOf[l] IN
  /\ recorded[l] < started[l] /\ ChunkDone(l)
  /\ good' = [good EXCEPT ![t] = @ + Cardinality({p \in Chunk(l) : pc[p] = "reachable"})]
  /\ bad' = [bad EXCEPT ![t] = @ + Cardinality({p \in Chunk(l) : pc[p] = "unreachable"})]
  /\ recorded' = [recorded EXCEPT ![l] = started[l]]
  /\ UNCHANGED <<started, permits, probeVars, frontVars, now>>

Tick ==
  /\ now < MaxTime /\ now' = now + 1
  /\ UNCHANGED <<listVars, probeVars, frontVars, good, bad>>

ProbeStep(p) ==
  Begin(p) \/ Connect(p) \/ Ask(p) \/ Retry(p) \/ \E ok \in BOOLEAN : Answer(p, ok)
ListStep(l) == StartChunk(l) \/ EndChunk(l)

Next ==
  \/ \E l \in Lists : ListStep(l)
  \/ \E p \in Probes : ProbeStep(p)
  \/ Tick

Spec == Init /\ [][Next]_vars

\* The runtime polls every task; connects and handshakes time out.
FairSpec ==
  /\ Spec
  /\ \A l \in Lists : WF_vars(ListStep(l))
  /\ \A p \in Probes : WF_vars(ProbeStep(p))

-----------------------------------------------------------------------------
(* Properties                                                              *)

\* Every variable has the values the code gives it.
TypeOK ==
  /\ started \in [Lists -> Nat] /\ recorded \in [Lists -> Nat]
  /\ permits \in [Lists -> 0..MaxWorkers]
  /\ pc \in [Probes -> Running \cup Ended \cup {"queued"}]
  /\ attempt \in [Probes -> 0..MaxRetries]
  /\ fails \in [Fronts -> Nat] /\ openUntil \in [Fronts -> Nat]
  /\ good \in [Transports -> Nat] /\ bad \in [Transports -> Nat]
  /\ hits \in [Fronts -> Nat] /\ now \in Nat

\* A front is blocked exactly when it failed Threshold times in a row, in
\* whatever order the probes of several lists ask and record.
BlockedIffFailing ==
  \A f \in Fronts : openUntil[f] # 0 <=> fails[f] >= Threshold

Contacting(f) == {p \in Probes : pc[p] = "inflight" /\ Front(p) = f}

\* Every request sent to a front since its last answer or cooldown is a counted
\* failure or still under way: a late or reordered answer makes none forgotten.
FailuresCoverHits ==
  \A f \in Fronts : hits[f] <= fails[f] + Cardinality(Contacting(f))

\* However the lists interleave, a dead front receives at most the requests
\* that open its circuit and those the workers had under way by then, until
\* its cooldown is over ("front-domain circuit opened").
StormBounded ==
  \A f \in Fronts : hits[f] <= Threshold - 1 + Cardinality(Lists) * MaxWorkers

\* A list never has more probes under way than its transport's workers, and
\* every result counts once for the transport, whichever list ends first
\* (test_many, record_batch).
ResultsCounted ==
  /\ \A l \in Lists : Cardinality(Holders(l)) <= permits[l]
  /\ \A t \in Transports :
       LET done == {p \in Probes : TransportOf[p[1]] = t /\ p[2] <= recorded[p[1]]}
       IN  /\ good[t] = Cardinality({p \in done : pc[p] = "reachable"})
           /\ bad[t] = Cardinality({p \in done : pc[p] = "unreachable"})

\* Every call of test_many returns, with a verdict for every candidate.
ListsEnd == <>(\A p \in Probes : pc[p] \in Ended /\ p[2] <= recorded[p[1]])
=============================================================================
