--------------------------------- MODULE Agent ---------------------------------
(***************************************************************************)
(* The volunteer agent (crates/agent): a task per connection takes one     *)
(* request through the rate limiter, the validation, the probe permits and *)
(* the consent gate to the probe, and its anonymized report through the    *)
(* k-anonymity batcher to the emitted batches.  Batcher and batches are    *)
(* under two mutexes, so a batch is for a moment in neither.  Tasks run on *)
(* several threads; every step below is one lock or one await.  The report *)
(* of a connection is the connection itself.  A stop loses everything.     *)
(***************************************************************************)
EXTENDS Integers, FiniteSets

CONSTANTS
  Conns,      \* connections
  Clients,    \* peer addresses
  K,          \* k_anonymity_threshold
  MaxProbes,  \* max_concurrent_probes
  Burst,      \* rate_limit_burst
  Rate,       \* rate_limit_per_second, per tick
  MaxTime,    \* bound on the clock
  MaxStops    \* bound on the restarts

ASSUME AgentAssumption ==
  /\ IsFiniteSet(Conns)
  /\ K \in Nat \ {0} /\ MaxProbes \in Nat \ {0}
  /\ Burst \in Nat \ {0} /\ Rate \in Nat \ {0}
  /\ MaxTime \in Nat /\ MaxStops \in Nat

VARIABLES
  granted,    \* the ConsentGate
  tokens,     \* client -> tokens of its bucket
  spent,      \* client -> tick -> requests let through in it
  free,       \* permits of the semaphore
  pc,         \* connection -> where its task is
  status,     \* connection -> status of its response, 0 before
  held,       \* reports withheld by the batcher
  inHand,     \* connection -> batch it has got and not stored yet
  emitted,    \* batches for the upstream transport
  taken,      \* batches the transport has drained
  now,
  stops

batchVars == <<held, inHand, emitted, taken>>
limitVars == <<tokens, spent>>
vars == <<granted, limitVars, free, pc, status, batchVars, now, stops>>

Holding == {"permitted", "probing", "emitting", "reported"}

\* Mutant: a permit is given back on every path.
HasPermit_Always(c) == TRUE

\* Whether the task of c holds one of the permits.
HasPermit(c) == pc[c] \in Holding

Init ==
  /\ granted = FALSE
  /\ tokens = [k \in Clients |-> Burst]
  /\ spent = [k \in Clients |-> [t \in 0..MaxTime |-> 0]]
  /\ free = MaxProbes
  /\ pc = [c \in Conns |-> "new"]
  /\ status = [c \in Conns |-> 0]
  /\ held = {} /\ inHand = [c \in Conns |-> {}]
  /\ emitted = {} /\ taken = {}
  /\ now = 0 /\ stops = 0

\* The task of c answers and gives its permit back, if it holds one.
Answer(c, code) ==
  /\ status' = [status EXCEPT ![c] = code]
  /\ pc' = [pc EXCEPT ![c] = "done"]
  /\ free' = IF HasPermit(c) THEN free + 1 ELSE free

\* The volunteer answers the consent screen with yes.
GrantConsent ==
  /\ granted' = TRUE
  /\ UNCHANGED <<limitVars, free, pc, status, batchVars, now, stops>>

\* The limiter, and behind it the parsing and validation of the request; a
\* wrong method or path is refused before.
Admit(c, k) ==
  /\ pc[c] = "new"
  /\ \/ \E code \in {404, 405} : Answer(c, code) /\ UNCHANGED limitVars
     \/ /\ tokens[k] = 0
        /\ Answer(c, 429) /\ UNCHANGED limitVars
     \/ /\ tokens[k] > 0
        /\ tokens' = [tokens EXCEPT ![k] = @ - 1]
        /\ spent' = [spent EXCEPT ![k][now] = @ + 1]
        /\ \/ Answer(c, 400)
           \/ /\ pc' = [pc EXCEPT ![c] = "valid"]
              /\ UNCHANGED <<free, status>>
  /\ UNCHANGED <<granted, batchVars, now, stops>>

\* try_acquire_owned: a permit, or 429.
Acquire(c) ==
  /\ pc[c] = "valid"
  /\ \/ /\ free > 0
        /\ free' = free - 1
        /\ pc' = [pc EXCEPT ![c] = "permitted"] /\ UNCHANGED status
     \/ free = 0 /\ Answer(c, 429)
  /\ UNCHANGED <<granted, limitVars, batchVars, now, stops>>

\* Mutant: the answer without consent keeps the permit.
Unconsented_Leak(c) ==
  /\ status' = [status EXCEPT ![c] = 403]
  /\ pc' = [pc EXCEPT ![c] = "done"] /\ UNCHANGED free

\* Mutant: the probe does not ask the gate.
Unconsented_Probe(c) ==
  /\ pc' = [pc EXCEPT ![c] = "probing"] /\ UNCHANGED <<status, free>>

\* Mutant: the task waits for the consent, permit in hand.
Unconsented_Wait(c) == FALSE

\* try_token fails.
Unconsented(c) == Answer(c, 403)

\* engine.probe: the gate, then the kind of the probe, then the traffic.
StartProbe(c) ==
  /\ pc[c] = "permitted"
  /\ \/ ~granted /\ Unconsented(c)
     \/ granted /\ Answer(c, 422)
     \/ /\ granted
        /\ pc' = [pc EXCEPT ![c] = "probing"] /\ UNCHANGED <<status, free>>
  /\ UNCHANGED <<granted, limitVars, batchVars, now, stops>>

\* Mutant: a batch leaves one report too early.
Ready_OffByOne(n) == n + 1 >= K

\* Whether n held reports are a batch.
Ready(n) == n >= K

\* Mutant: the batch is cloned, and the queue not drained.
HeldAfterEmit_Cloned(all) == all

\* What the batcher keeps of the reports it emits.
HeldAfterEmit(all) == {}

\* The probe ends, in a verdict whatever happens; its report is submitted.
Submit(c) ==
  LET all == held \cup {c} IN
  /\ pc[c] = "probing"
  /\ IF Ready(Cardinality(all))
     THEN /\ held' = HeldAfterEmit(all)
          /\ inHand' = [inHand EXCEPT ![c] = all]
          /\ pc' = [pc EXCEPT ![c] = "emitting"]
     ELSE /\ held' = all
          /\ pc' = [pc EXCEPT ![c] = "reported"] /\ UNCHANGED inHand
  /\ UNCHANGED <<granted, limitVars, free, status, emitted, taken, now, stops>>

\* record_report stores the batch it has got.
Emit(c) ==
  /\ pc[c] = "emitting"
  /\ emitted' = emitted \cup {inHand[c]}
  /\ inHand' = [inHand EXCEPT ![c] = {}]
  /\ pc' = [pc EXCEPT ![c] = "reported"]
  /\ UNCHANGED <<granted, limitVars, free, status, held, taken, now, stops>>

Respond(c) ==
  /\ pc[c] = "reported"
  /\ Answer(c, 200)
  /\ UNCHANGED <<granted, limitVars, batchVars, now, stops>>

\* Mutant: the batches are read, and not removed.
EmittedAfterTake_Kept == emitted

\* take_emitted_batches leaves an empty list behind.
EmittedAfterTake == {}

TakeEmitted ==
  /\ emitted # {}
  /\ taken' = taken \cup emitted /\ emitted' = EmittedAfterTake
  /\ UNCHANGED <<granted, limitVars, free, pc, status, held, inHand, now, stops>>

\* Mutant: a bucket fills without end.
Refill_Unbounded(t) == t + Rate

\* A tick's refill of a bucket with t tokens.
Refill(t) == IF t + Rate > Burst THEN Burst ELSE t + Rate

Tick ==
  /\ now < MaxTime /\ now' = now + 1
  /\ tokens' = [k \in Clients |-> Refill(tokens[k])]
  /\ UNCHANGED <<granted, spent, free, pc, status, batchVars, stops>>

\* The agent is stopped and started again: consent, buckets, permits and
\* reports are in memory only, and the requests under way are cut off.
Restart ==
  /\ stops < MaxStops /\ stops' = stops + 1
  /\ granted' = FALSE
  /\ tokens' = [k \in Clients |-> Burst]
  /\ spent' = [k \in Clients |-> [t \in 0..MaxTime |-> 0]]
  /\ free' = MaxProbes
  /\ pc' = [c \in Conns |-> IF pc[c] = "new" THEN "new" ELSE "done"]
  /\ held' = {} /\ inHand' = [c \in Conns |-> {}] /\ emitted' = {}
  /\ UNCHANGED <<status, taken, now>>

Serve(c) ==
  \/ \E k \in Clients : Admit(c, k)
  \/ Acquire(c) \/ StartProbe(c) \/ Submit(c) \/ Emit(c) \/ Respond(c)

Next ==
  \/ GrantConsent
  \/ \E c \in Conns : Serve(c)
  \/ TakeEmitted
  \/ Tick
  \/ Restart

Spec == Init /\ [][Next]_vars

\* The runtime polls every task, and reads, connects and writes time out.
FairSpec == Spec /\ \A c \in Conns : WF_vars(Serve(c))

-----------------------------------------------------------------------------
(* Properties                                                              *)

\* Every variable has the values the code gives it.
TypeOK ==
  /\ granted \in BOOLEAN
  /\ tokens \in [Clients -> 0..Burst]
  /\ spent \in [Clients -> [0..MaxTime -> Nat]]
  /\ free \in 0..MaxProbes
  /\ pc \in [Conns -> Holding \cup {"new", "valid", "done"}]
  /\ status \in [Conns -> {0, 200, 400, 403, 404, 405, 422, 429}]
  /\ held \subseteq Conns
  /\ inHand \in [Conns -> SUBSET Conns]
  /\ emitted \subseteq SUBSET Conns /\ taken \subseteq SUBSET Conns
  /\ now \in 0..MaxTime /\ stops \in 0..MaxStops

\* A probe runs, or its report exists in memory, only in a process whose
\* volunteer has consented ("No probe runs before this has been called with
\* explicit consent", ProbeEngine::grant_consent).
ConsentFirst ==
  (\E c \in Conns : pc[c] \in {"probing", "emitting", "reported"})
    \/ held # {} \/ emitted # {}
  => granted

\* Permits are neither leaked nor handed out twice on any path out of
\* handle_request, so no more than MaxProbes probes ever run.
PermitsConserved ==
  free + Cardinality({c \in Conns : HasPermit(c)}) = MaxProbes

Pool == emitted \cup {inHand[c] : c \in {d \in Conns : pc[d] = "emitting"}}
Reportable ==
  {c \in Conns : pc[c] \in {"new", "valid", "permitted", "probing"}}

Mixer == INSTANCE KAnonymity WITH
           Reports <- Conns, fresh <- Reportable, withheld <- held,
           pool <- Pool, upstream <- taken

\* Volunteer reports are mixed as KAnonymity promises, although the batcher
\* and the emitted batches are locked one after the other (record_report).
MixesReports == Mixer!KSpec

\* No batch has fewer than K reports, stored, taken or in a task's hands.
Anonymous == Mixer!Anonymous

\* A report leaves at most once (record_report, take_emitted_batches).
OnceOnly == Mixer!OnceOnly

\* f[i] + ... + f[j].
SumOver(f, i, j) ==
  LET sum[n \in (i - 1)..j] == IF n < i THEN 0 ELSE sum[n - 1] + f[n]
  IN  sum[j]

\* What the limiter let through for k in the ticks i..j.
SpentIn(k, i, j) == SumOver(spent[k], i, j)

\* "so a single caller can never exceed the configured burst and sustained
\* rate" (rate_limit.rs), in any window of the life of the process.
RateRespected ==
  \A k \in Clients : \A i, j \in 0..MaxTime :
    i <= j => SpentIn(k, i, j) <= Burst + Rate * (j - i)

\* Every request that was read is answered, or cut off by a stop.
Answered == \A c \in Conns : pc[c] # "new" ~> pc[c] = "done"
=============================================================================
